-------------------------------- MODULE Login --------------------------------
(***************************************************************************)
(* The connection phase byte by byte: the messages of                      *)
(* detail/protocol/handshake_messages.hpp, what handshake_processor makes  *)
(* of the bytes it receives, the bytes it composes and the hashes of the   *)
(* plug-ins.                                                               *)
(*                                                                         *)
(* Module Handshake has the same algorithm with messages by kind; this     *)
(* module implements it (ImplementsHandshake): the meaning of a received   *)
(* message is what the peer meant, that of a sent one what a MySQL server  *)
(* reads in it.  Transfers succeed and TLS is always established; failures *)
(* of both are in Handshake.                                               *)
(***************************************************************************)
EXTENDS Messages, FiniteSets
LOCAL INSTANCE SequencesExt
LOCAL INSTANCE FiniteSetsExt
LOCAL INSTANCE Bitwise

CONSTANTS
  SHA1(_), SHA256(_),  \* the hash functions: 20 and 32 bytes
  Nonce,               \* the 20 bytes of each challenge, by its name
  Password,            \* the bytes of each password, by its name
  Users,               \* connection_params, with the name of the password
  Transmissions,       \* what the peer may send: bytes and what it means; of an error
                       \* the code, the text and whether it has a SQL state
  MaxMessages          \* bound on the messages the peer sends

VARIABLES
  params,           \* connection_params and the interface used
  pc,               \* the step of the algorithm
  negotiated_caps,  \* handshake_processor::negotiated_caps_, as bits
  plugin,           \* auth_calculator::plugin_
  response,         \* auth_calculator::response_
  err,              \* what the handshake reported, once it is over
  ssl_active,       \* whether there is a TLS stream
  current_caps,     \* channel::current_caps_
  received,         \* the transmission that is read next, if there is one
  sent,             \* the messages of the client
  peerSent,         \* messages the peer has sent so far
  auth_meaning,     \* what a MySQL server makes of the response,
  sent_meaning      \* and of the messages (both for the refinement only)

processorVars == <<negotiated_caps, plugin, response>>
meanings == <<auth_meaning, sent_meaning>>
vars == <<params, pc, processorVars, err, ssl_active, current_caps, received, sent, peerSent, meanings>>

-----------------------------------------------------------------------------
(* Capabilities: a set of bits *)

CLIENT_CONNECT_WITH_DB == 3
CLIENT_SSL == 11
CLIENT_PLUGIN_AUTH == 19
\* CLIENT_PROTOCOL_41, CLIENT_SECURE_CONNECTION,
\* CLIENT_PLUGIN_AUTH_LENENC_CLIENT_DATA and CLIENT_DEPRECATE_EOF
mandatory_capabilities == {9, 15, CLIENT_PLUGIN_AUTH, 21, 24}

\* The bits that are set in a number of several bytes, and the number.
Bits(bytes) ==
  {k \in 0..(8 * Len(bytes) - 1) : (bytes[(k \div 8) + 1] \div 2^(k % 8)) % 2 = 1}
get(caps) == MapThenSumSet(LAMBDA k : 2^k, caps)

conditional_capability(condition, cap) == IF condition THEN {cap} ELSE {}

required_caps ==
  mandatory_capabilities
    \cup conditional_capability(params.database # <<>>, CLIENT_CONNECT_WITH_DB)
    \cup conditional_capability(params.ssl = "require", CLIENT_SSL)

negotiate(server_caps) ==
  server_caps \cap (required_caps \cup conditional_capability(params.ssl = "enable", CLIENT_SSL))

-----------------------------------------------------------------------------
(* detail/auth *)

xor(a, b) == [i \in DOMAIN a |-> a[i] ^^ b[i]]
challenge_length == 20

NativeChallengeLast(password, challenge) ==
  xor(SHA1(password), SHA1(SHA1(SHA1(password)) \o challenge))

\* The two compute_auth_string: the second hash is salted with the challenge.
native_auth_string(password, challenge) ==
  xor(SHA1(password), SHA1(challenge \o SHA1(SHA1(password))))
sha2_auth_string(password, challenge) ==
  xor(SHA256(SHA256(SHA256(password)) \o challenge), SHA256(password))

\* Names of the plug-ins, as characters and as they are called in Handshake.
Native == "mysql_native_password"
Sha2 == "caching_sha2_password"
PluginName == Native :> <<109, 110>> @@ Sha2 :> <<99, 115>>

perform_full_auth == <<4>>
fast_auth_complete_challenge == <<3>>

\* The response of a plug-in, or the error that keeps it from computing one.
Computed(bytes) == [err |-> "ok", response |-> bytes]
NotComputed(e) == [err |-> e, response |-> response]
compute_response(name, password, challenge, ssl) ==
  IF name = Sha2 /\ challenge = perform_full_auth
    THEN IF ssl THEN Computed(Append(password, 0)) ELSE NotComputed("auth_plugin_requires_ssl")
  ELSE IF Len(challenge) # challenge_length THEN NotComputed("protocol_value_error")
  ELSE Computed(IF name = Native THEN native_auth_string(password, challenge)
                                 ELSE sha2_auth_string(password, challenge))

\* find_plugin: a plug-in by its characters.
find_plugin(name) ==
  IF \E p \in {Native, Sha2} : PluginName[p] = name
    THEN CHOOSE p \in {Native, Sha2} : PluginName[p] = name
    ELSE "none"

calculate(name, challenge, ssl) ==
  IF find_plugin(name) = "none"    THEN NotComputed("unknown_auth_plugin")
  ELSE IF params.password = ""     THEN Computed(<<>>)
  ELSE compute_response(find_plugin(name), Password[params.password], challenge, ssl)

-----------------------------------------------------------------------------
(* Messages of the server *)

handshake_head ==
  <<string_null("server_version"), int("connection_id", 4), string_fixed("auth1", 8), int("filler", 1),
    string_fixed("caps_low", 2), int("character_set", 1), int("status_flags", 2),
    string_fixed("caps_high", 2)>>
handshake_lengths == <<int("auth_plugin_data_len", 1), string_fixed("reserved", 10)>>
handshake_rest(auth_plugin_data_len) ==
  <<string_fixed("auth2", Max({13, auth_plugin_data_len - 8})), string_null("auth_plugin_name")>>

ChallengeWithTerminator(auth1, auth2) == auth1 \o auth2
\* The second part ends with a zero that is not part of the challenge.
Challenge(auth1, auth2) == auth1 \o Front(auth2)

deserialize_handshake_packet(bytes) ==
  Then(deserialize_struct(handshake_head, bytes), LAMBDA head, left :
    LET caps == Bits(head.caps_low \o head.caps_high) IN
    IF CLIENT_PLUGIN_AUTH \notin caps
      THEN Failed("server_unsupported")
      ELSE Then(deserialize_struct(handshake_lengths, left), LAMBDA lengths, left2 :
           Then(deserialize_struct(handshake_rest(lengths.auth_plugin_data_len), left2), LAMBDA auth, left3 :
             Got([caps |-> caps, plugin |-> auth.auth_plugin_name,
                  challenge |-> Challenge(head.auth1, auth.auth2)], left3))))

handshake_protocol_version_9 == 9
handshake_protocol_version_10 == 10

\* The greeting, or why there is none: "server_error" stands for the error in
\* an error packet.
deserialize_handshake(bytes) ==
  Then(deserialize_message_type(bytes), LAMBDA type, rest :
    CASE type = handshake_protocol_version_9  -> Failed("server_unsupported")
      [] type = error_packet_header           -> Failed("server_error")
      [] type = handshake_protocol_version_10 -> Complete(deserialize_handshake_packet(rest))
      [] OTHER                                -> Failed("protocol_value_error"))

auth_switch_request_packet == <<string_null("plugin_name"), string_eof("auth_plugin_data")>>

\* The last byte of the data, a zero, is dropped.  A build with assertions
\* stops if it is not a zero (AssertionFails).
deserialize_auth_switch(bytes) ==
  Then(deserialize_message(auth_switch_request_packet, bytes), LAMBDA request, rest :
    LET data == request.auth_plugin_data IN
    Got([plugin |-> request.plugin_name, challenge |-> IF data = <<>> THEN <<>> ELSE Front(data)], rest))
asserted(bytes) ==
  LET request == deserialize_struct(auth_switch_request_packet, Tail(bytes))
      data == request.value.auth_plugin_data
  IN bytes # <<>> /\ Head(bytes) = auth_switch_request_header /\ request.err = "ok" =>
       data = <<>> \/ Last(data) = 0

auth_more_data_packet == <<string_eof("auth_plugin_data")>>

\* The messages after the client's response: an OK packet is not looked into.
Reply(outcome, plugin_name, challenge) ==
  [outcome |-> outcome, plugin |-> plugin_name, challenge |-> challenge]
deserialize_reply(bytes) ==
  Then(deserialize_message_type(bytes), LAMBDA type, rest :
    CASE type = ok_packet_header -> Got(Reply("complete", <<>>, <<>>), <<>>)
      [] type = error_packet_header -> Failed("server_error")
      [] type = auth_switch_request_header ->
           Then(deserialize_auth_switch(rest), LAMBDA request, left :
             Got(Reply("calculate", request.plugin, request.challenge), left))
      [] type = auth_more_data_header ->
           Then(deserialize_message(auth_more_data_packet, rest), LAMBDA more, left :
             IF more.auth_plugin_data = fast_auth_complete_challenge
               THEN Got(Reply("wait_for_ok", <<>>, <<>>), left)
               ELSE Got(Reply("calculate", PluginName[plugin], more.auth_plugin_data), left))
      [] OTHER -> Failed("protocol_value_error"))

-----------------------------------------------------------------------------
(* Messages of the client *)

MAX_PACKET_SIZE == 16777215

\* The numbers that have a name in collation.hpp.
collations ==
  (1..16) \cup (18..75) \cup (77..99) \cup (101..124) \cup (128..151) \cup (159..183) \cup (192..215)
    \cup (223..250)

get_collation_first_byte(collation) == collation % 255

\* Modulo 255 instead of 256 changes none of them.
ASSUME CollationAssumption ==
  \A collation \in collations : get_collation_first_byte(collation) = collation

client_head == <<int("client_flag", 4), int("max_packet_size", 4), int("character_set", 1)>>
ssl_request == Append(client_head, string_fixed("filler", 23))

DatabaseAlways(caps) ==
  client_head \o <<string_fixed("filler", 23), string_null("username"), string_lenenc("auth_response"),
                   string_null("database"), string_null("client_plugin_name")>>
\* The database is only there if CLIENT_CONNECT_WITH_DB was negotiated.
handshake_response_packet(caps) ==
  client_head \o <<string_fixed("filler", 23), string_null("username"), string_lenenc("auth_response")>>
    \o (IF CLIENT_CONNECT_WITH_DB \in caps THEN <<string_null("database")>> ELSE <<>>)
    \o <<string_null("client_plugin_name")>>

auth_switch_response_packet == <<string_eof("auth_plugin_data")>>

compose_ssl_request ==
  serialize_message(<<>>, ssl_request,
    [client_flag |-> get(negotiated_caps), max_packet_size |-> MAX_PACKET_SIZE,
     character_set |-> get_collation_first_byte(params.collation), filler |-> [i \in 1..23 |-> 0]])

compose_handshake_response ==
  serialize_message(<<>>, handshake_response_packet(negotiated_caps),
    [client_flag |-> get(negotiated_caps), max_packet_size |-> MAX_PACKET_SIZE,
     character_set |-> get_collation_first_byte(params.collation), filler |-> [i \in 1..23 |-> 0],
     username |-> params.username, auth_response |-> response, database |-> params.database,
     client_plugin_name |-> PluginName[plugin]])

compose_auth_switch_response ==
  serialize_message(<<>>, auth_switch_response_packet, [auth_plugin_data |-> response])

-----------------------------------------------------------------------------
(* How a MySQL server reads the messages of the client, in the terms of      *)
(* module Handshake                                                          *)

ServerHead == <<int("flags", 4), int("max_packet", 4), int("charset", 1), string_fixed("zeros", 23)>>
ServerFields(flags) ==
  ServerHead \o <<string_null("user"), string_lenenc("auth")>>
    \o (IF 3 \in flags THEN <<string_null("schema")>> ELSE <<>>) \o <<string_null("plugin")>>

Flags(bytes) == Bits(SubSeq(bytes, 1, 4))
ServerResponse(bytes) == deserialize_message(ServerFields(Flags(bytes)), bytes)

CapName ==
  3 :> "CONNECT_WITH_DB" @@ 5 :> "COMPRESS" @@ 9 :> "PROTOCOL_41" @@ 11 :> "SSL"
    @@ 15 :> "SECURE_CONNECTION" @@ 19 :> "PLUGIN_AUTH" @@ 21 :> "PLUGIN_AUTH_LENENC_CLIENT_DATA"
    @@ 24 :> "DEPRECATE_EOF"
Named(caps) == {CapName[k] : k \in caps}

Auth(kind, name, nonce, password) ==
  [kind |-> kind, plugin |-> name, challenge |-> nonce, password |-> password]
NoAuth == Auth("none", "", "", "")

\* A server keeps a hash of the password; what comes xor a salted hash of that
\* has to be a hash of the password's hash.
Verified(name, nonce, password, bytes) ==
  IF name = Native
    THEN LET stored == SHA1(SHA1(password)) IN
         Len(bytes) = 20 /\ SHA1(xor(bytes, SHA1(nonce \o stored))) = stored
    ELSE LET stored == SHA256(SHA256(password)) IN
         Len(bytes) = 32 /\ SHA256(xor(bytes, SHA256(stored \o nonce))) = stored

Scrambles == {Native, Sha2} \X (DOMAIN Nonce) \X (DOMAIN Password)

AuthMeaning(bytes) ==
  LET plain == {p \in DOMAIN Password : bytes = Password[p] \o <<0>>}
      scrambles == {s \in Scrambles : Verified(s[1], Nonce[s[2]], Password[s[3]], bytes)}
  IN IF bytes = <<>> THEN Auth("empty", "", "", "")
     ELSE IF plain # {} THEN Auth("plaintext", "", "", CHOOSE p \in plain : TRUE)
     ELSE IF scrambles # {} THEN LET s == CHOOSE s \in scrambles : TRUE IN Auth("scramble", s[1], s[2], s[3])
     ELSE Auth("garbage", "", "", "")

\* 32 bytes are the request for TLS: a response is longer.
IsSslRequest(i, bytes) == i = 1 /\ Len(bytes) = 32
IsResponse(i, bytes) == ~IsSslRequest(i, bytes) /\ i <= 1 + (IF ssl_active THEN 1 ELSE 0)

ClientMessage(type, caps, name, auth, database) ==
  [type |-> type, caps |-> Named(caps), plugin |-> name, auth |-> auth, database |-> database,
   secure |-> ssl_active]

\* The meaning of bytes that are sent as message i.
SentMeaning(i, bytes) ==
  LET r == ServerResponse(bytes) IN
  IF IsSslRequest(i, bytes)
    THEN ClientMessage("ssl_request", Flags(bytes), "", NoAuth, FALSE)
  ELSE IF ~IsResponse(i, bytes)
    THEN ClientMessage("auth_data", Flags(sent[1]), "", AuthMeaning(bytes), FALSE)
  ELSE IF r.err = "ok"
    THEN ClientMessage("response", Flags(bytes), find_plugin(r.value.plugin), AuthMeaning(r.value.auth),
                       "schema" \in DOMAIN r.value /\ r.value.schema # <<>>)
  ELSE ClientMessage("garbage", {}, "", NoAuth, FALSE)

-----------------------------------------------------------------------------
Init ==
  /\ params \in Users
  /\ pc = "read_greeting"
  /\ negotiated_caps = {} /\ plugin = "none" /\ response = <<>>
  /\ err = Reported(0, <<>>)
  /\ ssl_active = FALSE /\ current_caps = {}
  /\ received = <<>> /\ sent = <<>> /\ peerSent = 0
  /\ auth_meaning = Auth("none", "", "", "") /\ sent_meaning = <<>>

\* What is left in the buffer counts for an error packet.
Reason(e) ==
  IF e = "server_error" THEN process_error_packet(Tail(received[1].bytes)) ELSE Reported(errc[e], <<>>)

Reject(e) ==
  /\ pc' = "done" /\ err' = Reason(e)
  /\ current_caps' = IF params.api = "async" THEN negotiated_caps' ELSE current_caps
  /\ UNCHANGED ssl_active

greeting == deserialize_handshake(received[1].bytes)
reply == deserialize_reply(received[1].bytes)

Receive(step) ==
  /\ pc = step /\ received # <<>>
  /\ received' = <<>>
  /\ UNCHANGED <<params, sent, sent_meaning, peerSent>>

RejectGreeting ==
  /\ Receive("read_greeting")
  /\ greeting.err # "ok"
  /\ UNCHANGED <<processorVars, auth_meaning>>
  /\ Reject(greeting.err)

RejectCapabilities ==
  /\ Receive("read_greeting")
  /\ greeting.err = "ok" /\ ~(required_caps \subseteq greeting.value.caps)
  /\ UNCHANGED <<processorVars, auth_meaning>>
  /\ Reject("server_unsupported")

Calculate(name, challenge, caps, next) ==
  LET result == calculate(name, challenge, CLIENT_SSL \in caps) IN
  /\ plugin' = find_plugin(name)
  /\ response' = result.response
  /\ auth_meaning' = IF result.err = "ok" THEN AuthMeaning(result.response) ELSE auth_meaning
  /\ \/ result.err # "ok" /\ Reject(result.err)
     \/ result.err = "ok" /\ pc' = next /\ UNCHANGED <<err, ssl_active, current_caps>>

ProcessGreeting ==
  LET g == greeting.value
      caps == negotiate(g.caps)
  IN
  /\ Receive("read_greeting")
  /\ greeting.err = "ok" /\ required_caps \subseteq g.caps
  /\ negotiated_caps' = caps
  /\ Calculate(g.plugin, g.challenge, caps,
               IF CLIENT_SSL \in caps THEN "write_ssl_request" ELSE "write_response")

Write(step, bytes, next) ==
  /\ pc = step
  /\ sent' = Append(sent, bytes)
  /\ sent_meaning' = Append(sent_meaning, SentMeaning(Len(sent) + 1, bytes))
  /\ pc' = next
  /\ UNCHANGED <<params, processorVars, err, ssl_active, current_caps, received, peerSent, auth_meaning>>

WriteSslRequest == Write("write_ssl_request", compose_ssl_request, "ssl_handshake")

SslHandshake ==
  /\ pc = "ssl_handshake"
  /\ ssl_active' = TRUE /\ pc' = "write_response"
  /\ UNCHANGED <<params, processorVars, err, current_caps, received, sent, peerSent, meanings>>

WriteResponse == Write("write_response", compose_handshake_response, "read_response")

WriteAuth == Write("write_auth", compose_auth_switch_response, "read_response")

RejectReply ==
  /\ Receive("read_response")
  /\ reply.err # "ok"
  /\ UNCHANGED <<processorVars, auth_meaning>>
  /\ Reject(reply.err)

Accepted ==
  /\ Receive("read_response")
  /\ reply.err = "ok" /\ reply.value.outcome = "complete"
  /\ pc' = "done" /\ current_caps' = negotiated_caps
  /\ UNCHANGED <<processorVars, auth_meaning, err, ssl_active>>

WaitForOk ==
  /\ Receive("read_response")
  /\ reply.err = "ok" /\ reply.value.outcome = "wait_for_ok"
  /\ UNCHANGED <<pc, processorVars, auth_meaning, err, ssl_active, current_caps>>

\* An auth switch names a plug-in, auth more data goes on with the one in use.
Recalculate ==
  /\ Receive("read_response")
  /\ reply.err = "ok" /\ reply.value.outcome = "calculate"
  /\ UNCHANGED negotiated_caps
  /\ Calculate(reply.value.plugin, reply.value.challenge, negotiated_caps, "write_auth")

\* A build with assertions does not survive an auth switch without that zero.
AssertionFails ==
  /\ pc = "read_response" /\ received # <<>> /\ ~asserted(received[1].bytes)
  /\ pc' = "aborted"
  /\ UNCHANGED <<params, processorVars, err, ssl_active, current_caps, received, sent, peerSent, meanings>>

Peer ==
  /\ peerSent < MaxMessages /\ received = <<>> /\ pc \in {"read_greeting", "read_response"}
  /\ \E t \in Transmissions : received' = <<t>>
  /\ peerSent' = peerSent + 1
  /\ UNCHANGED <<params, pc, processorVars, err, ssl_active, current_caps, sent, meanings>>

Next ==
  \/ RejectGreeting \/ RejectCapabilities \/ ProcessGreeting
  \/ WriteSslRequest \/ SslHandshake \/ WriteResponse \/ WriteAuth
  \/ RejectReply \/ Accepted \/ WaitForOk \/ Recalculate \/ AssertionFails
  \/ Peer

Spec == Init /\ [][Next]_vars

-----------------------------------------------------------------------------
(* The refinement *)

\* Codes a server may send are its errors; a message that does not deserialize
\* is one of the kinds that are not expected.
ErrorName ==
  IF pc # "done" \/ err.code = 0 THEN "none"
  ELSE IF err.code < 65536 THEN "server_error"
  ELSE IF err.code = errc.server_unsupported THEN "server_unsupported"
  ELSE IF err.code = errc.unknown_auth_plugin THEN "unknown_auth_plugin"
  ELSE IF err.code = errc.auth_plugin_requires_ssl THEN "auth_plugin_requires_ssl"
  ELSE "protocol_value_error"

H == INSTANCE Handshake WITH
  Nonces <- DOMAIN Nonce,
  ServerCaps <- {t.meaning.caps : t \in {t \in Transmissions : t.meaning.type = "greeting"}},
  Passwords <- DOMAIN Password,
  MaxQueued <- 1,
  pc <- IF pc = "aborted" THEN "read_response" ELSE pc,
  params <- [ssl |-> params.ssl, database |-> params.database # <<>>, password |-> params.password,
             api |-> params.api],
  negotiated_caps <- Named(negotiated_caps),
  response <- auth_meaning,
  error <- ErrorName,
  current_caps <- Named(current_caps),
  toClient <- [i \in DOMAIN received |-> received[i].meaning],
  wire <- sent_meaning

-----------------------------------------------------------------------------
(* Properties *)

\* The bytes mean what the algorithm needs them to mean: with every message read
\* as its sender meant it, whole or damaged, and every answer read as a server
\* reads it, the client takes the steps of module Handshake (or aborts).  The layout of the
\* greeting, the zeros that are dropped, the capability bits, the optional
\* database and the hashes are all part of it.
ImplementsHandshake == H!Spec

\* The server logs in the user the caller named, to the database and with the
\* collation of connection_params, whether TLS is asked for first or not.
LoginIsUnderstood ==
  \A i \in DOMAIN sent : sent_meaning[i].type \notin {"ssl_request", "auth_data"} =>
    LET r == ServerResponse(sent[i]) IN
    /\ r.err = "ok"
    /\ r.value.user = params.username
    /\ r.value.charset = params.collation
    /\ params.database # <<>> => "schema" \in DOMAIN r.value /\ r.value.schema = params.database
    /\ r.value.max_packet = MAX_PACKET_SIZE
    /\ r.value.zeros = [k \in 1..23 |-> 0]
    /\ i = 2 => SubSeq(sent[2], 1, 32) = sent[1]

\* The caller of a handshake that a server refuses after any number of rounds of
\* authentication gets the server's error and its text.  An error in place of
\* the greeting has no SQL state, but is read as if it had: when there are bytes
\* enough for that its code arrives, and its text without the first characters.
RefusalIsReported ==
  [][received # <<>> /\ received' = <<>> /\ received[1].meaning.type = "error" =>
       /\ err'.code = received[1].code
       /\ received[1].sql_state => err'.info = received[1].text
       /\ ~received[1].sql_state => err'.info = SubSeq(received[1].text, 7, Len(received[1].text))]_vars
=============================================================================
