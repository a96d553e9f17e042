--------------------------- MODULE HandshakeProofs ---------------------------
(***************************************************************************)
(* What a client never gives away, for all passwords, greetings and nonces *)
(* and against any peer, and that it gets along with a MySQL server:       *)
(* proofs about modules Handshake and HandshakeServer.                     *)
(***************************************************************************)
EXTENDS HandshakeServer, SequenceTheorems, TLAPS

\* The invariant behind NoPlaintextPassword and RequireHonoured.
Discretion ==
  /\ TypeOK
  /\ NothingBeforeGreeting /\ PlaintextNeedsSsl /\ SslBeforeCredentials /\ RequireNegotiated
  /\ NoPlaintextPassword /\ RequireHonoured

-----------------------------------------------------------------------------
(* Lemmas *)

\* What a message of the peer can hold.
LEMMA PeerMessageFields ==
  ASSUME NEW m \in PeerMessages
  PROVE  /\ m.plugin \in PluginNames \cup {""}
         /\ m.challenge \in Challenges \cup {""}
<1>1. CASE m \in Greetings
  <2>1. PICK c \in ServerCaps, p \in PluginNames, n \in Nonces : m = Greeting(c, p, n)
    BY <1>1 DEF Greetings
  <2> QED BY <2>1 DEF Greeting, Message, Challenges
<1>2. CASE m \in AuthSwitches
  <2>1. PICK p \in PluginNames, c \in Challenges : m = AuthSwitch(p, c)
    BY <1>2 DEF AuthSwitches
  <2> QED BY <2>1 DEF AuthSwitch, Message
<1>3. CASE m \in MoreDatas
  <2>1. PICK c \in Challenges : m = MoreData(c)
    BY <1>3 DEF MoreDatas
  <2> QED BY <2>1 DEF MoreData, Message
<1>4. CASE m \in Plains
  <2>1. PICK t \in {"greeting_v9", "ok", "error", "other"} : m = Plain(t)
    BY <1>4 DEF Plains
  <2> QED BY <2>1 DEF Plain, Message
<1> QED BY <1>1, <1>2, <1>3, <1>4 DEF PeerMessages

\* The head and the tail of a non-empty queue.
LEMMA QueueTypes ==
  ASSUME NEW S, NEW q \in Seq(S), q # <<>>
  PROVE  Head(q) \in S /\ Tail(q) \in Seq(S)
BY HeadTailProperties

\* A message added to a queue or a log.
LEMMA LogTypes ==
  ASSUME NEW S, NEW q \in Seq(S), NEW m \in S
  PROVE  /\ Append(q, m) \in Seq(S)
         /\ Len(Append(q, m)) = Len(q) + 1
         /\ \A i \in 1..Len(q) : Append(q, m)[i] = q[i]
         /\ Append(q, m)[Len(q) + 1] = m
BY AppendProperties

\* Negotiation never announces a capability the client does not know.
LEMMA NegotiatedCaps ==
  ASSUME TypeOK, NEW caps
  PROVE  negotiate(caps) \in SUBSET Capabilities
BY DEF TypeOK, negotiate, required_caps, conditional_capability, Capabilities,
       mandatory_capabilities, optional_capabilities

\* With ssl_mode::require, negotiation with a server that has what is required
\* ends with TLS.
LEMMA RequiredMeansSsl ==
  ASSUME NEW caps, required_caps \subseteq caps, params.ssl = "require"
  PROVE  "SSL" \in negotiate(caps)
BY DEF negotiate, required_caps, conditional_capability

Errors == {"none", "server_unsupported", "server_error", "protocol_value_error",
           "unknown_auth_plugin", "auth_plugin_requires_ssl", "tls", "io"}

\* A scramble, the empty response and the password are all Auths.
LEMMA AuthTypes ==
  ASSUME NEW name \in PluginNames, NEW challenge \in Challenges,
         NEW password \in Passwords \cup {""}
  PROVE  /\ EmptyAuth \in Auths /\ EmptyAuth.kind = "empty"
         /\ Plaintext(password) \in Auths
         /\ Scramble(name, challenge, password) \in Auths
         /\ Scramble(name, challenge, password).kind = "scramble"
BY DEF EmptyAuth, Plaintext, Scramble, Auths

\* compute_response yields a response or an error, and the password itself only
\* with TLS.
LEMMA Computed ==
  ASSUME TypeOK, NEW name \in all_authentication_plugins, NEW password \in Passwords \cup {""},
         NEW challenge \in Challenges \cup {""}, NEW caps
  PROVE  /\ compute_response(name, password, challenge, caps).error \in Errors
         /\ compute_response(name, password, challenge, caps).response \in Auths
         /\ compute_response(name, password, challenge, caps).response.kind = "plaintext" =>
              "SSL" \in caps \/ compute_response(name, password, challenge, caps).response = response
<1>r. PICK r : r = compute_response(name, password, challenge, caps)
  OBVIOUS
<1> SUFFICES /\ r.error \in Errors /\ r.response \in Auths
             /\ r.response.kind = "plaintext" => "SSL" \in caps \/ r.response = response
  BY <1>r
<1>t. response \in Auths /\ name \in PluginNames
  BY DEF TypeOK, PluginNames
<1>1. CASE name = Sha2 /\ challenge = PerformFullAuth /\ "SSL" \in caps
  <2>1. r = [error |-> "none", response |-> Plaintext(password)]
    BY <1>r, <1>1 DEF compute_response
  <2>2. r.error = "none" /\ r.response \in Auths
    BY <2>1 DEF Plaintext, Auths
  <2> QED BY <1>1, <2>2 DEF Errors
<1>2. CASE name = Sha2 /\ challenge = PerformFullAuth /\ "SSL" \notin caps
  <2>1. r = [error |-> "auth_plugin_requires_ssl", response |-> response]
    BY <1>r, <1>2 DEF compute_response
  <2>2. r.error = "auth_plugin_requires_ssl" /\ r.response = response
    BY <2>1
  <2> QED BY <1>t, <2>2 DEF Errors
<1>3. CASE ~(name = Sha2 /\ challenge = PerformFullAuth) /\ challenge \in Nonces
  <2>1. r = [error |-> "none", response |-> Scramble(name, challenge, password)]
    BY <1>r, <1>3 DEF compute_response
  <2>2. challenge \in Challenges
    BY <1>3 DEF Challenges
  <2>3. r.error = "none" /\ r.response \in Auths /\ r.response.kind = "scramble"
    BY <1>t, <2>1, <2>2, AuthTypes
  <2> QED BY <2>3 DEF Errors
<1>4. CASE ~(name = Sha2 /\ challenge = PerformFullAuth) /\ challenge \notin Nonces
  <2>1. r = [error |-> "protocol_value_error", response |-> response]
    BY <1>r, <1>4 DEF compute_response
  <2>2. r.error = "protocol_value_error" /\ r.response = response
    BY <2>1
  <2> QED BY <1>t, <2>2 DEF Errors
<1> QED BY <1>1, <1>2, <1>3, <1>4

\* So does calculate, whatever plug-in the peer names.
LEMMA Calculated ==
  ASSUME TypeOK, NEW name, NEW challenge \in Challenges \cup {""}, NEW caps
  PROVE  /\ calculate(name, challenge, caps).error \in Errors
         /\ calculate(name, challenge, caps).response \in Auths
         /\ calculate(name, challenge, caps).response.kind = "plaintext" =>
              "SSL" \in caps \/ calculate(name, challenge, caps).response = response
<1>r. PICK r : r = calculate(name, challenge, caps)
  OBVIOUS
<1> SUFFICES /\ r.error \in Errors /\ r.response \in Auths
             /\ r.response.kind = "plaintext" => "SSL" \in caps \/ r.response = response
  BY <1>r
<1>t. response \in Auths /\ params.password \in Passwords \cup {""}
  BY DEF TypeOK
<1>1. CASE name \notin all_authentication_plugins
  <2>1. r = [error |-> "unknown_auth_plugin", response |-> response]
    BY <1>r, <1>1 DEF calculate
  <2>2. r.error = "unknown_auth_plugin" /\ r.response = response
    BY <2>1
  <2> QED BY <1>t, <2>2 DEF Errors
<1>2. CASE name \in all_authentication_plugins /\ params.password = ""
  <2>1. r = [error |-> "none", response |-> EmptyAuth]
    BY <1>r, <1>2 DEF calculate
  <2>2. r.error = "none" /\ r.response \in Auths /\ r.response.kind = "empty"
    BY <2>1 DEF EmptyAuth, Auths
  <2> QED BY <2>2 DEF Errors
<1>3. CASE name \in all_authentication_plugins /\ params.password # ""
  <2>1. r = compute_response(name, params.password, challenge, caps)
    BY <1>r, <1>3 DEF calculate
  <2> QED BY <1>3, <1>t, <2>1, Computed
<1> QED BY <1>1, <1>2, <1>3

\* Receiving a message takes a message of the peer off a well-typed queue.
LEMMA ReceiveTypes ==
  ASSUME TypeOK, NEW type, Receive(type)
  PROVE  /\ toClient' \in Seq(PeerMessages)
         /\ Head(toClient) \in PeerMessages
         /\ params' = params /\ wire' = wire /\ peerSent' = peerSent
BY QueueTypes DEF TypeOK, Receive

\* A rejection ends the handshake with well-typed state.
LEMMA RejectTypes ==
  ASSUME TypeOK, NEW e \in Errors, Reject(e), negotiated_caps' \in SUBSET Capabilities
  PROVE  /\ pc' = "done" /\ error' \in Errors
         /\ ssl_active' = ssl_active
         /\ current_caps' \in SUBSET Capabilities
BY DEF TypeOK, Reject, Errors

\* Everything the client writes is a well-typed message that holds the
\* response it was given.
LEMMA ClientMessageTypes ==
  ASSUME TypeOK, NEW type \in {"ssl_request", "response", "auth_data"},
         NEW name \in PluginNames \cup {"", "none"}, NEW auth \in Auths
  PROVE  /\ ClientMessage(type, name, auth) \in ClientMessages
         /\ ClientMessage(type, name, auth).type = type
         /\ ClientMessage(type, name, auth).auth = auth
         /\ ClientMessage(type, name, auth).secure = ssl_active
<1>1. negotiated_caps \in SUBSET Capabilities /\ ssl_active \in BOOLEAN
  BY DEF TypeOK
<1>2. (params.database /\ type = "response" /\ "CONNECT_WITH_DB" \in negotiated_caps) \in BOOLEAN
  OBVIOUS
<1> QED BY <1>1, <1>2 DEF ClientMessage, ClientMessages

\* The same of each message that the client writes.
Writable(m, type, auth) ==
  m \in ClientMessages /\ m.type = type /\ m.auth = auth /\ m.secure = ssl_active

LEMMA SslRequestType ==
  ASSUME TypeOK
  PROVE  Writable(ClientMessage("ssl_request", "", NoAuth), "ssl_request", NoAuth)
<1>1. negotiated_caps \in SUBSET Capabilities /\ ssl_active \in BOOLEAN
  BY DEF TypeOK
<1>2. NoAuth \in Auths
  BY DEF NoAuth, Auths
<1> QED BY <1>1, <1>2 DEF Writable, ClientMessage, ClientMessages

LEMMA ResponseType ==
  ASSUME TypeOK
  PROVE  Writable(ClientMessage("response", plugin, response), "response", response)
<1>1. negotiated_caps \in SUBSET Capabilities /\ ssl_active \in BOOLEAN
  BY DEF TypeOK
<1>2. response \in Auths /\ plugin \in PluginNames \cup {"", "none"}
  BY DEF TypeOK, PluginNames
<1>3. (params.database /\ "CONNECT_WITH_DB" \in negotiated_caps) \in BOOLEAN
  OBVIOUS
<1> QED BY <1>1, <1>2, <1>3 DEF Writable, ClientMessage, ClientMessages

LEMMA AuthDataType ==
  ASSUME TypeOK
  PROVE  Writable(ClientMessage("auth_data", "", response), "auth_data", response)
<1>1. negotiated_caps \in SUBSET Capabilities /\ ssl_active \in BOOLEAN
  BY DEF TypeOK
<1>2. response \in Auths
  BY DEF TypeOK
<1> QED BY <1>1, <1>2 DEF Writable, ClientMessage, ClientMessages

-----------------------------------------------------------------------------
(* Types *)

\* The steps that pick a plug-in and compute a response for it.
LEMMA RecalculateTypes ==
  ASSUME TypeOK, NEW name, Recalculate(name), Head(toClient) \in PeerMessages
  PROVE  /\ plugin' \in all_authentication_plugins \cup {"none"}
         /\ response' \in Auths
         /\ response'.kind = "plaintext" => use_ssl \/ response' = response
         /\ negotiated_caps' = negotiated_caps
         /\ pc' \in {"done", "write_auth"} /\ error' \in Errors
         /\ ssl_active' = ssl_active /\ current_caps' \in SUBSET Capabilities
<1>1. PICK r : r = calculate(name, Head(toClient).challenge, negotiated_caps)
  OBVIOUS
<1>2. Head(toClient).challenge \in Challenges \cup {""}
  BY PeerMessageFields
<1>3. /\ r.error \in Errors /\ r.response \in Auths
      /\ r.response.kind = "plaintext" => "SSL" \in negotiated_caps \/ r.response = response
  BY <1>1, <1>2, Calculated
<1>4. response' = r.response /\ negotiated_caps' = negotiated_caps
  BY <1>1 DEF Recalculate
<1>5. \/ Reject(r.error)
      \/ pc' = "write_auth" /\ UNCHANGED <<error, channelVars>>
  BY <1>1 DEF Recalculate
<1>6. negotiated_caps \in SUBSET Capabilities /\ error \in Errors
      /\ current_caps \in SUBSET Capabilities
  BY DEF TypeOK, Errors
<1>7. plugin' \in all_authentication_plugins \cup {"none"}
  BY DEF Recalculate
<1>8. /\ pc' \in {"done", "write_auth"} /\ error' \in Errors
      /\ ssl_active' = ssl_active /\ current_caps' \in SUBSET Capabilities
  <2>1. CASE Reject(r.error)
    BY <2>1, <1>3, <1>4, <1>6, RejectTypes
  <2>2. CASE pc' = "write_auth" /\ UNCHANGED <<error, channelVars>>
    BY <2>2, <1>6 DEF channelVars
  <2> QED BY <1>5, <2>1, <2>2
<1> QED BY <1>3, <1>4, <1>7, <1>8 DEF use_ssl

\* ProcessGreeting negotiates and computes a first response, or rejects.
LEMMA GreetingTypes ==
  ASSUME TypeOK, ProcessGreeting
  PROVE  /\ pc = "read_greeting"
         /\ negotiated_caps' \in SUBSET Capabilities
         /\ params.ssl = "require" => "SSL" \in negotiated_caps'
         /\ plugin' \in all_authentication_plugins \cup {"none"}
         /\ response' \in Auths
         /\ response'.kind = "plaintext" => "SSL" \in negotiated_caps' \/ response' = response
         /\ error' \in Errors /\ ssl_active' = ssl_active
         /\ current_caps' \in SUBSET Capabilities
         /\ pc' \in {"done", "write_ssl_request", "write_response"}
         /\ pc' = "write_response" => "SSL" \notin negotiated_caps'
<1> DEFINE g == Head(toClient)
<1>1. PICK caps : caps = negotiate(g.caps)
  OBVIOUS
<1>2. PICK r : r = calculate(g.plugin, g.challenge, caps)
  OBVIOUS
<1>3. g \in PeerMessages
  BY ReceiveTypes DEF ProcessGreeting
<1>4. g.challenge \in Challenges \cup {""}
  BY <1>3, PeerMessageFields
<1>5. /\ r.error \in Errors /\ r.response \in Auths
      /\ r.response.kind = "plaintext" => "SSL" \in caps \/ r.response = response
  BY <1>2, <1>4, Calculated
<1>6. caps \in SUBSET Capabilities
  BY <1>1, NegotiatedCaps
<1>7. pc = "read_greeting" /\ required_caps \subseteq g.caps
  BY DEF ProcessGreeting
<1>8. params.ssl = "require" => "SSL" \in caps
  BY <1>1, <1>7, RequiredMeansSsl
<1>9. response' = r.response /\ negotiated_caps' = caps
      /\ plugin' \in all_authentication_plugins \cup {"none"}
  BY <1>1, <1>2 DEF ProcessGreeting
<1>10. \/ Reject(r.error)
       \/ /\ pc' = IF "SSL" \in caps THEN "write_ssl_request" ELSE "write_response"
          /\ UNCHANGED <<error, channelVars>>
  BY <1>1, <1>2 DEF ProcessGreeting
<1>11. error \in Errors /\ current_caps \in SUBSET Capabilities
  BY DEF TypeOK, Errors
<1>12. CASE Reject(r.error)
  <2>1. /\ pc' = "done" /\ error' \in Errors /\ ssl_active' = ssl_active
        /\ current_caps' \in SUBSET Capabilities
    BY <1>12, <1>5, <1>6, <1>9, RejectTypes
  <2> QED BY <2>1, <1>5, <1>6, <1>7, <1>8, <1>9
<1>13. CASE /\ pc' = IF "SSL" \in caps THEN "write_ssl_request" ELSE "write_response"
            /\ UNCHANGED <<error, channelVars>>
  <2>1. /\ pc' \in {"done", "write_ssl_request", "write_response"}
        /\ pc' = "write_response" => "SSL" \notin caps
    BY <1>13
  <2>2. error' = error /\ ssl_active' = ssl_active /\ current_caps' = current_caps
    BY <1>13 DEF channelVars
  <2> QED BY <2>1, <2>2, <1>5, <1>6, <1>7, <1>8, <1>9, <1>11
<1> QED BY <1>10, <1>12, <1>13

\* A step keeps the types.
LEMMA TypeStep ==
  ASSUME TypeOK, [Next]_vars
  PROVE  TypeOK'
<1> USE DEF Errors
<1>1. CASE RejectGreeting
  <2>1. UNCHANGED processorVars
    BY <1>1 DEF RejectGreeting
  <2>2. negotiated_caps' \in SUBSET Capabilities
    BY <2>1 DEF processorVars, TypeOK
  <2>3. ASSUME NEW type, NEW e \in Errors, Receive(type), Reject(e) PROVE TypeOK'
    BY <2>1, <2>2, <2>3, ReceiveTypes, RejectTypes DEF TypeOK, processorVars
  <2> QED BY <1>1, <2>3 DEF RejectGreeting
<1>2. CASE RejectCapabilities
  <2>1. Receive("greeting") /\ Reject("server_unsupported") /\ UNCHANGED processorVars
    BY <1>2 DEF RejectCapabilities
  <2>2. negotiated_caps' \in SUBSET Capabilities
    BY <2>1 DEF processorVars, TypeOK
  <2> QED BY <2>1, <2>2, ReceiveTypes, RejectTypes DEF TypeOK, processorVars
<1>3. CASE ProcessGreeting
  <2>1. Receive("greeting")
    BY <1>3 DEF ProcessGreeting
  <2> QED BY <2>1, <1>3, GreetingTypes, ReceiveTypes DEF TypeOK
<1>4. CASE WriteSslRequest
  <2>2. ClientMessage("ssl_request", "", NoAuth) \in ClientMessages
    BY SslRequestType DEF Writable
  <2>3. wire' \in Seq(ClientMessages)
    <3>1. wire \in Seq(ClientMessages) /\ wire' = Append(wire, ClientMessage("ssl_request", "", NoAuth))
      BY <1>4 DEF WriteSslRequest, Send, TypeOK
    <3> QED BY <3>1, <2>2, LogTypes
  <2> QED BY <1>4, <2>3 DEF WriteSslRequest, TypeOK, processorVars, channelVars
<1>5. ASSUME NEW ok \in BOOLEAN, SslHandshake(ok) PROVE TypeOK'
  <2>1. /\ pc' \in {"write_response", "done"} /\ error' \in Errors /\ ssl_active' \in BOOLEAN
    BY <1>5 DEF SslHandshake, TypeOK
  <2> QED BY <1>5, <2>1 DEF SslHandshake, TypeOK, processorVars
<1>6. CASE WriteResponse
  <2>2. wire' = Append(wire, ClientMessage("response", plugin, response))
    BY <1>6 DEF WriteResponse, Send
  <2>3. ClientMessage("response", plugin, response) \in ClientMessages
    BY ResponseType DEF Writable
  <2>4. wire \in Seq(ClientMessages)
    BY DEF TypeOK
  <2>5. wire' \in Seq(ClientMessages)
    BY <2>2, <2>3, <2>4, LogTypes
  <2> QED BY <1>6, <2>5 DEF WriteResponse, TypeOK, processorVars, channelVars
<1>7. CASE Complete
  <2>1. Receive("ok")
    BY <1>7 DEF Complete
  <2> QED BY <1>7, <2>1, ReceiveTypes DEF Complete, TypeOK, processorVars
<1>8. CASE RejectResponse
  <2>1. UNCHANGED processorVars
    BY <1>8 DEF RejectResponse
  <2>2. negotiated_caps' \in SUBSET Capabilities
    BY <2>1 DEF processorVars, TypeOK
  <2>3. ASSUME NEW type, NEW e \in Errors, Receive(type), Reject(e) PROVE TypeOK'
    BY <2>1, <2>2, <2>3, ReceiveTypes, RejectTypes DEF TypeOK, processorVars
  <2> QED BY <1>8, <2>3 DEF RejectResponse
<1>9. CASE WaitForOk
  <2>1. Receive("auth_more_data")
    BY <1>9 DEF WaitForOk
  <2> QED BY <1>9, <2>1, ReceiveTypes DEF WaitForOk, TypeOK, processorVars, channelVars
<1>10. CASE SwitchAuth
  <2>1. Receive("auth_switch") /\ Recalculate(Head(toClient).plugin)
    BY <1>10 DEF SwitchAuth
  <2> QED BY <2>1, ReceiveTypes, RecalculateTypes DEF TypeOK
<1>11. CASE ContinueAuth
  <2>1. Receive("auth_more_data") /\ Recalculate(plugin)
    BY <1>11 DEF ContinueAuth
  <2> QED BY <2>1, ReceiveTypes, RecalculateTypes DEF TypeOK
<1>12. CASE WriteAuth
  <2>1. ClientMessage("auth_data", "", response) \in ClientMessages
    BY AuthDataType DEF Writable
  <2>2. wire' \in Seq(ClientMessages)
    <3>1. wire \in Seq(ClientMessages) /\ wire' = Append(wire, ClientMessage("auth_data", "", response))
      BY <1>12 DEF WriteAuth, Send, TypeOK
    <3> QED BY <3>1, <2>1, LogTypes
  <2> QED BY <1>12, <2>2 DEF WriteAuth, TypeOK, processorVars, channelVars
<1>13. CASE TransferError
  BY <1>13 DEF TransferError, TypeOK, processorVars, channelVars
<1>14. CASE Peer
  <2>1. PICK m \in PeerMessages : toClient' = Append(toClient, m)
    BY <1>14 DEF Peer
  <2>2. toClient \in Seq(PeerMessages) /\ peerSent \in Nat
    BY DEF TypeOK
  <2>3. toClient' \in Seq(PeerMessages)
    BY <2>1, <2>2, LogTypes
  <2>4. peerSent' \in Nat
    BY <1>14, <2>2 DEF Peer
  <2> QED BY <1>14, <2>3, <2>4 DEF Peer, TypeOK, processorVars, channelVars
<1>15. CASE UNCHANGED vars
  BY <1>15 DEF vars, TypeOK, processorVars, channelVars
<1> QED BY <1>1, <1>2, <1>3, <1>4, <1>5, <1>6, <1>7, <1>8, <1>9, <1>10, <1>11, <1>12, <1>13,
           <1>14, <1>15 DEF Next, Processing, Writing

\* The handshake starts well-typed.
LEMMA TypeInit ==
  ASSUME Init
  PROVE  TypeOK
<1>1. NoAuth \in Auths
  BY DEF NoAuth, Auths
<1>2. {} \in SUBSET Capabilities
  OBVIOUS
<1>3. <<>> \in Seq(PeerMessages) /\ <<>> \in Seq(ClientMessages)
  OBVIOUS
<1> QED BY <1>1, <1>2, <1>3 DEF Init, TypeOK

\* The state of a handshake is always well-typed: what the peer sends never
\* leads handshake_processor into an undefined state.
THEOREM TypeCorrect == Spec => []TypeOK
<1>1. Init => TypeOK
  BY TypeInit
<1>2. TypeOK /\ [Next]_vars => TypeOK'
  BY TypeStep
<1> QED BY <1>1, <1>2, PTL DEF Spec

-----------------------------------------------------------------------------
(* What goes out in clear *)

\* A step that writes nothing keeps what was written as it was.
LEMMA QuietStep ==
  ASSUME NoPlaintextPassword, RequireHonoured, wire' = wire, params' = params
  PROVE  NoPlaintextPassword' /\ RequireHonoured'
BY DEF NoPlaintextPassword, RequireHonoured

\* A step that writes one message keeps both properties if the message does.
LEMMA WritingStep ==
  ASSUME TypeOK, NoPlaintextPassword, RequireHonoured, params' = params,
         NEW m \in ClientMessages, wire' = Append(wire, m),
         m.auth.kind = "plaintext" => m.secure,
         params.ssl = "require" /\ m.type # "ssl_request" => m.secure
  PROVE  NoPlaintextPassword' /\ RequireHonoured'
<1>1. /\ Len(wire') = Len(wire) + 1 /\ Len(wire) \in Nat
      /\ \A i \in 1..Len(wire) : wire'[i] = wire[i]
      /\ wire'[Len(wire) + 1] = m
  <2>1. wire \in Seq(ClientMessages)
    BY DEF TypeOK
  <2>2. Len(wire) \in Nat
    BY <2>1, LenProperties
  <2> QED BY <2>1, <2>2, LogTypes
<1>2. \A i \in 1..Len(wire') : i \in 1..Len(wire) \/ i = Len(wire) + 1
  BY <1>1
<1>3. NoPlaintextPassword'
  <2> SUFFICES ASSUME NEW i \in 1..Len(wire'), wire'[i].auth.kind = "plaintext"
               PROVE  wire'[i].secure
    BY DEF NoPlaintextPassword
  <2>1. CASE i \in 1..Len(wire)
    BY <1>1, <2>1 DEF NoPlaintextPassword
  <2>2. CASE i = Len(wire) + 1
    BY <1>1, <2>2
  <2> QED BY <1>2, <2>1, <2>2
<1>4. RequireHonoured'
  <2> SUFFICES ASSUME params.ssl = "require", NEW i \in 1..Len(wire'), wire'[i].type # "ssl_request"
               PROVE  wire'[i].secure
    BY DEF RequireHonoured
  <2>1. CASE i \in 1..Len(wire)
    BY <1>1, <2>1 DEF RequireHonoured
  <2>2. CASE i = Len(wire) + 1
    BY <1>1, <2>2
  <2> QED BY <1>2, <2>1, <2>2
<1> QED BY <1>3, <1>4

\* A step that ends the handshake needs to keep the response honest only.
LEMMA EndingStep ==
  ASSUME Discretion, wire' = wire, params' = params, pc' = "done", TypeOK',
         response'.kind = "plaintext" => "SSL" \in negotiated_caps'
  PROVE  Discretion'
BY QuietStep DEF Discretion, NothingBeforeGreeting, PlaintextNeedsSsl, SslBeforeCredentials,
                 RequireNegotiated, use_ssl

\* Picking another plug-in and computing a response for it.
LEMMA RecalculateStep ==
  ASSUME Discretion, TypeOK', NEW type, Receive(type), NEW name, Recalculate(name),
         pc = "read_response"
  PROVE  Discretion'
<1>1. TypeOK /\ PlaintextNeedsSsl
  BY DEF Discretion
<1>2. params' = params /\ wire' = wire /\ Head(toClient) \in PeerMessages
  BY <1>1, ReceiveTypes
<1>3. /\ negotiated_caps' = negotiated_caps /\ pc' \in {"done", "write_auth"}
      /\ ssl_active' = ssl_active
      /\ response'.kind = "plaintext" => use_ssl \/ response' = response
  BY <1>1, <1>2, RecalculateTypes
<1>4. response'.kind = "plaintext" => "SSL" \in negotiated_caps'
  BY <1>1, <1>3 DEF PlaintextNeedsSsl, use_ssl
<1>5. CASE pc' = "done"
  BY <1>2, <1>4, <1>5, EndingStep
<1>6. CASE pc' = "write_auth"
  <2>1. (use_ssl' => ssl_active') /\ (params'.ssl = "require" => use_ssl')
    BY <1>2, <1>3 DEF Discretion, SslBeforeCredentials, RequireNegotiated, use_ssl
  <2> QED BY <1>2, <1>4, <1>6, <2>1, QuietStep
          DEF Discretion, NothingBeforeGreeting, PlaintextNeedsSsl, SslBeforeCredentials,
              RequireNegotiated, use_ssl
<1> QED BY <1>3, <1>5, <1>6

\* Discretion is inductive.
LEMMA DiscretionStep ==
  ASSUME Discretion, [Next]_vars
  PROVE  Discretion'
<1> USE DEF Discretion
<1>t. TypeOK /\ TypeOK'
  BY TypeStep
<1>1. CASE RejectGreeting
  <2>1. UNCHANGED processorVars
    BY <1>1 DEF RejectGreeting
  <2>2. ASSUME NEW type, NEW e, Receive(type), Reject(e) PROVE Discretion'
    BY <1>t, <2>1, <2>2, EndingStep
       DEF Receive, Reject, processorVars, PlaintextNeedsSsl, use_ssl
  <2> QED BY <1>1, <2>2 DEF RejectGreeting
<1>2. CASE RejectCapabilities
  BY <1>2, <1>t, EndingStep
     DEF RejectCapabilities, Receive, Reject, processorVars, PlaintextNeedsSsl, use_ssl
<1>3. CASE ProcessGreeting
  <2>1. params' = params /\ wire' = wire
    BY <1>3 DEF ProcessGreeting, Receive
  <2>2. response'.kind = "plaintext" => "SSL" \in negotiated_caps'
    BY <1>3, GreetingTypes DEF NothingBeforeGreeting
  <2>3. CASE pc' = "done"
    BY <1>t, <2>1, <2>2, <2>3, EndingStep
  <2>4. CASE pc' \in {"write_ssl_request", "write_response"}
    <3>1. /\ pc' = "write_response" => "SSL" \notin negotiated_caps'
          /\ params.ssl = "require" => "SSL" \in negotiated_caps'
      BY <1>3, GreetingTypes
    <3> QED BY <1>t, <2>1, <2>2, <2>4, <3>1, QuietStep
            DEF NothingBeforeGreeting, PlaintextNeedsSsl, SslBeforeCredentials,
                RequireNegotiated, use_ssl
  <2> QED BY <1>3, <2>3, <2>4, GreetingTypes
<1>4. CASE Complete
  BY <1>4, <1>t, EndingStep DEF Complete, Receive, processorVars, PlaintextNeedsSsl, use_ssl
<1>5. CASE RejectResponse
  <2>1. UNCHANGED processorVars
    BY <1>5 DEF RejectResponse
  <2>2. ASSUME NEW type, NEW e, Receive(type), Reject(e) PROVE Discretion'
    BY <1>t, <2>1, <2>2, EndingStep
       DEF Receive, Reject, processorVars, PlaintextNeedsSsl, use_ssl
  <2> QED BY <1>5, <2>2 DEF RejectResponse
<1>6. CASE WaitForOk
  BY <1>6, <1>t, QuietStep
     DEF WaitForOk, Receive, processorVars, channelVars, NothingBeforeGreeting,
         PlaintextNeedsSsl, SslBeforeCredentials, RequireNegotiated, use_ssl
<1>7. CASE SwitchAuth
  BY <1>7, <1>t, RecalculateStep DEF SwitchAuth
<1>8. CASE ContinueAuth
  BY <1>8, <1>t, RecalculateStep DEF ContinueAuth
<1>9. CASE WriteSslRequest
  <2>1. PICK m : m = ClientMessage("ssl_request", "", NoAuth)
    OBVIOUS
  <2>2. m \in ClientMessages /\ m.type = "ssl_request" /\ m.auth.kind = "none"
    <3>1. NoAuth.kind = "none"
      BY DEF NoAuth
    <3>2. Writable(m, "ssl_request", NoAuth)
      BY ONLY <1>t, <2>1, SslRequestType, Zenon
    <3> QED BY <3>1, <3>2 DEF Writable
  <2>3. params' = params /\ wire' = Append(wire, m)
    BY <1>9, <2>1 DEF WriteSslRequest, Send
  <2>4. NoPlaintextPassword' /\ RequireHonoured'
    BY <2>2, <2>3, WritingStep
  <2> QED BY <1>9, <1>t, <2>4
          DEF WriteSslRequest, processorVars, channelVars, NothingBeforeGreeting,
              PlaintextNeedsSsl, SslBeforeCredentials, RequireNegotiated, use_ssl
<1>10. ASSUME NEW type \in {"response", "auth_data"}, NEW name \in PluginNames \cup {"", "none"},
              pc \in {"write_response", "write_auth"}, pc' = "read_response",
              Send(ClientMessage(type, name, response)),
              UNCHANGED <<params, processorVars, channelVars>>
       PROVE  Discretion'
  <2>1. PICK m : m = ClientMessage(type, name, response)
    OBVIOUS
  <2>2. m \in ClientMessages /\ m.auth = response /\ m.secure = ssl_active
    <3>1. response \in Auths
      BY DEF TypeOK
    <3>2. ClientMessage(type, name, response) \in ClientMessages
      BY <1>t, <1>10, <3>1, ClientMessageTypes
    <3>3. m.auth = response /\ m.secure = ssl_active
      BY <2>1 DEF ClientMessage
    <3> QED BY <2>1, <3>2, <3>3
  <2>3. params' = params /\ wire' = Append(wire, m)
    BY <1>10, <2>1 DEF Send
  <2>4. use_ssl => ssl_active
    BY <1>10 DEF SslBeforeCredentials
  <2>5. /\ m.auth.kind = "plaintext" => m.secure
        /\ params.ssl = "require" => m.secure
    BY <1>10, <2>2, <2>4 DEF PlaintextNeedsSsl, RequireNegotiated
  <2>6. NoPlaintextPassword' /\ RequireHonoured'
    BY <2>2, <2>3, <2>5, WritingStep
  <2> QED BY <1>10, <1>t, <2>6
          DEF processorVars, channelVars, NothingBeforeGreeting, PlaintextNeedsSsl,
              SslBeforeCredentials, RequireNegotiated, use_ssl
<1>11. CASE WriteResponse
  <2>1. plugin \in PluginNames \cup {"", "none"}
    BY DEF TypeOK, PluginNames
  <2> QED BY <1>10, <1>11, <2>1 DEF WriteResponse
<1>12. CASE WriteAuth
  BY <1>10, <1>12 DEF WriteAuth
<1>13. CASE \E ok \in BOOLEAN : SslHandshake(ok)
  BY <1>13, <1>t, QuietStep
     DEF SslHandshake, processorVars, NothingBeforeGreeting, PlaintextNeedsSsl,
         SslBeforeCredentials, RequireNegotiated, use_ssl
<1>14. CASE TransferError
  BY <1>14, <1>t, EndingStep DEF TransferError, processorVars, PlaintextNeedsSsl, use_ssl
<1>15. CASE Peer
  BY <1>15, <1>t, QuietStep
     DEF Peer, processorVars, channelVars, NothingBeforeGreeting, PlaintextNeedsSsl,
         SslBeforeCredentials, RequireNegotiated, use_ssl
<1>16. CASE UNCHANGED vars
  BY <1>16, <1>t, QuietStep
     DEF vars, processorVars, channelVars, NothingBeforeGreeting, PlaintextNeedsSsl,
         SslBeforeCredentials, RequireNegotiated, use_ssl
<1> QED BY <1>1, <1>2, <1>3, <1>4, <1>5, <1>6, <1>7, <1>8, <1>9, <1>11, <1>12, <1>13, <1>14,
           <1>15, <1>16 DEF Next, Processing, Writing

\* Discretion holds throughout.
LEMMA AlwaysDiscreet == Spec => []Discretion
<1>1. Init => Discretion
  <2> SUFFICES ASSUME Init PROVE Discretion
    OBVIOUS
  <2>1. TypeOK
    BY TypeInit
  <2>2. wire = <<>> /\ pc = "read_greeting" /\ response.kind = "none"
    BY DEF Init, NoAuth
  <2> QED BY <2>1, <2>2
          DEF Discretion, NothingBeforeGreeting, PlaintextNeedsSsl, SslBeforeCredentials,
              RequireNegotiated, NoPlaintextPassword, RequireHonoured
<1>2. Discretion /\ [Next]_vars => Discretion'
  BY DiscretionStep
<1> QED BY <1>1, <1>2, PTL DEF Spec

\* No peer, whatever it sends and in whatever order, gets the password itself
\* out of auth_calculator over a stream that is not encrypted.
THEOREM PasswordStaysSecret == Spec => []NoPlaintextPassword
<1>1. Discretion => NoPlaintextPassword
  BY DEF Discretion
<1> QED BY <1>1, AlwaysDiscreet, PTL

\* ssl_mode::require: no peer talks handshake_processor out of TLS; only the
\* request to set it up is ever written in clear.
THEOREM RequireIsHonoured == Spec => []RequireHonoured
<1>1. Discretion => RequireHonoured
  BY DEF Discretion
<1> QED BY <1>1, AlwaysDiscreet, PTL
-----------------------------------------------------------------------------
(* What success means *)

\* Negotiation got everything the connection needs.
NegotiatedEnough ==
  /\ mandatory_capabilities \subseteq negotiated_caps
  /\ params.database => "CONNECT_WITH_DB" \in negotiated_caps
  /\ params.ssl = "require" => use_ssl

ResponseSent == \E i \in 1..Len(wire) : wire[i].type = "response"

\* The invariant behind EstablishedIsUsable: what it promises, as it comes true
\* step by step.
Progress ==
  /\ pc \notin {"read_greeting", "done"} => NegotiatedEnough
  /\ pc \in {"write_ssl_request", "ssl_handshake"} => use_ssl
  /\ pc \in {"read_greeting", "write_ssl_request", "ssl_handshake"} => ~ssl_active
  /\ pc \in {"write_response", "read_response", "write_auth"} => (ssl_active <=> use_ssl)
  /\ pc \in {"read_response", "write_auth"} => ResponseSent
  /\ EstablishedIsUsable

\* A greeting that is not rejected announces all that is required.
LEMMA GreetingNegotiates ==
  ASSUME ProcessGreeting
  PROVE  /\ mandatory_capabilities \subseteq negotiated_caps'
         /\ params.database => "CONNECT_WITH_DB" \in negotiated_caps'
         /\ params.ssl = "require" => "SSL" \in negotiated_caps'
         /\ \/ pc' = "done" /\ error' # "none"
            \/ /\ pc' = IF "SSL" \in negotiated_caps' THEN "write_ssl_request" ELSE "write_response"
               /\ ssl_active' = ssl_active
<1> DEFINE caps == Head(toClient).caps
<1>1. required_caps \subseteq caps /\ negotiated_caps' = negotiate(caps)
  BY DEF ProcessGreeting
<1>2. required_caps \subseteq negotiated_caps'
  BY <1>1 DEF negotiate
<1>3. /\ mandatory_capabilities \subseteq required_caps
      /\ params.database => "CONNECT_WITH_DB" \in required_caps
      /\ params.ssl = "require" => "SSL" \in required_caps
  BY DEF required_caps, conditional_capability
<1>4. PICK r : r = calculate(Head(toClient).plugin, Head(toClient).challenge, negotiate(caps))
  OBVIOUS
<1>5. \/ r.error # "none" /\ Reject(r.error)
      \/ /\ pc' = IF "SSL" \in negotiate(caps) THEN "write_ssl_request" ELSE "write_response"
         /\ UNCHANGED <<error, channelVars>>
  BY <1>4 DEF ProcessGreeting
<1>6. \/ pc' = "done" /\ error' # "none"
      \/ /\ pc' = IF "SSL" \in negotiated_caps' THEN "write_ssl_request" ELSE "write_response"
         /\ ssl_active' = ssl_active
  <2>1. ASSUME r.error # "none", Reject(r.error) PROVE pc' = "done" /\ error' # "none"
    BY <2>1 DEF Reject
  <2> QED BY <1>1, <1>5, <2>1 DEF channelVars
<1> QED BY <1>2, <1>3, <1>6

\* Another plug-in, another response: nothing else changes, unless it fails.
LEMMA RecalculateProgresses ==
  ASSUME NEW name, Recalculate(name)
  PROVE  /\ negotiated_caps' = negotiated_caps
         /\ \/ pc' = "done" /\ error' # "none"
            \/ pc' = "write_auth" /\ ssl_active' = ssl_active
<1>1. PICK r : r = calculate(name, Head(toClient).challenge, negotiated_caps)
  OBVIOUS
<1>2. negotiated_caps' = negotiated_caps
  BY DEF Recalculate
<1>3. \/ r.error # "none" /\ Reject(r.error)
      \/ pc' = "write_auth" /\ UNCHANGED <<error, channelVars>>
  BY <1>1 DEF Recalculate
<1> QED BY <1>2, <1>3 DEF Reject, channelVars

\* A failed handshake promises nothing.
LEMMA FailureIsNoSuccess ==
  ASSUME pc' = "done", error' # "none"
  PROVE  Progress'
BY DEF Progress, EstablishedIsUsable

\* What has been written stays written.
LEMMA WrittenStays ==
  ASSUME TypeOK, NEW m \in ClientMessages, wire' = Append(wire, m), ResponseSent \/ m.type = "response"
  PROVE  ResponseSent'
<1>1. /\ Len(wire) \in Nat /\ Len(wire') = Len(wire) + 1 /\ wire'[Len(wire) + 1] = m
      /\ \A i \in 1..Len(wire) : wire'[i] = wire[i]
  <2>1. wire \in Seq(ClientMessages)
    BY DEF TypeOK
  <2>2. Len(wire) \in Nat
    BY <2>1, LenProperties
  <2> QED BY <2>1, <2>2, LogTypes
<1>2. CASE m.type = "response"
  <2>1. Len(wire) + 1 \in 1..Len(wire') /\ wire'[Len(wire) + 1].type = "response"
    BY <1>1, <1>2
  <2> QED BY <2>1 DEF ResponseSent
<1>3. CASE ResponseSent
  <2>1. PICK i \in 1..Len(wire) : wire[i].type = "response"
    BY <1>3 DEF ResponseSent
  <2>2. i \in 1..Len(wire') /\ wire'[i].type = "response"
    BY <1>1, <2>1
  <2> QED BY <2>2 DEF ResponseSent
<1> QED BY <1>2, <1>3

\* Progress is inductive.
LEMMA ProgressStep ==
  ASSUME TypeOK, Progress, [Next]_vars
  PROVE  Progress'
<1> USE DEF NegotiatedEnough, use_ssl
<1>1. CASE RejectGreeting
  BY <1>1, FailureIsNoSuccess DEF RejectGreeting, Reject
<1>2. CASE RejectCapabilities
  BY <1>2, FailureIsNoSuccess DEF RejectCapabilities, Reject
<1>3. CASE ProcessGreeting
  <2>1. params' = params /\ pc = "read_greeting"
    BY <1>3 DEF ProcessGreeting, Receive
  <2> QED BY <1>3, <2>1, GreetingNegotiates, FailureIsNoSuccess DEF Progress, EstablishedIsUsable
<1>4. CASE WriteSslRequest
  BY <1>4 DEF WriteSslRequest, processorVars, channelVars, Progress, EstablishedIsUsable
<1>5. ASSUME NEW ok \in BOOLEAN, SslHandshake(ok) PROVE Progress'
  BY <1>5, FailureIsNoSuccess DEF SslHandshake, processorVars, Progress, EstablishedIsUsable
<1>6. CASE WriteResponse
  <2>1. PICK m : m = ClientMessage("response", plugin, response)
    OBVIOUS
  <2>2. m \in ClientMessages /\ m.type = "response"
    <3>1. Writable(m, "response", response)
      BY <2>1, ResponseType
    <3> QED BY <3>1 DEF Writable
  <2>3. wire' = Append(wire, m)
    BY <1>6, <2>1 DEF WriteResponse, Send
  <2>4. ResponseSent'
    BY <2>2, <2>3, WrittenStays
  <2> QED BY <1>6, <2>4 DEF WriteResponse, processorVars, channelVars, Progress, EstablishedIsUsable
<1>7. CASE Complete
  <2>1. /\ pc' = "done" /\ params' = params /\ wire' = wire /\ ssl_active' = ssl_active
        /\ current_caps' = negotiated_caps /\ negotiated_caps' = negotiated_caps
    BY <1>7 DEF Complete, Receive, processorVars
  <2>2. NegotiatedEnough /\ (ssl_active <=> use_ssl) /\ ResponseSent
    BY <1>7 DEF Complete, Progress
  <2> QED BY <2>1, <2>2 DEF Progress, EstablishedIsUsable, ResponseSent
<1>8. CASE RejectResponse
  BY <1>8, FailureIsNoSuccess DEF RejectResponse, Reject
<1>9. CASE WaitForOk
  BY <1>9 DEF WaitForOk, Receive, processorVars, channelVars, Progress, EstablishedIsUsable, ResponseSent
<1>10. ASSUME NEW type, Receive(type), NEW name, Recalculate(name), pc = "read_response"
       PROVE  Progress'
  <2>1. params' = params /\ wire' = wire
    BY <1>10 DEF Receive
  <2> QED BY <1>10, <2>1, RecalculateProgresses, FailureIsNoSuccess DEF Progress, EstablishedIsUsable, ResponseSent
<1>11. CASE SwitchAuth
  BY <1>10, <1>11 DEF SwitchAuth
<1>12. CASE ContinueAuth
  BY <1>10, <1>12 DEF ContinueAuth
<1>13. CASE WriteAuth
  <2>1. PICK m : m = ClientMessage("auth_data", "", response)
    OBVIOUS
  <2>2. m \in ClientMessages
    BY <2>1, AuthDataType DEF Writable
  <2>3. wire' = Append(wire, m) /\ ResponseSent
    BY <1>13, <2>1 DEF WriteAuth, Send, Progress
  <2>4. ResponseSent'
    BY <2>2, <2>3, WrittenStays
  <2> QED BY <1>13, <2>4 DEF WriteAuth, processorVars, channelVars, Progress, EstablishedIsUsable
<1>14. CASE TransferError
  BY <1>14, FailureIsNoSuccess DEF TransferError
<1>15. CASE Peer
  BY <1>15 DEF Peer, processorVars, channelVars, Progress, EstablishedIsUsable, ResponseSent
<1>16. CASE UNCHANGED vars
  BY <1>16 DEF vars, processorVars, channelVars, Progress, EstablishedIsUsable, ResponseSent
<1> QED BY <1>1, <1>2, <1>3, <1>4, <1>5, <1>6, <1>7, <1>8, <1>9, <1>11, <1>12, <1>13, <1>14,
           <1>15, <1>16 DEF Next, Processing, Writing

\* A handshake that succeeds leaves a connection the rest of the library can
\* use, whatever the peer sent: it has authenticated, with the capabilities and
\* the encryption that the caller asked for, and the channel knows both.
THEOREM SuccessIsUsable == Spec => []EstablishedIsUsable
<1>1. Init => TypeOK /\ Progress
  BY TypeInit DEF Init, Progress, EstablishedIsUsable
<1>2. TypeOK /\ Progress /\ [Next]_vars => TypeOK' /\ Progress'
  BY TypeStep, ProgressStep
<1>3. Progress => EstablishedIsUsable
  BY DEF Progress
<1> QED BY <1>1, <1>2, <1>3, PTL DEF Spec

-----------------------------------------------------------------------------
(***************************************************************************)
(* Module HandshakeServer: the client and a MySQL server understand each   *)
(* other, for all passwords, nonces and capabilities.                      *)
(***************************************************************************)

Servers ==
  [caps : ServerCaps, default : PluginNames, plugin : PluginNames,
   password : Passwords \cup {""}, cached : BOOLEAN,
   pc : {"greet", "response", "tls", "auth_data", "password", "closed"},
   nonce : Nonces \cup {""}, read : Nat, tls : BOOLEAN,
   login : {"pending", "accepted", "denied"}]

ServerTypeOK == TypeOK /\ server \in Servers

-----------------------------------------------------------------------------
(* The invariant: what each end expects of the other, step by step *)

SamePassword == params.password = server.password

\* What the client makes of the server's latest nonce with a plug-in.
AnswerWith(name) ==
  IF params.password = "" THEN EmptyAuth ELSE Scramble(name, server.nonce, params.password)

\* The server has read all that was written, or all but the last message.
AllRead == server.read = Len(wire)
Unread(type) ==
  /\ server.read + 1 = Len(wire)
  /\ wire[Len(wire)].type = type
  /\ type # "ssl_request" => wire[Len(wire)].auth = response
  /\ type = "response" => wire[Len(wire)].plugin = plugin

\* What the client's response answers: the greeting, the switch to the plug-in
\* of the account, or the request for the password itself.
GreetingAnswered ==
  server.nonce \in Nonces /\ plugin = server.default /\ response = AnswerWith(plugin)
SwitchAnswered ==
  server.nonce \in Nonces /\ plugin = server.plugin /\ response = AnswerWith(plugin)
PasswordGiven == response = Plaintext(params.password)

\* Before the greeting has arrived.
Greeted ==
  pc = "read_greeting" =>
    /\ wire = <<>> /\ server.read = 0
    /\ \/ server.pc = "greet" /\ toClient = <<>>
       \/ /\ server.pc = "response" /\ server.nonce \in Nonces
          /\ toClient = <<Greeting(server.caps, server.default, server.nonce)>>

\* While TLS is set up.
Securing ==
  pc \in {"write_ssl_request", "ssl_handshake"} =>
    /\ GreetingAnswered /\ toClient = <<>>
    /\ \/ pc = "write_ssl_request" /\ server.pc = "response" /\ AllRead
       \/ pc = "ssl_handshake" /\ server.pc = "response" /\ Unread("ssl_request")
       \/ pc = "ssl_handshake" /\ server.pc = "tls" /\ AllRead

\* The client has a response to write.
Answering ==
  pc \in {"write_response", "write_auth"} =>
    /\ toClient = <<>> /\ AllRead
    /\ \/ pc = "write_response" /\ server.pc = "response" /\ GreetingAnswered
       \/ pc = "write_auth" /\ server.pc = "auth_data" /\ SwitchAnswered
       \/ pc = "write_auth" /\ server.pc = "password" /\ PasswordGiven

\* The server has a response to judge.
Judging ==
  pc = "read_response" /\ toClient = <<>> =>
    \/ server.pc = "response" /\ GreetingAnswered /\ Unread("response")
    \/ server.pc = "auth_data" /\ SwitchAnswered /\ Unread("auth_data")
    \/ server.pc = "password" /\ PasswordGiven /\ Unread("auth_data")

\* The server has told the client how to go on.
Granted ==
  /\ server.pc = "closed" /\ server.login = "accepted" /\ SamePassword
  /\ toClient \in {Accept, <<MoreData(FastAuthComplete)>> \o Accept}
Denied == server.pc = "closed" /\ ~SamePassword /\ toClient = Deny
PasswordWanted ==
  /\ server.pc = "password" /\ plugin = Sha2 /\ params.password # ""
  /\ SamePassword => NeedsFullAuth
  /\ toClient = <<MoreData(PerformFullAuth)>>
SwitchWanted ==
  /\ server.pc = "auth_data" /\ server.nonce \in Nonces
  /\ toClient = <<AuthSwitch(server.plugin, server.nonce)>>

Judged ==
  pc = "read_response" /\ toClient # <<>> =>
    AllRead /\ (Granted \/ Denied \/ PasswordWanted \/ SwitchWanted)

\* The handshake is over: nothing the server still does makes a difference.
Over ==
  pc = "done" =>
    /\ error = "none" => server.pc = "closed" /\ AllRead
    /\ error = "auth_plugin_requires_ssl" => AllRead
    /\ GoodCredentialsAccepted /\ SuccessMeansLoggedIn

\* The invariant behind GoodCredentialsAccepted and SuccessMeansLoggedIn.
Dialogue ==
  /\ Greeted /\ Securing /\ Answering /\ Judging /\ Judged /\ Over
  /\ pc # "done" => error = "none" /\ server.tls = ssl_active

-----------------------------------------------------------------------------
(* Types *)

\* Everything this server sends is a message of the protocol.
LEMMA ServerMessages ==
  ASSUME ServerTypeOK, NEW nonce \in Nonces
  PROVE  /\ <<Greeting(server.caps, server.default, nonce)>> \in Seq(PeerMessages)
         /\ <<AuthSwitch(server.plugin, nonce)>> \in Seq(PeerMessages)
<1>1. /\ server.caps \in ServerCaps /\ server.default \in PluginNames
      /\ server.plugin \in PluginNames /\ nonce \in Challenges
  BY DEF ServerTypeOK, Servers, Challenges
<1>2. Greeting(server.caps, server.default, nonce) \in PeerMessages
  BY <1>1 DEF PeerMessages, Greetings
<1>3. AuthSwitch(server.plugin, nonce) \in PeerMessages
  BY <1>1 DEF PeerMessages, AuthSwitches
<1> QED BY <1>2, <1>3

\* Two messages, one after the other.
LEMMA TwoMessages ==
  ASSUME NEW S, NEW a \in S, NEW b \in S
  PROVE  <<a>> \o <<b>> = <<a, b>>
<1>1. <<a>> \in Seq(S) /\ <<b>> \in Seq(S) /\ <<a, b>> \in Seq(S)
  OBVIOUS
<1>2. PICK s : s = <<a>> \o <<b>>
  OBVIOUS
<1>3. /\ s \in Seq(S) /\ Len(s) = 2
      /\ \A i \in 1..2 : s[i] = IF i <= 1 THEN <<a>>[i] ELSE <<b>>[i - 1]
  <2>1. Len(<<a>>) = 1 /\ Len(<<b>>) = 1
    OBVIOUS
  <2> QED BY <1>1, <1>2, <2>1, ConcatProperties
<1>4. s[1] = a /\ s[2] = b
  BY <1>3
<1>5. \A i \in 1..Len(s) : s[i] = <<a, b>>[i]
  BY <1>3, <1>4
<1>6. Len(s) = Len(<<a, b>>)
  BY <1>3
<1> QED BY <1>1, <1>2, <1>3, <1>5, <1>6, SeqEqual

LEMMA Verdicts ==
  /\ Accept \in Seq(PeerMessages) /\ Deny \in Seq(PeerMessages)
  /\ <<MoreData(FastAuthComplete)>> \in Seq(PeerMessages)
  /\ <<MoreData(PerformFullAuth)>> \in Seq(PeerMessages)
  /\ <<MoreData(FastAuthComplete)>> \o Accept \in Seq(PeerMessages)
  /\ <<MoreData(FastAuthComplete)>> \o Accept = <<MoreData(FastAuthComplete), Plain("ok")>>
<1>1. Plain("ok") \in PeerMessages /\ Plain("error") \in PeerMessages
  BY DEF PeerMessages, Plains
<1>2. FastAuthComplete \in Challenges /\ PerformFullAuth \in Challenges
  BY DEF Challenges
<1>3. MoreData(FastAuthComplete) \in PeerMessages /\ MoreData(PerformFullAuth) \in PeerMessages
  BY <1>2 DEF PeerMessages, MoreDatas
<1>4. Accept \in Seq(PeerMessages) /\ Deny \in Seq(PeerMessages)
  BY <1>1 DEF Accept, Deny
<1>5. /\ <<MoreData(FastAuthComplete)>> \in Seq(PeerMessages)
      /\ <<MoreData(PerformFullAuth)>> \in Seq(PeerMessages)
  BY <1>3
<1>6. <<MoreData(FastAuthComplete)>> \o Accept \in Seq(PeerMessages)
  BY <1>4, <1>5, ConcatProperties
<1>7. <<MoreData(FastAuthComplete)>> \o Accept = <<MoreData(FastAuthComplete), Plain("ok")>>
  BY <1>1, <1>3, TwoMessages DEF Accept
<1> QED BY <1>4, <1>5, <1>6, <1>7

\* A server's answer keeps the client's state as it was.
LEMMA AnswerTypes ==
  ASSUME TypeOK, NEW messages \in Seq(PeerMessages), Answer(messages)
  PROVE  TypeOK'
<1>1. toClient \in Seq(PeerMessages) /\ peerSent \in Nat
  BY DEF TypeOK
<1>2. toClient' \in Seq(PeerMessages)
  BY <1>1, ConcatProperties DEF Answer
<1>3. peerSent' \in Nat
  <2>1. Len(messages) \in Nat
    BY LenProperties
  <2> QED BY <1>1, <2>1 DEF Answer
<1> QED BY <1>2, <1>3 DEF Answer, TypeOK, processorVars, channelVars

\* What the server is set up with, and whether it uses TLS, its answers leave
\* alone.
SameSetup ==
  /\ server' \in Servers
  /\ server'.caps = server.caps /\ server'.default = server.default
  /\ server'.plugin = server.plugin /\ server'.password = server.password
  /\ server'.tls = server.tls

SameClient == UNCHANGED <<params, pc, processorVars, error, channelVars, wire>>

\* What judging a response comes to.
LEMMA JudgeOutcome ==
  ASSUME ServerTypeOK, NEW auth, Judge(auth)
  PROVE  /\ TypeOK' /\ SameClient /\ SameSetup
         /\ server'.read = server.read + 1 /\ server'.nonce = server.nonce
         /\ \/ /\ Matches(auth) /\ server'.pc = "closed" /\ server'.login = "accepted"
               /\ \/ toClient' = toClient \o Accept
                  \/ toClient' = toClient \o (<<MoreData(FastAuthComplete)>> \o Accept)
            \/ /\ server.plugin = Sha2 /\ server.password # "" /\ auth.kind = "scramble"
               /\ Matches(auth) => ~server.cached
               /\ server'.pc = "password" /\ server'.cached = server.cached
               /\ toClient' = toClient \o <<MoreData(PerformFullAuth)>>
            \/ ~Matches(auth) /\ server'.pc = "closed" /\ toClient' = toClient \o Deny
<1>t. TypeOK /\ server \in Servers
  BY DEF ServerTypeOK
<1>r. server.read \in Nat
  BY <1>t DEF Servers
<1>n. server.read + 1 \in Nat
  BY <1>r
<1>a. ASSUME NEW messages \in Seq(PeerMessages), Answer(messages)
      PROVE  TypeOK' /\ SameClient /\ toClient' = toClient \o messages
  BY <1>a, <1>t, AnswerTypes DEF Answer, SameClient
<1>1. CASE /\ Matches(auth) /\ (server.plugin = Native \/ server.password = "")
           /\ Answer(Accept)
           /\ server' = [server EXCEPT !.read = @ + 1, !.pc = "closed", !.login = "accepted"]
  <2>1. TypeOK' /\ SameClient /\ toClient' = toClient \o Accept
    BY <1>1, <1>a, Verdicts
  <2>2. /\ SameSetup /\ server'.read = server.read + 1 /\ server'.nonce = server.nonce
        /\ server'.pc = "closed" /\ server'.login = "accepted"
    BY <1>1, <1>t, <1>n DEF Servers, SameSetup
  <2> QED BY <1>1, <2>1, <2>2
<1>2. CASE /\ Matches(auth) /\ server.plugin = Sha2 /\ server.cached /\ server.password # ""
           /\ Answer(<<MoreData(FastAuthComplete)>> \o Accept)
           /\ server' = [server EXCEPT !.read = @ + 1, !.pc = "closed", !.login = "accepted"]
  <2>1. /\ TypeOK' /\ SameClient
        /\ toClient' = toClient \o (<<MoreData(FastAuthComplete)>> \o Accept)
    BY <1>2, <1>a, Verdicts
  <2>2. /\ SameSetup /\ server'.read = server.read + 1 /\ server'.nonce = server.nonce
        /\ server'.pc = "closed" /\ server'.login = "accepted"
    BY <1>2, <1>t, <1>n DEF Servers, SameSetup
  <2> QED BY <1>2, <2>1, <2>2
<1>3. CASE /\ server.plugin = Sha2 /\ server.password # "" /\ auth.kind = "scramble"
           /\ ~(Matches(auth) /\ server.cached)
           /\ Answer(<<MoreData(PerformFullAuth)>>)
           /\ server' = [server EXCEPT !.read = @ + 1, !.pc = "password"]
  <2>1. TypeOK' /\ SameClient /\ toClient' = toClient \o <<MoreData(PerformFullAuth)>>
    BY <1>3, <1>a, Verdicts
  <2>2. /\ SameSetup /\ server'.read = server.read + 1 /\ server'.nonce = server.nonce
        /\ server'.pc = "password" /\ server'.cached = server.cached
    BY <1>3, <1>t, <1>n DEF Servers, SameSetup
  <2> QED BY <1>3, <2>1, <2>2
<1>4. CASE /\ ~Matches(auth)
           /\ Answer(Deny)
           /\ server' = [server EXCEPT !.read = @ + 1, !.pc = "closed", !.login = "denied"]
  <2>1. TypeOK' /\ SameClient /\ toClient' = toClient \o Deny
    BY <1>4, <1>a, Verdicts
  <2>2. /\ SameSetup /\ server'.read = server.read + 1 /\ server'.nonce = server.nonce
        /\ server'.pc = "closed"
    BY <1>4, <1>t, <1>n DEF Servers, SameSetup
  <2> QED BY <1>4, <2>1, <2>2
<1> QED BY <1>1, <1>2, <1>3, <1>4 DEF Judge

\* What a server's step leaves alone: it reads a message, unless it greets.
LEMMA ServerFrame ==
  ASSUME ServerTypeOK, ServerStep
  PROVE  /\ TypeOK' /\ SameClient /\ SameSetup
         /\ \/ server'.read = server.read /\ server'.cached = server.cached /\ server.pc = "greet"
            \/ server.read < Len(wire)
<1>t. TypeOK /\ server \in Servers
  BY DEF ServerTypeOK
<1>r. server.read \in Nat
  BY <1>t DEF Servers
<1>n. server.read + 1 \in Nat
  BY <1>r
<1>1. CASE Greet
  <2>1. PICK nonce \in Nonces :
          /\ Answer(<<Greeting(server.caps, server.default, nonce)>>)
          /\ server' = [server EXCEPT !.pc = "response", !.nonce = nonce]
    BY <1>1 DEF Greet
  <2>2. TypeOK' /\ SameClient
    BY <1>t, <2>1, ServerMessages, AnswerTypes DEF Answer, SameClient
  <2>3. SameSetup /\ server'.read = server.read /\ server'.cached = server.cached
    BY <1>t, <1>n, <2>1 DEF Servers, SameSetup
  <2> QED BY <1>1, <2>2, <2>3 DEF Greet
<1>2. CASE ReadSslRequest
  <2>1. server' = [server EXCEPT !.pc = "tls", !.read = @ + 1] /\ UNCHANGED vars
    BY <1>2 DEF ReadSslRequest
  <2>2. TypeOK' /\ SameClient
    BY <1>t, <2>1, TypeStep DEF vars, processorVars, channelVars, SameClient
  <2>3. SameSetup
    BY <1>t, <1>n, <2>1 DEF Servers, SameSetup
  <2> QED BY <1>2, <2>2, <2>3 DEF ReadSslRequest, Incoming
<1>3. CASE ReadResponse
  <2>1. server.read < Len(wire)
    BY <1>3 DEF ReadResponse, Incoming
  <2>2. ASSUME NEW nonce \in Nonces, Answer(<<AuthSwitch(server.plugin, nonce)>>),
               server' = [server EXCEPT !.read = @ + 1, !.pc = "auth_data", !.nonce = nonce]
        PROVE  TypeOK' /\ SameClient /\ SameSetup
    <3>1. TypeOK' /\ SameClient
      BY <1>t, <2>2, ServerMessages, AnswerTypes DEF Answer, SameClient
    <3>2. SameSetup
      BY <1>t, <1>n, <2>2 DEF Servers, SameSetup
    <3> QED BY <3>1, <3>2
  <2> QED BY <1>3, <2>1, <2>2, JudgeOutcome DEF ReadResponse
<1>4. CASE ReadAuthData
  BY <1>4, JudgeOutcome DEF ReadAuthData, Incoming
<1>5. CASE ReadPassword
  <2>1. PICK right \in BOOLEAN :
          /\ Answer(IF right THEN Accept ELSE Deny)
          /\ server' = [server EXCEPT !.read = @ + 1, !.pc = "closed", !.cached = @ \/ right,
                                      !.login = IF right THEN "accepted" ELSE "denied"]
    BY <1>5 DEF ReadPassword
  <2>2. TypeOK' /\ SameClient
    BY <1>t, <2>1, Verdicts, AnswerTypes DEF Answer, SameClient
  <2>3. SameSetup
    BY <1>t, <1>n, <2>1 DEF Servers, SameSetup
  <2> QED BY <1>5, <2>2, <2>3 DEF ReadPassword, Incoming
<1> QED BY <1>1, <1>2, <1>3, <1>4, <1>5 DEF ServerStep

\* The client's own steps are those of module Handshake.
LEMMA ServerTypeStep ==
  ASSUME ServerTypeOK, [ServerNext]_serverVars
  PROVE  ServerTypeOK'
<1>t. TypeOK /\ server \in Servers
  BY DEF ServerTypeOK
<1>1. CASE ClientStep
  <2>1. Next /\ UNCHANGED server
    BY <1>1 DEF ClientStep, Next
  <2> QED BY <1>t, <2>1, TypeStep DEF ServerTypeOK
<1>2. CASE TlsEstablished
  <2>1. Next
    BY <1>2 DEF TlsEstablished, Next
  <2>2. server' \in Servers
    BY <1>2, <1>t DEF TlsEstablished, Servers
  <2> QED BY <1>t, <2>1, <2>2, TypeStep DEF ServerTypeOK
<1>3. CASE TlsFailed
  <2>1. Next
    BY <1>3 DEF TlsFailed, Next
  <2>2. server' \in Servers
    BY <1>3, <1>t DEF TlsFailed, Servers
  <2> QED BY <1>t, <2>1, <2>2, TypeStep DEF ServerTypeOK
<1>4. CASE ServerStep
  BY <1>4, ServerFrame DEF ServerTypeOK, SameSetup
<1>5. CASE UNCHANGED serverVars
  <2>1. UNCHANGED vars /\ UNCHANGED server
    BY <1>5 DEF serverVars
  <2> QED BY <1>t, <2>1, TypeStep DEF ServerTypeOK
<1> QED BY <1>1, <1>2, <1>3, <1>4, <1>5 DEF ServerNext

-----------------------------------------------------------------------------
(* What is computed and how it is judged *)

\* A nonce for a plug-in of the client makes a response, for any other plug-in
\* the client gives up.
LEMMA NonceAnswered ==
  ASSUME NEW name, NEW nonce \in Nonces, NEW caps
  PROVE  /\ name \in SupportedPlugins =>
              /\ calculate(name, nonce, caps).error = "none"
              /\ calculate(name, nonce, caps).response =
                   IF params.password = "" THEN EmptyAuth ELSE Scramble(name, nonce, params.password)
         /\ name \notin SupportedPlugins =>
              calculate(name, nonce, caps).error = "unknown_auth_plugin"
<1>r. PICK r : r = calculate(name, nonce, caps)
  OBVIOUS
<1>n. nonce # PerformFullAuth
  BY NoncesAssumption
<1>1. CASE name \notin SupportedPlugins
  <2>1. r = [error |-> "unknown_auth_plugin", response |-> response]
    BY <1>r, <1>1 DEF calculate, SupportedPlugins
  <2>2. r.error = "unknown_auth_plugin"
    BY <2>1
  <2> QED BY <1>r, <1>1, <2>2
<1>2. CASE name \in SupportedPlugins /\ params.password = ""
  <2>1. r = [error |-> "none", response |-> EmptyAuth]
    BY <1>r, <1>2 DEF calculate, SupportedPlugins
  <2>2. r.error = "none" /\ r.response = EmptyAuth
    BY <2>1
  <2> QED BY <1>r, <1>2, <2>2
<1>3. CASE name \in SupportedPlugins /\ params.password # ""
  <2>1. r = compute_response(name, params.password, nonce, caps)
    BY <1>r, <1>3 DEF calculate, SupportedPlugins
  <2>2. r = [error |-> "none", response |-> Scramble(name, nonce, params.password)]
    BY <1>n, <2>1 DEF compute_response
  <2>3. r.error = "none" /\ r.response = Scramble(name, nonce, params.password)
    BY <2>2
  <2> QED BY <1>r, <1>3, <2>3
<1> QED BY <1>1, <1>2, <1>3

\* The request for the password itself gets it over TLS, or the client gives up.
LEMMA RequestAnswered ==
  ASSUME params.password # "", NEW caps
  PROVE  /\ "SSL" \in caps =>
              /\ calculate(Sha2, PerformFullAuth, caps).error = "none"
              /\ calculate(Sha2, PerformFullAuth, caps).response = Plaintext(params.password)
         /\ "SSL" \notin caps =>
              calculate(Sha2, PerformFullAuth, caps).error = "auth_plugin_requires_ssl"
<1>r. PICK r : r = calculate(Sha2, PerformFullAuth, caps)
  OBVIOUS
<1>1. r = compute_response(Sha2, params.password, PerformFullAuth, caps)
  BY <1>r DEF calculate, all_authentication_plugins
<1>2. CASE "SSL" \in caps
  <2>1. r = [error |-> "none", response |-> Plaintext(params.password)]
    BY <1>1, <1>2 DEF compute_response
  <2>2. r.error = "none" /\ r.response = Plaintext(params.password)
    BY <2>1
  <2> QED BY <1>r, <1>2, <2>2
<1>3. CASE "SSL" \notin caps
  <2>1. r = [error |-> "auth_plugin_requires_ssl", response |-> response]
    BY <1>1, <1>3 DEF compute_response
  <2>2. r.error = "auth_plugin_requires_ssl"
    BY <2>1
  <2> QED BY <1>r, <1>3, <2>2
<1> QED BY <1>2, <1>3

\* The server accepts a response exactly if it comes from its account's password.
LEMMA JudgementIsFair ==
  /\ Matches(AnswerWith(server.plugin)) <=> SamePassword
  /\ AnswerWith(server.plugin).kind = "scramble" => params.password # ""
<1>1. CASE params.password = ""
  <2>1. AnswerWith(server.plugin) = EmptyAuth /\ EmptyAuth.kind = "empty"
    BY <1>1 DEF AnswerWith, EmptyAuth
  <2>2. Scramble(server.plugin, server.nonce, server.password).kind = "scramble"
    BY DEF Scramble
  <2> QED BY <1>1, <2>1, <2>2 DEF Matches, SamePassword
<1>2. CASE params.password # ""
  <2>1. AnswerWith(server.plugin) = Scramble(server.plugin, server.nonce, params.password)
    BY <1>2 DEF AnswerWith
  <2>2. /\ AnswerWith(server.plugin).kind = "scramble" /\ EmptyAuth.kind = "empty"
        /\ AnswerWith(server.plugin).password = params.password
    BY <2>1 DEF Scramble, EmptyAuth
  <2>3. Scramble(server.plugin, server.nonce, server.password).password = server.password
    BY DEF Scramble
  <2> QED BY <1>2, <2>1, <2>2, <2>3 DEF Matches, SamePassword
<1> QED BY <1>1, <1>2

\* The fields of the server's messages.
LEMMA MessageFields ==
  /\ Plain("ok").type = "ok" /\ Plain("error").type = "error"
  /\ \A c : MoreData(c).type = "auth_more_data" /\ MoreData(c).challenge = c
  /\ \A p, c : /\ AuthSwitch(p, c).type = "auth_switch"
              /\ AuthSwitch(p, c).plugin = p /\ AuthSwitch(p, c).challenge = c
  /\ \A caps, p, c : /\ Greeting(caps, p, c).type = "greeting" /\ Greeting(caps, p, c).caps = caps
                    /\ Greeting(caps, p, c).plugin = p /\ Greeting(caps, p, c).challenge = c
BY DEF Plain, MoreData, AuthSwitch, Greeting, Message

\* A queue of one message.
LEMMA OneMessage ==
  ASSUME NEW m
  PROVE  Head(<<m>>) = m /\ Tail(<<m>>) = <<>> /\ <<m>> # <<>>
OBVIOUS

\* What the client reads once the server has judged its response.
LEMMA VerdictRead ==
  ASSUME Judged, pc = "read_response", toClient # <<>>
  PROVE  /\ AllRead
         /\ \/ Granted /\ Head(toClient).type = "ok" /\ Tail(toClient) = <<>>
            \/ /\ Granted /\ Tail(toClient) = Accept
               /\ Head(toClient).type = "auth_more_data"
               /\ Head(toClient).challenge = FastAuthComplete
            \/ Denied /\ Head(toClient).type = "error"
            \/ /\ PasswordWanted /\ Tail(toClient) = <<>>
               /\ Head(toClient).type = "auth_more_data"
               /\ Head(toClient).challenge = PerformFullAuth
            \/ /\ SwitchWanted /\ Tail(toClient) = <<>>
               /\ Head(toClient).type = "auth_switch"
               /\ Head(toClient).plugin = server.plugin
               /\ Head(toClient).challenge = server.nonce
<1>1. AllRead /\ (Granted \/ Denied \/ PasswordWanted \/ SwitchWanted)
  BY DEF Judged
<1>2. CASE Granted
  <2>1. CASE toClient = Accept
    <3>1. Head(toClient) = Plain("ok") /\ Tail(toClient) = <<>>
      BY <2>1, OneMessage DEF Accept
    <3>2. Head(toClient).type = "ok"
      BY <3>1, MessageFields
    <3> QED BY <1>1, <1>2, <3>1, <3>2
  <2>2. CASE toClient = <<MoreData(FastAuthComplete)>> \o Accept
    <3>1. toClient = <<MoreData(FastAuthComplete), Plain("ok")>>
      BY <2>2, Verdicts
    <3>2. Head(toClient) = MoreData(FastAuthComplete) /\ Tail(toClient) = Accept
      BY <3>1 DEF Accept
    <3>3. /\ Head(toClient).type = "auth_more_data"
          /\ Head(toClient).challenge = FastAuthComplete
      BY <3>2, MessageFields
    <3> QED BY <1>1, <1>2, <3>2, <3>3
  <2> QED BY <1>2, <2>1, <2>2 DEF Granted
<1>3. CASE Denied
  <2>1. Head(toClient) = Plain("error")
    BY <1>3, OneMessage DEF Denied, Deny
  <2>2. Head(toClient).type = "error"
    BY <2>1, MessageFields
  <2> QED BY <1>1, <1>3, <2>2
<1>4. CASE PasswordWanted
  <2>1. Head(toClient) = MoreData(PerformFullAuth) /\ Tail(toClient) = <<>>
    BY <1>4, OneMessage DEF PasswordWanted
  <2>2. /\ Head(toClient).type = "auth_more_data"
        /\ Head(toClient).challenge = PerformFullAuth
    BY <2>1, MessageFields
  <2> QED BY <1>1, <1>4, <2>1, <2>2
<1>5. CASE SwitchWanted
  <2>1. /\ Head(toClient) = AuthSwitch(server.plugin, server.nonce)
        /\ Tail(toClient) = <<>>
    BY <1>5, OneMessage DEF SwitchWanted
  <2>2. /\ Head(toClient).type = "auth_switch"
        /\ Head(toClient).plugin = server.plugin /\ Head(toClient).challenge = server.nonce
    BY <2>1, MessageFields
  <2> QED BY <1>1, <1>5, <2>1, <2>2
<1> QED BY <1>1, <1>2, <1>3, <1>4, <1>5

-----------------------------------------------------------------------------
(* The client's steps *)

\* A handshake that fails for a reason other than the missing TLS.
LEMMA Fails ==
  ASSUME pc' = "done", error' \notin {"none", "auth_plugin_requires_ssl"},
         GoodCredentialsAccepted'
  PROVE  Dialogue'
BY DEF Dialogue, Greeted, Securing, Answering, Judging, Judged, Over, SuccessMeansLoggedIn

\* The network fails.
LEMMA TransferErrorDialogue ==
  ASSUME TransferError
  PROVE  Dialogue'
BY Fails DEF TransferError, GoodCredentialsAccepted

\* The client waits for the greeting, and gets nothing else.
LEMMA GreetingRead ==
  ASSUME Greeted, pc = "read_greeting", toClient # <<>>
  PROVE  /\ wire = <<>> /\ server.read = 0
         /\ server.pc = "response" /\ server.nonce \in Nonces
         /\ Head(toClient).type = "greeting" /\ Head(toClient).caps = server.caps
         /\ Head(toClient).plugin = server.default /\ Head(toClient).challenge = server.nonce
         /\ Tail(toClient) = <<>>
<1>1. /\ wire = <<>> /\ server.read = 0 /\ server.pc = "response" /\ server.nonce \in Nonces
      /\ toClient = <<Greeting(server.caps, server.default, server.nonce)>>
  BY DEF Greeted
<1>2. /\ Head(toClient) = Greeting(server.caps, server.default, server.nonce)
      /\ Tail(toClient) = <<>>
  BY <1>1, OneMessage
<1>3. /\ Head(toClient).type = "greeting" /\ Head(toClient).caps = server.caps
      /\ Head(toClient).plugin = server.default /\ Head(toClient).challenge = server.nonce
  BY <1>2, MessageFields
<1> QED BY <1>1, <1>2, <1>3

LEMMA RejectGreetingDialogue ==
  ASSUME Dialogue, RejectGreeting
  PROVE  Dialogue'
<1>1. toClient # <<>> /\ Head(toClient).type # "greeting" /\ pc = "read_greeting"
  BY DEF RejectGreeting, Receive
<1> QED BY <1>1, GreetingRead DEF Dialogue

LEMMA RejectCapabilitiesDialogue ==
  ASSUME Dialogue, RejectCapabilities, server' = server
  PROVE  Dialogue'
<1>1. /\ pc = "read_greeting" /\ toClient # <<>> /\ ~(required_caps \subseteq Head(toClient).caps)
      /\ pc' = "done" /\ error' = "server_unsupported" /\ params' = params
  BY DEF RejectCapabilities, Receive, Reject
<1>2. Head(toClient).caps = server.caps
  BY <1>1, GreetingRead DEF Dialogue
<1>3. required_caps' = required_caps
  BY <1>1 DEF required_caps
<1>4. ~(required_caps' \subseteq server'.caps)
  BY <1>1, <1>2, <1>3
<1>5. GoodCredentialsAccepted'
  BY <1>1, <1>4 DEF GoodCredentialsAccepted
<1> QED BY <1>1, <1>5, Fails

LEMMA ProcessGreetingDialogue ==
  ASSUME ServerTypeOK, Dialogue, ProcessGreeting, server' = server
  PROVE  Dialogue'
<1>1. pc = "read_greeting" /\ Receive("greeting")
  BY DEF ProcessGreeting
<1>2. /\ wire = <<>> /\ server.read = 0
      /\ server.pc = "response" /\ server.nonce \in Nonces
      /\ Head(toClient).plugin = server.default /\ Head(toClient).challenge = server.nonce
      /\ Tail(toClient) = <<>>
  BY <1>1, GreetingRead DEF Dialogue, Receive
<1>3. toClient' = <<>> /\ params' = params /\ wire' = wire
  BY <1>1, <1>2 DEF Receive
<1>4. PICK caps : caps = negotiate(Head(toClient).caps)
  OBVIOUS
<1>5. PICK r : r = calculate(server.default, server.nonce, caps)
  OBVIOUS
<1>6. /\ response' = r.response /\ negotiated_caps' = caps
      /\ plugin' = IF server.default \in SupportedPlugins THEN server.default ELSE "none"
      /\ \/ r.error # "none" /\ Reject(r.error)
         \/ /\ r.error = "none"
            /\ pc' = IF "SSL" \in caps THEN "write_ssl_request" ELSE "write_response"
            /\ UNCHANGED <<error, channelVars>>
  BY <1>2, <1>4, <1>5 DEF ProcessGreeting, SupportedPlugins
<1>7. error = "none" /\ server.tls = ssl_active
  BY <1>1 DEF Dialogue
<1>8. CASE server.default \in SupportedPlugins
  <2>1. r.error = "none" /\ r.response = AnswerWith(server.default)
    BY <1>2, <1>5, <1>8, NonceAnswered DEF AnswerWith
  <2>2. /\ pc' \in {"write_ssl_request", "write_response"}
        /\ error' = "none" /\ server'.tls = ssl_active'
    BY <1>6, <1>7, <2>1 DEF channelVars
  <2>3. GreetingAnswered'
    <3>1. plugin' = server.default /\ response' = AnswerWith(server.default)
      BY <1>6, <1>8, <2>1
    <3>2. AnswerWith(server.default) = AnswerWith(plugin)'
      BY <1>3, <3>1 DEF AnswerWith
    <3> QED BY <1>2, <3>1, <3>2 DEF GreetingAnswered
  <2>4. AllRead'
    BY <1>2, <1>3 DEF AllRead
  <2> QED BY <1>2, <1>3, <2>2, <2>3, <2>4
          DEF Dialogue, Greeted, Securing, Answering, Judging, Judged, Over
<1>9. CASE server.default \notin SupportedPlugins
  <2>1. r.error = "unknown_auth_plugin"
    BY <1>2, <1>5, <1>9, NonceAnswered
  <2>2. pc' = "done" /\ error' = "unknown_auth_plugin"
    BY <1>6, <2>1 DEF Reject
  <2>3. {server'.default, server'.plugin} \ SupportedPlugins # {}
    BY <1>9
  <2> QED BY <2>2, <2>3, Fails DEF GoodCredentialsAccepted
<1> QED BY <1>8, <1>9

\* A message that the client writes is the only one the server has not read.
LEMMA WrittenUnread ==
  ASSUME TypeOK, AllRead, server' = server, NEW m \in ClientMessages, wire' = Append(wire, m)
  PROVE  server'.read + 1 = Len(wire') /\ wire'[Len(wire')] = m
<1>1. wire \in Seq(ClientMessages)
  BY DEF TypeOK
<1>2. Len(wire') = Len(wire) + 1 /\ wire'[Len(wire) + 1] = m
  BY <1>1, LogTypes
<1> QED BY <1>2 DEF AllRead

LEMMA WriteSslRequestDialogue ==
  ASSUME ServerTypeOK, Dialogue, WriteSslRequest, server' = server
  PROVE  Dialogue'
<1>1. /\ pc = "write_ssl_request" /\ pc' = "ssl_handshake"
      /\ UNCHANGED <<params, plugin, response, error, ssl_active, toClient>>
  BY DEF WriteSslRequest, processorVars, channelVars
<1>2. /\ GreetingAnswered /\ toClient = <<>> /\ server.pc = "response" /\ AllRead
      /\ error = "none" /\ server.tls = ssl_active
  BY <1>1 DEF Dialogue, Securing
<1>3. PICK m : m = ClientMessage("ssl_request", "", NoAuth)
  OBVIOUS
<1>t. TypeOK
  BY DEF ServerTypeOK
<1>4. m \in ClientMessages /\ m.type = "ssl_request"
  <2>1. Writable(m, "ssl_request", NoAuth)
    BY <1>t, <1>3, SslRequestType
  <2> QED BY <2>1 DEF Writable
<1>5. wire' = Append(wire, m)
  BY <1>3 DEF WriteSslRequest, Send
<1>6. Unread("ssl_request")'
  BY <1>t, <1>2, <1>4, <1>5, WrittenUnread DEF Unread
<1>7. GreetingAnswered'
  BY <1>1, <1>2 DEF GreetingAnswered, AnswerWith
<1> QED BY <1>1, <1>2, <1>6, <1>7
        DEF Dialogue, Greeted, Securing, Answering, Judging, Judged, Over

LEMMA TlsDialogue ==
  ASSUME ServerTypeOK, Dialogue, TlsEstablished
  PROVE  Dialogue'
<1>1. /\ pc = "ssl_handshake" /\ pc' = "write_response" /\ ssl_active' = TRUE
      /\ UNCHANGED <<params, plugin, response, error, toClient, wire>>
      /\ server.pc = "tls" /\ server' = [server EXCEPT !.pc = "response", !.tls = TRUE]
  BY DEF TlsEstablished, SslHandshake, processorVars
<1>2. /\ server'.pc = "response" /\ server'.tls = TRUE
      /\ server'.nonce = server.nonce /\ server'.default = server.default
      /\ server'.read = server.read
  BY <1>1 DEF ServerTypeOK, Servers
<1>3. GreetingAnswered /\ toClient = <<>> /\ error = "none"
  BY <1>1 DEF Dialogue, Securing
<1>4. AllRead
  BY <1>1 DEF Dialogue, Securing
<1>5. AllRead' /\ GreetingAnswered'
  BY <1>1, <1>2, <1>3, <1>4 DEF AllRead, GreetingAnswered, AnswerWith
<1> QED BY <1>1, <1>2, <1>3, <1>5
        DEF Dialogue, Greeted, Securing, Answering, Judging, Judged, Over

LEMMA TlsFailedDialogue ==
  ASSUME TlsFailed
  PROVE  Dialogue'
BY Fails DEF TlsFailed, SslHandshake, GoodCredentialsAccepted

LEMMA WriteResponseDialogue ==
  ASSUME ServerTypeOK, Dialogue, WriteResponse, server' = server
  PROVE  Dialogue'
<1>1. /\ pc = "write_response" /\ pc' = "read_response"
      /\ UNCHANGED <<params, plugin, response, error, ssl_active, toClient>>
  BY DEF WriteResponse, processorVars, channelVars
<1>2. /\ GreetingAnswered /\ toClient = <<>> /\ server.pc = "response" /\ AllRead
      /\ error = "none" /\ server.tls = ssl_active
  BY <1>1 DEF Dialogue, Answering
<1>3. PICK m : m = ClientMessage("response", plugin, response)
  OBVIOUS
<1>t. TypeOK
  BY DEF ServerTypeOK
<1>4. m \in ClientMessages /\ m.type = "response" /\ m.auth = response
  <2>1. Writable(m, "response", response)
    BY <1>t, <1>3, ResponseType
  <2> QED BY <2>1 DEF Writable
<1>5. m.plugin = plugin
  BY <1>3 DEF ClientMessage
<1>6. wire' = Append(wire, m)
  BY <1>3 DEF WriteResponse, Send
<1>7. Unread("response")'
  BY <1>t, <1>1, <1>2, <1>4, <1>5, <1>6, WrittenUnread DEF Unread
<1>8. GreetingAnswered'
  BY <1>1, <1>2 DEF GreetingAnswered, AnswerWith
<1> QED BY <1>1, <1>2, <1>7, <1>8
        DEF Dialogue, Greeted, Securing, Answering, Judging, Judged, Over

LEMMA WriteAuthDialogue ==
  ASSUME ServerTypeOK, Dialogue, WriteAuth, server' = server
  PROVE  Dialogue'
<1>1. /\ pc = "write_auth" /\ pc' = "read_response"
      /\ UNCHANGED <<params, plugin, response, error, ssl_active, toClient>>
  BY DEF WriteAuth, processorVars, channelVars
<1>2. /\ toClient = <<>> /\ AllRead
      /\ \/ server.pc = "auth_data" /\ SwitchAnswered
         \/ server.pc = "password" /\ PasswordGiven
      /\ error = "none" /\ server.tls = ssl_active
  BY <1>1 DEF Dialogue, Answering
<1>3. PICK m : m = ClientMessage("auth_data", "", response)
  OBVIOUS
<1>t. TypeOK
  BY DEF ServerTypeOK
<1>4. m \in ClientMessages /\ m.type = "auth_data" /\ m.auth = response
  <2>1. Writable(m, "auth_data", response)
    BY <1>t, <1>3, AuthDataType
  <2> QED BY <2>1 DEF Writable
<1>5. wire' = Append(wire, m)
  BY <1>3 DEF WriteAuth, Send
<1>6. Unread("auth_data")'
  BY <1>t, <1>1, <1>2, <1>4, <1>5, WrittenUnread DEF Unread
<1>7. /\ SwitchAnswered => SwitchAnswered'
      /\ PasswordGiven => PasswordGiven'
  BY <1>1 DEF SwitchAnswered, PasswordGiven, AnswerWith
<1> QED BY <1>1, <1>2, <1>6, <1>7
        DEF Dialogue, Greeted, Securing, Answering, Judging, Judged, Over

LEMMA CompleteDialogue ==
  ASSUME Dialogue, Complete, server' = server
  PROVE  Dialogue'
<1>1. /\ pc = "read_response" /\ toClient # <<>> /\ Head(toClient).type = "ok"
      /\ toClient' = Tail(toClient) /\ pc' = "done"
      /\ UNCHANGED <<params, wire, error, ssl_active>>
  BY DEF Complete, Receive
<1>2. AllRead /\ Granted /\ Tail(toClient) = <<>>
  BY <1>1, VerdictRead DEF Dialogue
<1>3. error = "none" /\ server.tls = ssl_active
  BY <1>1 DEF Dialogue
<1>4. /\ server.pc = "closed" /\ server.login = "accepted" /\ SamePassword
      /\ server.read = Len(wire)
  BY <1>2 DEF Granted, AllRead
<1>5. SuccessMeansLoggedIn' /\ GoodCredentialsAccepted'
  BY <1>1, <1>2, <1>3, <1>4 DEF SuccessMeansLoggedIn, GoodCredentialsAccepted, SamePassword
<1> QED BY <1>1, <1>3, <1>4, <1>5
        DEF Dialogue, Greeted, Securing, Answering, Judging, Judged, Over, AllRead

LEMMA RejectResponseDialogue ==
  ASSUME Dialogue, RejectResponse, server' = server
  PROVE  Dialogue'
<1>1. /\ pc = "read_response" /\ toClient # <<>> /\ params' = params
      /\ \/ Head(toClient).type = "error" /\ Reject("server_error")
         \/ Head(toClient).type \in {"greeting", "greeting_v9", "other"}
  BY DEF RejectResponse, Receive
<1>2. Denied /\ Reject("server_error")
  BY <1>1, VerdictRead DEF Dialogue
<1>3. pc' = "done" /\ error' = "server_error" /\ ~(params'.password = server'.password)
  BY <1>1, <1>2 DEF Denied, Reject, SamePassword
<1> QED BY <1>3, Fails DEF GoodCredentialsAccepted

LEMMA WaitForOkDialogue ==
  ASSUME Dialogue, WaitForOk, server' = server
  PROVE  Dialogue'
<1>1. /\ pc = "read_response" /\ toClient # <<>> /\ pc' = pc
      /\ Head(toClient).type = "auth_more_data" /\ Head(toClient).challenge = FastAuthComplete
      /\ toClient' = Tail(toClient)
      /\ UNCHANGED <<params, wire, error, ssl_active>>
  BY DEF WaitForOk, Receive, channelVars
<1>2. AllRead /\ Granted /\ Tail(toClient) = Accept
  BY <1>1, VerdictRead DEF Dialogue, FastAuthComplete, PerformFullAuth
<1>3. Accept # <<>>
  BY OneMessage DEF Accept
<1>4. AllRead' /\ Granted'
  BY <1>1, <1>2 DEF AllRead, Granted, SamePassword
<1> QED BY <1>1, <1>2, <1>3, <1>4
        DEF Dialogue, Greeted, Securing, Answering, Judging, Judged, Over

\* The server switches to the plug-in of its account.
LEMMA SwitchAuthDialogue ==
  ASSUME ServerTypeOK, Dialogue, SwitchAuth, server' = server
  PROVE  Dialogue'
<1>1. /\ pc = "read_response" /\ toClient # <<>> /\ Head(toClient).type = "auth_switch"
      /\ toClient' = Tail(toClient) /\ UNCHANGED <<params, wire>>
      /\ Recalculate(Head(toClient).plugin)
  BY DEF SwitchAuth, Receive
<1>2. /\ AllRead /\ SwitchWanted /\ Tail(toClient) = <<>>
      /\ Head(toClient).plugin = server.plugin /\ Head(toClient).challenge = server.nonce
  BY <1>1, VerdictRead DEF Dialogue
<1>3. server.pc = "auth_data" /\ server.nonce \in Nonces
  BY <1>2 DEF SwitchWanted
<1>c. PICK caps : caps = negotiated_caps
  OBVIOUS
<1>4. PICK r : r = calculate(server.plugin, server.nonce, caps)
  OBVIOUS
<1>5. /\ response' = r.response
      /\ plugin' = IF server.plugin \in SupportedPlugins THEN server.plugin ELSE "none"
      /\ \/ r.error # "none" /\ Reject(r.error)
         \/ r.error = "none" /\ pc' = "write_auth" /\ UNCHANGED <<error, channelVars>>
  BY <1>1, <1>2, <1>4, <1>c DEF Recalculate, SupportedPlugins
<1>6. error = "none" /\ server.tls = ssl_active
  BY <1>1 DEF Dialogue
<1>7. CASE server.plugin \in SupportedPlugins
  <2>1. r.error = "none" /\ r.response = AnswerWith(server.plugin)
    BY <1>3, <1>4, <1>7, NonceAnswered DEF AnswerWith
  <2>2. pc' = "write_auth" /\ error' = "none" /\ server'.tls = ssl_active'
    BY <1>5, <1>6, <2>1 DEF channelVars
  <2>3. SwitchAnswered'
    <3>1. plugin' = server.plugin /\ response' = AnswerWith(server.plugin)
      BY <1>5, <1>7, <2>1
    <3>2. AnswerWith(server.plugin) = AnswerWith(plugin)'
      BY <1>1, <3>1 DEF AnswerWith
    <3> QED BY <1>3, <3>1, <3>2 DEF SwitchAnswered
  <2>4. AllRead' /\ toClient' = <<>>
    BY <1>1, <1>2 DEF AllRead
  <2> QED BY <1>3, <2>2, <2>3, <2>4
          DEF Dialogue, Greeted, Securing, Answering, Judging, Judged, Over
<1>8. CASE server.plugin \notin SupportedPlugins
  <2>1. r.error = "unknown_auth_plugin"
    <3>1. r = [error |-> "unknown_auth_plugin", response |-> response]
      BY <1>4, <1>8 DEF calculate, SupportedPlugins
    <3> QED BY <3>1
  <2>2. pc' = "done" /\ error' = "unknown_auth_plugin"
    BY <1>5, <2>1 DEF Reject
  <2>3. {server'.default, server'.plugin} \ SupportedPlugins # {}
    BY <1>8
  <2> QED BY <2>2, <2>3, Fails DEF GoodCredentialsAccepted
<1> QED BY <1>7, <1>8

\* The server asks for the password itself.
LEMMA ContinueAuthDialogue ==
  ASSUME ServerTypeOK, Dialogue, ContinueAuth, server' = server
  PROVE  Dialogue'
<1>1. /\ pc = "read_response" /\ toClient # <<>> /\ Head(toClient).type = "auth_more_data"
      /\ Head(toClient).challenge # FastAuthComplete
      /\ toClient' = Tail(toClient) /\ UNCHANGED <<params, wire>>
      /\ Recalculate(plugin)
  BY DEF ContinueAuth, Receive
<1>2. /\ AllRead /\ PasswordWanted /\ Tail(toClient) = <<>>
      /\ Head(toClient).challenge = PerformFullAuth
  BY <1>1, VerdictRead DEF Dialogue
<1>3. /\ server.pc = "password" /\ plugin = Sha2 /\ params.password # ""
      /\ SamePassword => NeedsFullAuth
  BY <1>2 DEF PasswordWanted
<1>4. PICK r : r = calculate(Sha2, PerformFullAuth, negotiated_caps)
  OBVIOUS
<1>5. /\ response' = r.response /\ negotiated_caps' = negotiated_caps
      /\ \/ r.error # "none" /\ Reject(r.error)
         \/ r.error = "none" /\ pc' = "write_auth" /\ UNCHANGED <<error, channelVars>>
  BY <1>1, <1>2, <1>3, <1>4 DEF Recalculate
<1>6. error = "none" /\ server.tls = ssl_active
  BY <1>1 DEF Dialogue
<1>7. AllRead' /\ toClient' = <<>>
  BY <1>1, <1>2 DEF AllRead
<1>8. CASE "SSL" \in negotiated_caps
  <2>1. r.error = "none" /\ r.response = Plaintext(params.password)
    BY <1>3, <1>4, <1>8, RequestAnswered
  <2>2. pc' = "write_auth" /\ error' = "none" /\ server'.tls = ssl_active'
    BY <1>5, <1>6, <2>1 DEF channelVars
  <2>3. PasswordGiven'
    BY <1>1, <1>5, <2>1 DEF PasswordGiven
  <2> QED BY <1>3, <1>7, <2>2, <2>3
          DEF Dialogue, Greeted, Securing, Answering, Judging, Judged, Over
<1>9. CASE "SSL" \notin negotiated_caps
  <2>1. r.error = "auth_plugin_requires_ssl"
    BY <1>3, <1>4, <1>9, RequestAnswered
  <2>2. pc' = "done" /\ error' = "auth_plugin_requires_ssl"
    BY <1>5, <2>1 DEF Reject
  <2>3. ~use_ssl' /\ (params'.password = server'.password => NeedsFullAuth')
    BY <1>1, <1>3, <1>5, <1>9 DEF use_ssl, SamePassword, NeedsFullAuth
  <2>4. GoodCredentialsAccepted' /\ SuccessMeansLoggedIn'
    BY <2>2, <2>3 DEF GoodCredentialsAccepted, SuccessMeansLoggedIn
  <2> QED BY <1>7, <2>2, <2>4
          DEF Dialogue, Greeted, Securing, Answering, Judging, Judged, Over
<1> QED BY <1>8, <1>9

-----------------------------------------------------------------------------
(* The server's steps *)

\* Once the handshake is over, nothing the server does changes its outcome.
LEMMA ServerIsLate ==
  ASSUME ServerTypeOK, Dialogue, ServerStep, pc = "done"
  PROVE  Dialogue'
<1>1. /\ SameClient /\ SameSetup
      /\ \/ server'.read = server.read /\ server'.cached = server.cached /\ server.pc = "greet"
         \/ server.read < Len(wire)
  BY ServerFrame
<1>2. pc' = "done" /\ error' = error /\ params' = params /\ wire' = wire
      /\ negotiated_caps' = negotiated_caps
  BY <1>1 DEF SameClient, processorVars
<1>3. Over
  BY DEF Dialogue
<1>s. IsServer
  BY DEF ServerTypeOK, Servers, IsServer
<1>l. AllRead => ~(server.read < Len(wire))
  <2>1. Len(wire) \in Nat
    BY LenProperties DEF ServerTypeOK, TypeOK
  <2> QED BY <2>1 DEF AllRead
<1>4. error # "none"
  BY <1>1, <1>3, <1>l DEF Over
<1>5. CASE error = "auth_plugin_requires_ssl"
  <2>1. server'.read = server.read /\ server'.cached = server.cached
    BY <1>1, <1>3, <1>5, <1>l DEF Over
  <2>2. AllRead'
    BY <1>2, <1>3, <1>5, <2>1 DEF Over, AllRead
  <2>3. GoodCredentialsAccepted' /\ SuccessMeansLoggedIn'
    BY <1>1, <1>2, <1>3, <1>s, <1>5, <2>1
       DEF Over, GoodCredentialsAccepted, SuccessMeansLoggedIn, SameSetup, NeedsFullAuth, use_ssl
  <2> QED BY <1>2, <1>5, <2>2, <2>3
          DEF Dialogue, Greeted, Securing, Answering, Judging, Judged, Over
<1>6. CASE error # "auth_plugin_requires_ssl"
  <2>1. required_caps' = required_caps
    BY <1>2 DEF required_caps
  <2>2. GoodCredentialsAccepted'
    BY <1>1, <1>2, <1>3, <1>s, <1>6, <2>1 DEF Over, GoodCredentialsAccepted, SameSetup
  <2> QED BY <1>2, <1>4, <1>6, <2>2, Fails
<1> QED BY <1>5, <1>6

\* What there is to read while the handshake goes on.
LEMMA ReadInTurn ==
  ASSUME ServerTypeOK, Dialogue, pc # "done", server.read < Len(wire)
  PROVE  /\ server.read + 1 = Len(wire) /\ toClient = <<>>
         /\ error = "none" /\ server.tls = ssl_active
         /\ \/ /\ pc = "ssl_handshake" /\ server.pc = "response"
               /\ GreetingAnswered /\ Unread("ssl_request")
            \/ /\ pc = "read_response" /\ server.pc = "response"
               /\ GreetingAnswered /\ Unread("response")
            \/ /\ pc = "read_response" /\ server.pc = "auth_data"
               /\ SwitchAnswered /\ Unread("auth_data")
            \/ /\ pc = "read_response" /\ server.pc = "password"
               /\ PasswordGiven /\ Unread("auth_data")
<1>1. /\ Len(wire) \in Nat
      /\ pc \in {"read_greeting", "write_ssl_request", "ssl_handshake", "write_response",
                 "read_response", "write_auth"}
  BY LenProperties DEF ServerTypeOK, TypeOK
<1>2. ~AllRead
  BY <1>1 DEF AllRead
<1>3. pc # "read_greeting"
  <2>1. ASSUME pc = "read_greeting" PROVE FALSE
    <3>1. wire = <<>> /\ server.read = 0
      BY <2>1 DEF Dialogue, Greeted
    <3>2. Len(wire) = 0
      BY <3>1
    <3> QED BY <3>1, <3>2
  <2> QED BY <2>1
<1>4. error = "none" /\ server.tls = ssl_active
  BY DEF Dialogue
<1>5. pc \notin {"write_ssl_request", "write_response", "write_auth"}
  BY <1>2 DEF Dialogue, Securing, Answering
<1>6. CASE pc = "ssl_handshake"
  BY <1>2, <1>4, <1>6 DEF Dialogue, Securing, Unread
<1>7. CASE pc = "read_response"
  <2>1. toClient = <<>>
    BY <1>2, <1>7 DEF Dialogue, Judged
  <2> QED BY <1>4, <1>7, <2>1 DEF Dialogue, Judging, Unread
<1> QED BY <1>1, <1>3, <1>5, <1>6, <1>7

\* Nothing has been said before: the first message is the only one.
LEMMA FirstMessage ==
  ASSUME NEW messages \in Seq(PeerMessages), toClient = <<>>, toClient' = toClient \o messages
  PROVE  toClient' = messages
BY ConcatEmptySeq

LEMMA GreetDialogue ==
  ASSUME ServerTypeOK, Dialogue, Greet, pc # "done"
  PROVE  Dialogue'
<1>1. PICK nonce \in Nonces :
        /\ Answer(<<Greeting(server.caps, server.default, nonce)>>)
        /\ server' = [server EXCEPT !.pc = "response", !.nonce = nonce]
  BY DEF Greet
<1>2. /\ server'.pc = "response" /\ server'.nonce = nonce /\ server'.read = server.read
      /\ server'.tls = server.tls /\ server'.caps = server.caps
      /\ server'.default = server.default
  BY <1>1 DEF ServerTypeOK, Servers
<1>3. pc = "read_greeting"
  <2>1. server.pc = "greet"
    BY DEF Greet
  <2>2. pc \in {"read_greeting", "write_ssl_request", "ssl_handshake", "write_response",
               "read_response", "write_auth"}
    BY DEF ServerTypeOK, TypeOK
  <2>3. pc # "read_response"
    BY <2>1 DEF Dialogue, Judging, Judged, Granted, Denied, PasswordWanted, SwitchWanted
  <2> QED BY <2>1, <2>2, <2>3 DEF Dialogue, Securing, Answering
<1>4. /\ wire = <<>> /\ server.read = 0 /\ toClient = <<>>
      /\ error = "none" /\ server.tls = ssl_active
  BY <1>3 DEF Dialogue, Greeted, Greet
<1>5. UNCHANGED <<pc, error, ssl_active, wire>>
  BY <1>1 DEF Answer, channelVars
<1>6. toClient' = <<Greeting(server.caps, server.default, nonce)>>
  <2>1. toClient' = toClient \o <<Greeting(server.caps, server.default, nonce)>>
    BY <1>1 DEF Answer
  <2> QED BY <1>4, <2>1, ServerMessages, FirstMessage
<1>7. Greeted'
  BY <1>2, <1>4, <1>5, <1>6 DEF Greeted
<1> QED BY <1>2, <1>3, <1>4, <1>5, <1>7
        DEF Dialogue, Securing, Answering, Judging, Judged, Over

LEMMA ReadSslRequestDialogue ==
  ASSUME ServerTypeOK, Dialogue, ReadSslRequest, pc # "done"
  PROVE  Dialogue'
<1>1. /\ server.pc = "response" /\ server.read < Len(wire)
      /\ wire[server.read + 1].type = "ssl_request"
      /\ server' = [server EXCEPT !.pc = "tls", !.read = @ + 1]
      /\ UNCHANGED <<params, pc, plugin, response, error, ssl_active, toClient, wire>>
  BY DEF ReadSslRequest, Incoming, vars, processorVars, channelVars
<1>2. /\ server.read + 1 = Len(wire) /\ toClient = <<>>
      /\ error = "none" /\ server.tls = ssl_active
      /\ \/ pc = "ssl_handshake" /\ GreetingAnswered
         \/ Unread("response")
  BY <1>1, ReadInTurn
<1>3. pc = "ssl_handshake" /\ GreetingAnswered
  BY <1>1, <1>2 DEF Unread
<1>4. /\ server'.pc = "tls" /\ server'.nonce = server.nonce /\ server'.read = server.read + 1
      /\ server'.tls = server.tls /\ server'.default = server.default
  BY <1>1 DEF ServerTypeOK, Servers
<1>5. AllRead' /\ GreetingAnswered'
  BY <1>1, <1>2, <1>3, <1>4 DEF AllRead, GreetingAnswered, AnswerWith
<1> QED BY <1>1, <1>2, <1>3, <1>4, <1>5
        DEF Dialogue, Greeted, Securing, Answering, Judging, Judged, Over

\* The server judges the response that it waited for.
LEMMA JudgeDialogue ==
  ASSUME ServerTypeOK, pc = "read_response", toClient = <<>>, error = "none",
         server.tls = ssl_active, server.read + 1 = Len(wire), SwitchAnswered, Judge(response)
  PROVE  Dialogue'
<1>1. /\ SameClient /\ SameSetup
      /\ server'.read = server.read + 1 /\ server'.nonce = server.nonce
      /\ \/ /\ Matches(response) /\ server'.pc = "closed" /\ server'.login = "accepted"
            /\ \/ toClient' = toClient \o Accept
               \/ toClient' = toClient \o (<<MoreData(FastAuthComplete)>> \o Accept)
         \/ /\ server.plugin = Sha2 /\ server.password # "" /\ response.kind = "scramble"
            /\ Matches(response) => ~server.cached
            /\ server'.pc = "password" /\ server'.cached = server.cached
            /\ toClient' = toClient \o <<MoreData(PerformFullAuth)>>
         \/ ~Matches(response) /\ server'.pc = "closed" /\ toClient' = toClient \o Deny
  BY JudgeOutcome
<1>2. /\ pc' = "read_response" /\ error' = "none" /\ server'.tls = ssl_active' /\ AllRead'
      /\ params' = params /\ plugin' = plugin
  BY <1>1 DEF SameClient, SameSetup, AllRead, processorVars, channelVars
<1>3. plugin = server.plugin /\ response = AnswerWith(server.plugin)
  BY DEF SwitchAnswered
<1>4. /\ Matches(response) <=> SamePassword
      /\ response.kind = "scramble" => params.password # ""
  BY <1>3, JudgementIsFair
<1>5. SamePassword' <=> SamePassword
  BY <1>1, <1>2 DEF SamePassword, SameSetup
<1>6. Granted' \/ Denied' \/ PasswordWanted'
  <2>1. CASE Matches(response) /\ server'.pc = "closed" /\ server'.login = "accepted"
             /\ (\/ toClient' = toClient \o Accept
                 \/ toClient' = toClient \o (<<MoreData(FastAuthComplete)>> \o Accept))
    <3>1. toClient' \in {Accept, <<MoreData(FastAuthComplete)>> \o Accept}
      BY <2>1, Verdicts, FirstMessage
    <3> QED BY <1>4, <1>5, <2>1, <3>1 DEF Granted
  <2>2. CASE /\ server.plugin = Sha2 /\ server.password # "" /\ response.kind = "scramble"
             /\ Matches(response) => ~server.cached
             /\ server'.pc = "password" /\ server'.cached = server.cached
             /\ toClient' = toClient \o <<MoreData(PerformFullAuth)>>
    <3>1. toClient' = <<MoreData(PerformFullAuth)>>
      BY <2>2, Verdicts, FirstMessage
    <3>2. SamePassword' => NeedsFullAuth'
      BY <1>1, <1>4, <1>5, <2>2 DEF NeedsFullAuth, SameSetup
    <3> QED BY <1>2, <1>3, <1>4, <2>2, <3>1, <3>2 DEF PasswordWanted
  <2>3. CASE ~Matches(response) /\ server'.pc = "closed" /\ toClient' = toClient \o Deny
    <3>1. toClient' = Deny
      BY <2>3, Verdicts, FirstMessage
    <3> QED BY <1>4, <1>5, <2>3, <3>1 DEF Denied
  <2> QED BY <1>1, <2>1, <2>2, <2>3
<1>7. toClient' # <<>>
  <2>1. /\ Accept # <<>> /\ Deny # <<>> /\ <<MoreData(PerformFullAuth)>> # <<>>
        /\ <<MoreData(FastAuthComplete), Plain("ok")>> # <<>>
    BY OneMessage DEF Accept, Deny
  <2> QED BY <1>6, <2>1, Verdicts DEF Granted, Denied, PasswordWanted
<1>8. Judged'
  BY <1>2, <1>6 DEF Judged
<1> QED BY <1>2, <1>7, <1>8 DEF Dialogue, Greeted, Securing, Answering, Judging, Over

LEMMA ReadResponseDialogue ==
  ASSUME ServerTypeOK, Dialogue, ReadResponse, pc # "done"
  PROVE  Dialogue'
<1>1. /\ server.pc = "response" /\ server.read < Len(wire)
      /\ wire[server.read + 1].type = "response"
  BY DEF ReadResponse, Incoming
<1>2. /\ server.read + 1 = Len(wire) /\ toClient = <<>>
      /\ error = "none" /\ server.tls = ssl_active
      /\ GreetingAnswered
      /\ \/ pc = "ssl_handshake" /\ Unread("ssl_request")
         \/ pc = "read_response" /\ Unread("response")
  BY <1>1, ReadInTurn
<1>3. /\ pc = "read_response" /\ wire[server.read + 1].auth = response
      /\ wire[server.read + 1].plugin = plugin
  BY <1>1, <1>2 DEF Unread
<1>4. CASE plugin = server.plugin /\ Judge(response)
  <2>1. SwitchAnswered
    BY <1>2, <1>4 DEF GreetingAnswered, SwitchAnswered
  <2> QED BY <1>2, <1>3, <1>4, <2>1, JudgeDialogue
<1>5. ASSUME NEW nonce \in Nonces, Answer(<<AuthSwitch(server.plugin, nonce)>>),
             server' = [server EXCEPT !.read = @ + 1, !.pc = "auth_data", !.nonce = nonce]
      PROVE  Dialogue'
  <2>1. /\ server'.pc = "auth_data" /\ server'.nonce = nonce /\ server'.read = server.read + 1
        /\ server'.tls = server.tls /\ server'.plugin = server.plugin
    BY <1>5 DEF ServerTypeOK, Servers
  <2>2. UNCHANGED <<pc, error, ssl_active, wire>>
    BY <1>5 DEF Answer, channelVars
  <2>3. toClient' = <<AuthSwitch(server.plugin, nonce)>>
    <3>1. toClient' = toClient \o <<AuthSwitch(server.plugin, nonce)>>
      BY <1>5 DEF Answer
    <3> QED BY <1>2, <3>1, ServerMessages, FirstMessage
  <2>4. AllRead' /\ SwitchWanted' /\ toClient' # <<>>
    BY <1>2, <2>1, <2>2, <2>3, OneMessage DEF AllRead, SwitchWanted
  <2> QED BY <1>2, <1>3, <2>1, <2>2, <2>4
          DEF Dialogue, Greeted, Securing, Answering, Judging, Judged, Over
<1> QED BY <1>3, <1>4, <1>5 DEF ReadResponse

LEMMA ReadAuthDataDialogue ==
  ASSUME ServerTypeOK, Dialogue, ReadAuthData, pc # "done"
  PROVE  Dialogue'
<1>1. server.pc = "auth_data" /\ server.read < Len(wire) /\ Judge(wire[server.read + 1].auth)
  BY DEF ReadAuthData, Incoming
<1>2. /\ server.read + 1 = Len(wire) /\ toClient = <<>> /\ pc = "read_response"
      /\ error = "none" /\ server.tls = ssl_active
      /\ SwitchAnswered /\ Unread("auth_data")
  BY <1>1, ReadInTurn
<1>3. wire[server.read + 1].auth = response
  BY <1>2 DEF Unread
<1> QED BY <1>1, <1>2, <1>3, JudgeDialogue

LEMMA ReadPasswordDialogue ==
  ASSUME ServerTypeOK, Dialogue, ReadPassword, pc # "done"
  PROVE  Dialogue'
<1>1. server.pc = "password" /\ server.read < Len(wire)
  BY DEF ReadPassword, Incoming
<1>2. /\ server.read + 1 = Len(wire) /\ toClient = <<>> /\ pc = "read_response"
      /\ error = "none" /\ server.tls = ssl_active
      /\ PasswordGiven /\ Unread("auth_data")
  BY <1>1, ReadInTurn
<1>3. wire[server.read + 1].auth = Plaintext(params.password)
  BY <1>2 DEF Unread, PasswordGiven
<1>4. Plaintext(params.password) = Plaintext(server.password) <=> SamePassword
  <2>1. /\ Plaintext(params.password).password = params.password
        /\ Plaintext(server.password).password = server.password
    BY DEF Plaintext
  <2> QED BY <2>1 DEF SamePassword
<1>5. PICK right \in BOOLEAN :
        /\ right <=> SamePassword
        /\ Answer(IF right THEN Accept ELSE Deny)
        /\ server' = [server EXCEPT !.read = @ + 1, !.pc = "closed", !.cached = @ \/ right,
                                    !.login = IF right THEN "accepted" ELSE "denied"]
  BY <1>3, <1>4 DEF ReadPassword
<1>6. /\ server'.pc = "closed" /\ server'.read = server.read + 1
      /\ server'.tls = server.tls /\ server'.password = server.password
      /\ right => server'.login = "accepted"
  BY <1>5 DEF ServerTypeOK, Servers
<1>7. UNCHANGED <<params, pc, error, ssl_active, wire>>
  BY <1>5 DEF Answer, channelVars
<1>8. AllRead' /\ (SamePassword' <=> SamePassword)
  BY <1>2, <1>6, <1>7 DEF AllRead, SamePassword
<1>9. /\ toClient' = IF right THEN Accept ELSE Deny
      /\ toClient' # <<>>
  <2>1. toClient' = toClient \o (IF right THEN Accept ELSE Deny)
    BY <1>5 DEF Answer
  <2>2. toClient' = IF right THEN Accept ELSE Deny
    BY <1>2, <2>1, Verdicts, FirstMessage
  <2> QED BY <2>2, OneMessage DEF Accept, Deny
<1>10. Granted' \/ Denied'
  BY <1>5, <1>6, <1>8, <1>9 DEF Granted, Denied
<1> QED BY <1>2, <1>6, <1>7, <1>8, <1>9, <1>10
        DEF Dialogue, Greeted, Securing, Answering, Judging, Judged, Over

-----------------------------------------------------------------------------
(* The theorems *)

LEMMA DialogueInit ==
  ASSUME ServerInit
  PROVE  ServerTypeOK /\ Dialogue
<1>1. Init /\ server \in Configurations
  BY DEF ServerInit
<1>2. server \in Servers
  <2>1. server = [caps |-> server.caps, default |-> server.default, plugin |-> server.plugin,
                  password |-> server.password, cached |-> server.cached, pc |-> server.pc,
                  nonce |-> server.nonce, read |-> server.read, tls |-> server.tls,
                  login |-> server.login]
    BY <1>1 DEF Configurations
  <2>2. /\ server.caps \in ServerCaps /\ server.default \in PluginNames
        /\ server.plugin \in PluginNames /\ server.password \in Passwords \cup {""}
        /\ server.cached \in BOOLEAN /\ server.tls \in BOOLEAN
    BY <1>1 DEF Configurations
  <2>3. server.pc \in {"greet"} /\ server.nonce \in {""} /\ server.login \in {"pending"}
    BY <1>1 DEF Configurations
  <2>4. server.read \in {0}
    BY <1>1 DEF Configurations
  <2>5. /\ server.pc \in {"greet", "response", "tls", "auth_data", "password", "closed"}
        /\ server.nonce \in Nonces \cup {""}
        /\ server.login \in {"pending", "accepted", "denied"}
    BY <2>3
  <2>6. server.read \in Nat
    BY <2>4
  <2> QED BY <2>1, <2>2, <2>5, <2>6, Zenon DEF Servers
<1>3. /\ server.pc = "greet" /\ server.read = 0 /\ server.tls = FALSE
      /\ pc = "read_greeting" /\ error = "none" /\ ssl_active = FALSE
      /\ toClient = <<>> /\ wire = <<>>
  BY <1>1 DEF Configurations, Init
<1>4. Dialogue
  BY <1>3 DEF Dialogue, Greeted, Securing, Answering, Judging, Judged, Over
<1> QED BY <1>1, <1>2, <1>4, TypeInit DEF ServerTypeOK

LEMMA DialogueStep ==
  ASSUME ServerTypeOK, Dialogue, [ServerNext]_serverVars
  PROVE  Dialogue'
<1>1. CASE ClientStep
  BY <1>1, RejectGreetingDialogue, RejectCapabilitiesDialogue, ProcessGreetingDialogue,
     CompleteDialogue, RejectResponseDialogue, WaitForOkDialogue, SwitchAuthDialogue,
     ContinueAuthDialogue, WriteSslRequestDialogue, WriteResponseDialogue, WriteAuthDialogue,
     TransferErrorDialogue
     DEF ClientStep, Processing, Writing
<1>2. CASE TlsEstablished \/ TlsFailed
  BY <1>2, TlsDialogue, TlsFailedDialogue
<1>3. CASE ServerStep
  <2>1. CASE pc = "done"
    BY <1>3, <2>1, ServerIsLate
  <2>2. CASE pc # "done"
    BY <1>3, <2>2, GreetDialogue, ReadSslRequestDialogue, ReadResponseDialogue,
       ReadAuthDataDialogue, ReadPasswordDialogue
       DEF ServerStep
  <2> QED BY <2>1, <2>2
<1>4. CASE UNCHANGED serverVars
  <2>1. UNCHANGED <<params, pc, plugin, response, negotiated_caps, error, ssl_active, toClient,
                    wire, server>>
    BY <1>4 DEF serverVars, vars, processorVars, channelVars
  <2>2. /\ GreetingAnswered' = GreetingAnswered /\ SwitchAnswered' = SwitchAnswered
        /\ PasswordGiven' = PasswordGiven /\ AllRead' = AllRead
    BY <2>1 DEF GreetingAnswered, SwitchAnswered, PasswordGiven, AnswerWith, AllRead
  <2>3. Granted' = Granted /\ Denied' = Denied
    BY <2>1 DEF Granted, Denied, SamePassword
  <2>4. PasswordWanted' = PasswordWanted /\ SwitchWanted' = SwitchWanted
    BY <2>1 DEF PasswordWanted, SwitchWanted, SamePassword, NeedsFullAuth
  <2>5. Greeted'
    BY <2>1 DEF Dialogue, Greeted
  <2>6. Securing'
    BY <2>1, <2>2 DEF Dialogue, Securing, Unread
  <2>7. Answering'
    BY <2>1, <2>2 DEF Dialogue, Answering
  <2>8. Judging'
    BY <2>1, <2>2 DEF Dialogue, Judging, Unread
  <2>9. Judged'
    BY <2>1, <2>2, <2>3, <2>4 DEF Dialogue, Judged
  <2>10. GoodCredentialsAccepted' = GoodCredentialsAccepted
    BY <2>1 DEF GoodCredentialsAccepted, IsServer, NeedsFullAuth, use_ssl, required_caps
  <2>11. SuccessMeansLoggedIn' = SuccessMeansLoggedIn
    BY <2>1 DEF SuccessMeansLoggedIn, IsServer
  <2>12. Over'
    BY <2>1, <2>2, <2>10, <2>11 DEF Dialogue, Over
  <2> QED BY <2>1, <2>5, <2>6, <2>7, <2>8, <2>9, <2>12 DEF Dialogue
<1> QED BY <1>1, <1>2, <1>3, <1>4 DEF ServerNext

\* The two ends of a handshake keep step with each other.
LEMMA EndsAgree == ServerSpec => [](ServerTypeOK /\ Dialogue)
<1>1. ServerInit => ServerTypeOK /\ Dialogue
  BY DialogueInit
<1>2. ServerTypeOK /\ Dialogue /\ [ServerNext]_serverVars => ServerTypeOK' /\ Dialogue'
  BY ServerTypeStep, DialogueStep
<1> QED BY <1>1, <1>2, PTL DEF ServerSpec

\* handshake never reports success to a user whom the server has not let in, or
\* with an idea of the stream, or of what was sent, that the server does not share.
THEOREM OnlyTheAdmittedSucceed == ServerSpec => []SuccessMeansLoggedIn
<1>1. ServerTypeOK /\ Dialogue => SuccessMeansLoggedIn
  BY DEF Dialogue, Over, SuccessMeansLoggedIn
<1> QED BY <1>1, EndsAgree, PTL

\* Whoever knows the password gets in, unless the network, the capabilities, an
\* unknown plug-in or the lack of TLS stand in the way: auth_calculator answers
\* every challenge of a MySQL server with what that server expects.
THEOREM TheRightPasswordIsEnough == ServerSpec => []GoodCredentialsAccepted
<1>1. ServerTypeOK /\ Dialogue => GoodCredentialsAccepted
  BY DEF Dialogue, Over, GoodCredentialsAccepted
<1> QED BY <1>1, EndsAgree, PTL
=============================================================================
