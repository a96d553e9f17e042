------------------------------- MODULE MCLogin -------------------------------
(***************************************************************************)
(* Instances of Login for TLC: messages of a server, whole and damaged,    *)
(* and hash functions that are not constant.                               *)
(*                                                                         *)
(* The damages: a greeting that lacks its last byte, a byte in the middle  *)
(* of the challenge or all but the first, or has one byte too many; an     *)
(* auth switch cut in its challenge or in the name of the plug-in; an      *)
(* error without its text, cut in the SQL state or, as a server sends it   *)
(* in place of the greeting, without a SQL state.                          *)
(***************************************************************************)
EXTENDS Login
LOCAL INSTANCE TLC
LOCAL INSTANCE FiniteSetsExt

\* Every byte of the input counts, at its place.
Mixed(bytes, size) ==
  LET at(k) == IF k \in DOMAIN bytes THEN bytes[k] ELSE 0
      part(i) == 3 * at(i) + 5 * at(i + size) + 7 * at(i + 2 * size) + i * at(1) + at(Len(bytes))
  IN [i \in 1..size |-> (part(i) * (2 * i + 1) + i * i + Len(bytes)) % 256]
MCSHA1(bytes) == Mixed(bytes, 20)
MCSHA256(bytes) == Mixed(bytes, 32)

MCNonce == "n1" :> [i \in 1..20 |-> 40 + i] @@ "n2" :> [i \in 1..20 |-> 256 - 3 * i]
MCPassword == "secret" :> <<112, 119>>

User(ssl, database, password, api, collation) ==
  [ssl |-> ssl, database |-> database, password |-> password, api |-> api,
   collation |-> collation, username |-> <<117, 200>>]
MCUsers ==
  {User(ssl, database, password, api, 45) :
     ssl \in {"disable", "enable", "require"}, database \in {<<>>, <<100, 98>>},
     password \in {"", "secret"}, api \in {"sync", "async"}}
    \cup {User("enable", <<>>, "secret", "sync", 250)}

-----------------------------------------------------------------------------
(* Messages *)

Means(type, caps, name, nonce) ==
  [type |-> type, caps |-> Named(caps), plugin |-> name, challenge |-> nonce]
Other == Means("other", {}, "", "")
Transmit(bytes, meaning) ==
  [bytes |-> bytes, meaning |-> meaning, code |-> 0, text |-> <<>>, sql_state |-> FALSE]

Name(p) == IF p = "sha256_password" THEN <<115, 50>> ELSE PluginName[p]
Word(caps, first) ==
  LET sum(from) == MapThenSumSet(LAMBDA k : 2^(k - from), {k \in caps : k \in from..(from + 7)})
  IN <<sum(first), sum(first + 8)>>

GreetingBytes(caps, name, nonce) ==
  <<10, 56, 46, 48, 0>> \o <<7, 1, 0, 0>> \o SubSeq(Nonce[nonce], 1, 8) \o <<0>> \o Word(caps, 0)
    \o <<255>> \o <<2, 0>> \o Word(caps, 16) \o <<21>> \o [i \in 1..10 |-> 0]
    \o SubSeq(Nonce[nonce], 9, 20) \o <<0>> \o Name(name) \o <<0>>

Usual == {3, 5, 9, 15, 19, 21, 24}
Greeting(caps, name, nonce) == Transmit(GreetingBytes(caps, name, nonce), Means("greeting", caps, name, nonce))
Greetings ==
  {Greeting(caps, name, "n1") :
     caps \in {Usual, Usual \cup {11}, (Usual \ {3}) \cup {11}, (Usual \ {24}) \cup {11}, Usual \ {19}},
     name \in {Native, Sha2, "sha256_password"}}

AuthSwitchBytes(name, challenge) == <<254>> \o Name(name) \o <<0>> \o challenge \o <<0>>
ChallengeBytes(c) ==
  IF c \in DOMAIN Nonce THEN Nonce[c] ELSE IF c = "perform_full_auth" THEN <<4>> ELSE <<3>>
AuthSwitches ==
  {Transmit(AuthSwitchBytes(name, ChallengeBytes(c)), Means("auth_switch", {}, name, c)) :
     name \in {Native, Sha2, "sha256_password"}, c \in {"n2", "perform_full_auth"}}
MoreDatas ==
  {Transmit(<<1>> \o ChallengeBytes(c), Means("auth_more_data", {}, "", c)) :
     c \in {"n2", "perform_full_auth", "fast_auth_complete_challenge"}}

Text == <<110, 111, 0, 33>>
SqlState == <<35, 50, 56, 48, 48, 48>>
Error(code, text, sql_state) ==
  [bytes |-> <<255>> \o LittleEndian(code, 2) \o (IF sql_state THEN SqlState ELSE <<>>) \o text,
   meaning |-> IF sql_state \/ Len(text) >= Len(SqlState) THEN Means("error", {}, "", "") ELSE Other,
   code |-> code, text |-> text, sql_state |-> sql_state]

Cut(bytes, n) == SubSeq(bytes, 1, Len(bytes) - n)
Damaged ==
  LET g == GreetingBytes(Usual \cup {11}, Native, "n1")
      switch == AuthSwitchBytes(Sha2, Nonce["n2"])
  IN {Transmit(Cut(g, n), Other) : n \in {1, 10, Len(g) - 1}}
     \cup {Transmit(Append(g, 0), Other)}
     \cup {Transmit(Cut(switch, n), Means("auth_switch", {}, Sha2, "malformed")) : n \in {1, 10, 21}}
     \cup {Transmit(Cut(switch, n), Other) : n \in {22, 23, 24}}
     \cup {Transmit(Append(switch, 0), Means("auth_switch", {}, Sha2, "malformed"))}
     \cup {Transmit(<<1, 65>>, Means("auth_more_data", {}, "", "malformed"))}
     \cup {Transmit(<<255, 21, 4, 35, 50, 56>>, Other)}

Plain == {Transmit(<<9, 53, 0>>, Means("greeting_v9", {}, "", "")),
          Transmit(<<0, 0, 0, 2, 0, 0, 0>>, Means("ok", {}, "", "")),
          Transmit(<<0>>, Means("ok", {}, "", "")),
          Transmit(<<>>, Other), Transmit(<<7, 7>>, Other)}

MCTransmissions ==
  Greetings \cup AuthSwitches \cup MoreDatas \cup Damaged \cup Plain
    \cup {Error(1045, Text, TRUE), Error(65535, <<>>, TRUE)}
    \cup {Error(1040, Text \o Text, FALSE), Error(1040, Text, FALSE)}
=============================================================================
