# Formal models of mysql-asio

A TLA+ development of the MySQL client library in `src/include/boost/mysql`:
modules that model its protocol code, TLC configurations that check them on
small instances, and proofs of the most important facts for every instance.
Paths below are relative to `src/include/boost/mysql/`.

## The system

The library is header-only C++17 over Boost.Asio. A user owns a `connection`
(or `socket_connection`) over a stream; everything else refers to the one
`channel` inside it.

| Part | State it keeps | Operations | Talks to |
|---|---|---|---|
| `detail/protocol/channel.hpp` | `sequence_number_`, `ssl_block_`, `current_caps_`, header and shared buffers | `read`, `write`, `ssl_handshake`, `close`, their async versions | the stream |
| `network_algorithms/impl/handshake.hpp`, `detail/auth` | `negotiated_caps_`, `plugin_`, `response_` | `handshake`, `async_handshake` | channel |
| `connect.hpp`, `quit_connection.hpp`, `close_connection.hpp`, `connection.hpp` | the socket | `connect`, `quit`, `close` | channel, handshake, stream |
| `execute_generic.hpp`, `execute_query.hpp`, `execute_statement.hpp` | field count, fields, buffer | `query`, `execute` | channel; makes a resultset |
| `prepare_statement.hpp`, `close_statement.hpp`, `prepared_statement.hpp` | the server's statement id | `prepare_statement`, `close` | channel (its shared buffer) |
| `resultset.hpp`, `read_row.hpp` | `eof_received_`, `ok_packet_`, rows | `fetch_one`, `fetch_many`, `fetch_all` | channel |
| `detail/protocol/*serialization*`, messages | none | encode and decode | buffers |
| `value`, `row`, `metadata`, `error` | views of the buffers of the messages | conversions, accessors | buffers |

Every operation exists for error codes, with exceptions and asynchronously. The
asynchronous versions are `async_compose` coroutines that yield at each transfer
on the stream; between two yields nothing else of the operation runs. The
documentation allows one operation at a time per connection
(`connection.hpp:56`), so the interleavings that matter are those of the client
with the network and the server, and those of operations with what earlier
operations, or earlier sessions of the same object, left in the channel.

What is hard here, and what each part has to get right:

* **channel**: both ends count frames in one byte, in both directions, through
  messages of many frames and requests without an answer. They must agree; the
  joined message must be the one that was split; a started transfer must end.
* **handshake**: the server chooses the capabilities, the plug-in and how many
  challenges it sends. The password must not go out in clear, `ssl_mode` must
  hold, good credentials must be let in, and success must mean a login.
* **connect/close**: any step may fail. The socket must be closed afterwards, and
  nothing an earlier session left may reach the new one.
* **commands**: a response is read in pieces by several operations. After each,
  whatever the errors, the channel must be at the start of a response or its end,
  rows must come in order and once, and completion must be exact.
* **serialization**: boundaries of variable-length integers, the NULL bitmap,
  dates and times, optional parts of messages; two protocols for the same values;
  the type of a column and the kind of its values, told from different fields.
* **memory**: nothing is copied out of a message; the buffer a view points into has
  to live as long as the object that holds the view.

`PROJECT.json` lists the hazards with their lines and the properties that cover
them.

## Modules

* `MessageChannel` - the abstract service of the message layer: one reliable queue
  of whole messages per direction.
* `Channel` - `channel` itself and a conforming peer. An action is a completed
  transfer: `WriteFrame` is a turn of the loop of `write`/`write_op`;
  `ReadHeader`, `HeaderMismatch` and `ReadBody` are the loop of `read`/`read_op`
  around `process_header_read`; `StartRequest` is `reset_sequence_number` with the
  write that follows it. `buffer` is resized when the header is known and filled
  by the body, as in the code. It implements `MessageChannel` (property
  `ReliableMessages`: the logs of messages sent and received are the abstract
  queues).
* `ChannelProofs` - proofs about `Channel`: types, sequence numbers, whose turn it is,
  and that it implements `MessageChannel`.
* `Handshake` - `handshake_processor`, `auth_calculator`, the two plug-ins, and the
  steps of `handshake()` and `handshake_op`, against a peer that may send any
  message at any time. A hash is a constructor applied to its inputs: it reveals
  nothing and has no collisions.
* `HandshakeServer` - the same client with a MySQL server: a default plug-in, an
  account with its own plug-in, a cache for fast authentication, TLS. Instead of the
  server there may be a `Stranger`, the peer of `Handshake` (`AnyPeerFairSpec`).
* `MCHandshakeServer` - the greetings used for checking.
* `HandshakeProofs` - proofs about `Handshake` and `HandshakeServer`.
* `Connection` - a connection object over several sessions. The handshake is
  reduced to its messages; what matters is `sequence_number`, `ssl_block` (the
  session whose stream the channel holds) and `current_caps` (the session they
  come from).
* `ConnectionProofs` - proofs about `Connection`.
* `Session` - the command phase: requests, responses as sequences of kinds of
  messages, resultsets and statements. A message carries its position, and so its
  sequence number; `op` holds the loop variables of the operation in progress
  (`left`) and what it has collected (`got`). `GrammarAssumption` says what a server
  answers: fields and rows in the order and number that the protocol demands. That includes
  the responses the client gives up half-read (`Abandoned`: a head or a definition that
  does not deserialize, a row taken for the final OK packet): the server does not know
  that the client will, so it sends all of them. The last message of a response may be an
  error or an OK packet that does not deserialize (`FailedEnd`): the resultset is then
  over, but not complete.
* `SessionProofs` - proofs about `Session`: what is in the channel, what the user gets,
  and what an operation waits for.
* `MCSession` - the responses used for checking.
* `Encoding` - integers, strings and the NULL bitmap, byte by byte: the
  `serialization_traits` of single fields. A `deserialization_context` is the
  sequence of bytes left; `Then` is the `if (err != errc::ok) return err;` between
  two steps.
* `Messages` - messages as layouts of named and typed fields (`get_struct_fields`),
  the generic serialization of structs, and the messages that are not of the
  handshake: OK and error packets, column definitions, prepares, closes, quit.
* `Login` - the handshake byte by byte: the layout of each message, what
  `handshake_processor` makes of the bytes, the responses it composes, and the
  hashes of the plug-ins computed from the bytes of challenge and password, with
  the hash functions themselves as constants. `ImplementsHandshake` is the
  refinement of `Handshake`: what a peer means by the bytes it sends, and what a
  MySQL server makes of the bytes it gets, are the messages of `Handshake`.
* `Values` - the conversions of column values from text and binary, with the range
  checks, the calendar, floating-point numbers by sign, exponent and fraction, and
  `value::get_optional` and the printing of times.
* `Metadata` - `field_metadata`: the type of a column, computed from its flags and its
  character set, and the kind of value `value.hpp` documents for it.
* `Server` (external) - the bytes a MySQL server writes for columns and rows.
* `Rows` - the messages of one resultset: `execute_processor`, `process_read_message`,
  `deserialize_text_row` and `deserialize_binary_row`, one column per step, reading
  what `Server` writes, whole or damaged. Bytes are real bytes and the limits
  those of the code; numbers have 32 bits, TLC's limit, whatever their width.
* `Execute` - the requests: query, prepare and its answer, `check_num_params` and the
  serialization of an execute message (the size first, then its parts in order,
  into the buffer of that size, with the assertion of at most 255 parameters that comes
  before both), close and quit; `ServerRequest` and `ServerParams`
  (external) read them.
* `EncodingProofs` - facts about sums, concatenations and folds, the sizes of
  serialized messages, and what deserialization makes of them.
* `RowsProofs`, `ExecuteProofs` - proofs about `Rows` and `Execute`. The second half of
  `RowsProofs` goes through every deserializer: where it leaves off, what it returns.
* `Buffers` - who owns the memory. A buffer is the number of its contents, a view the
  number of the contents it was made for; `owning_row`, `resultset`,
  `resultset_metadata`, `execute_processor` and `fetch_many_op_impl` move, keep and drop them as
  the code does. Any order of fetches, moves and destructions is a behaviour.
* `BuffersProofs` - proofs about `Buffers`.
* `MCRows`, `MCExecute`, `MCLogin` - the values and messages used for checking.

Abstract and detailed level compose as the code does: `Session` and `Handshake`
use whole messages, which is what `Channel` is shown to provide (through
`MessageChannel`); `Connection` uses the outcomes of `Handshake` and `Session`;
`Login` implements `Handshake`; `Rows` and `Execute` have the bytes behind the kinds
of messages in `Session`.

Operators called *mutations* in the modules state what a plausible bug would
make of the definition after them. No behaviour uses them; substituting one shows
that a property notices the bug.

### Conventions of the models

* `channel::read` checks the number of each frame. In `Session` one message is
  one frame, which loses nothing: agreement across frames is `Channel`'s subject.
* An error of the transport ends the use of the channel in `Channel` and
  `Session`: the stream is then in an unknown position and the library gives no
  way to resume. `Connection` goes on, with the next session.
* `ReadForeign` (a leftover message taken for the answer to another request)
  leaves the operation with an unspecified outcome; the model stops there.
* An assertion that can fail is an action, `AssertionFails`, next to what happens in a
  build without assertions: `Execute` with more than 255 parameters
  (`prepared_statement_messages.hpp:84`), `Login` with an auth switch whose challenge does
  not end in a zero (`handshake_messages.ipp:149`). Its step ends the program
  (`pc = "aborted"`), and what the properties promise is promised of the runs that go on.
* Numbers of rows, requests, sessions and replies are bounded by the constants
  whose names start with `Max`, in the guards of the actions that create them.
* The user of `Session` does what the documentation demands: one operation at a
  time, every resultset read to its end or its error. The user of `Connection`
  does not use a session after `quit`.

## Runs

| Run | Question | Bounds and why they are enough |
|---|---|---|
| `channel_frames` | type, agreement on sequence numbers, who starves, the inductive invariant, refinement of `MessageChannel`; transfers end, replies arrive | frames of 2 bytes and numbers modulo 4: messages of 0 to 3 frames, exchanges that wrap around, and requests of exactly two frames; two requests, so one without an answer precedes another, and the server also meets a request where it expects the rest of one |
| `handshake` | secrecy, `ssl_mode`, capabilities; who gets in; the handshake ends | against anybody: 4 messages, a greeting, an auth switch, a challenge and its consequence, in any order with garbage; against a server: all configurations of plug-ins, cache and TLS; two nonces, two passwords or none |
| `login` | the bytes of the handshake mean what `Handshake` says; a refusal is reported | the same 4 messages as bytes, whole and cut at each of their parts, errors with a SQL state and, as before the handshake, without one; all `ssl_mode`s, with and without a database and a password, two collations |
| `connection_life` | stale state, sockets closed, close ends | three sessions, numbers modulo 4, responses of 0, 1 and 3 messages, so that a session can end with number 0 again |
| `session_rows` | rows, completion, what is left after errors, when it can be misread; operations return | four requests (prepare, execute, close, query in any order), responses with 0 to 3 rows, bad heads, bad definitions, bad rows, bad final OK packets and errors; counts 0, 1, 2 and "all"; numbers modulo 4, so that leftovers have every number |
| `rows` | values, metadata, OK and error packets are what the server sent; damage is noticed | each type at its zero, its ends and outside the calendar, alone, in pairs and after a NULL; every column type with five sets of flags; 6, 7 and 14 to 16 columns for the bitmap; strings of 250, 251 and 65536 bytes; up to 8 bytes missing, one too many; values that both protocols must refuse, and times of 839:00:00 and 839:59:59, which the text protocol refuses and the binary one takes |
| `execute_params` | requests arrive; the size is the size written | every kind of value alone and in pairs, 8, 9, 255 and 256 parameters (the last in a build without assertions), strings as above, ids of one and of four bytes |
| `buffers` | views point into memory that is there | two resultset objects, one or two columns, 7 messages: enough to complete one resultset, move it, and read another with rows of the first still held |
| `session_huge_row`, `session_server_error`, `times_out_of_range`, `info_dangling` | four statements of the documentation that the code does not keep, below | one request in `session_huge_row` and `session_server_error`, otherwise the instances of `rows` and `buffers` |

Deadlock is not checked: users stop, an assertion ends the program, and each bounded
behaviour ends. That nobody waits for ever is what the liveness properties and
`StarvedOnlyAfterFailedEnd` are for.

### Fairness

A handler of a started operation runs eventually: the user keeps running the
`io_context`, or sits in the blocking call. That is weak fairness on the steps of
the operation in progress, never on the user's decisions. Where a property needs
answers (`RepliesArrive`, `HandshakeEnds`, `OperationsReturn`), weak fairness on
the server's steps says so. Failures are never fair. There are no timeouts in the
library, so nothing ends without an answer or an error of the transport.

### What the runs show

The properties of the passing runs hold. In particular: no peer obtains the
password over a stream in clear; a user who keeps the rules never meets a
leftover message, except after a response that was abandoned because its head or a
field definition did not deserialize, and then it is recognised unless the response is
longer than the sequence number can count; the only messages `write` frames
wrongly are positive multiples of `MAX_PACKET_SIZE`. On the level of bytes: a login
is understood, whatever the combination of flags; a refusal is reported with its code and
text, unless it comes in place of the greeting: such an error has no SQL state, and the
client, who reads one nevertheless (`common_messages.ipp:71`), loses as many characters of
the text, or takes a shorter message for garbage (`RefusalIsReported` says so); text and binary rows give the same values, of the kind the type of their
column promises; no damaged message is taken for a row, a definition or an OK packet; a
message never outgrows the buffer that was sized for it, with 256 parameters too
in a build without assertions (one with them stops at
`prepared_statement_messages.hpp:84`: `AssertionFails`).

Reusing a connection object deserves a note. `close` leaves the sequence number at
1 (that of the quit message) and `handshake` does not reset it, so a connect after
a close fails with `sequence_number_mismatch`; with TLS the greeting is even read
through the dead TLS stream. `EstablishedIsFresh`, `StaleStreamOnlyQuits` and
`MismatchOnlyOnReuse` say what remains true: such attempts fail, but never end in
a session that mixes old and new state, and the first connect is not affected. The stale
stream is used whatever the `ssl_mode` of the new connect, although `disable` is
documented as "Never use TLS" (`connection_params.hpp:29`).

Four statements are contradicted:

* `session_server_error`: after `fetch_all` with an error code "The resultset is guaranteed
  to be complete() after this call returns" (`resultset.hpp:138`). When the server ends the
  rows with an error, `complete()` stays false, as only the final OK packet sets
  `eof_received_`. Who fetches on waits for ever, although `fetch_one` is to return
  nullptr "if there are no more rows" (`resultset.hpp:104`). `StarvedOnlyAfterFailedEnd`
  says that nothing but this, or a final OK packet that does not deserialize, makes a call
  wait for ever.
* `times_out_of_range`: a time is "Guaranteed to be in range [boost::mysql::min_time and
  boost::mysql::max_time]" (`value.hpp:162`), which is 839 hours (`value.hpp:348`). A binary
  time has days and hours that are checked apart, so 34 days and 23:59:59 is let
  through (`constants.hpp:153`). Text times are at most 838:59:59.999999.
* `session_huge_row`: "Complete, meaning that all data has already been retrieved"
  (`resultset.hpp:41`). `process_read_message` takes a text row whose first value
  has 2^24 bytes or more for the final OK packet, as both start with 0xfe.
* `info_dangling`: `resultset::info()` may be used once the resultset is complete
  (`resultset.hpp:56`). `fetch_many` and `fetch_all` read the final OK packet into a
  local buffer (`impl/resultset.hpp:71`), the asynchronous ones into the buffer of the
  operation (`impl/resultset.hpp:197`), and `info` is a view of it. After `fetch_one`, and
  for a resultset without rows, the buffer is the resultset's own (`ViewsAreAlive`).

## Proofs

Each theorem holds for every value of the constants that meets the assumptions the
modules name: sizes and bounds are natural numbers; the frame size, the number of sequence
numbers and the counts of columns and of rows asked for are positive (`fetch_many(0)`
reads nothing); nonces differ from the two codes of `caching_sha2_password`; the empty
password is not among the non-empty ones; responses are of the grammar of the protocol.
Two theorems about the channel have one more hypothesis, given below. For each theorem
follow the invariant it needs and why; TLC checked each on a run's instance first.

### Channel

* `TypeCorrect`: the types, on which the others rest.
* `SequenceNumbersAgree`, `FramesInSequence`: client and server never refuse a frame, if
  no request is a positive multiple of the frame size (`NoExactRequests`;
  `StarvesOnlyAtExactMultiple` and the refusals that follow show why it is needed).
  `NoFalseMismatch` is not inductive: a step may only be safe because of the numbers
  of all frames in flight. `SeqAgreement` adds them: each request frame in flight
  continues the one before it or starts at 0 after one that ends a message
  (`RequestChain`), the first is the one the server waits for (`RequestHead`), the client
  goes on from the last (`WritingEnd`, `QuietEnd`, `AwaitingRequest`), and likewise for
  replies (`ReplyChain`, `AwaitingReply`). `FramesInSequence` is about `SeqAgreement`
  as the run checks it: it holds up to the first request that fills its last frame.
* `NobodyStarves`: whatever the sizes of the messages, both sides wait for frames only
  after a request that is a positive multiple of the frame size. Sequence numbers do not
  help here, as they may have gone wrong before. `Turns` follows whose turn it is
  until an operation fails or a frame is refused: either the end of the request is still
  on its way, or the server answers it, or the last reply is on its way (`RequestTurn`,
  `WaitingTurn`), and between requests there is nothing to answer (`QuietTurn`).
* `DeliversReliably`: every step of `Channel` is a step of
  `MessageChannel` or changes no log. The invariant `Faithful` gives each frame in
  flight its place, a message of the log and a number of frames before it, and says that
  the frames are those from where the reader is to where the writer is, with the
  number and the bytes of their place (`RequestsFaithful`, `RepliesFaithful`); what the
  reader has joined is the part of the message before its place. Frames that are out of
  step are covered, because the reader refuses them, with one exception: after a
  request of exactly `MaxPacket * SeqMod` bytes (4 GB less 256 in the code), or a
  multiple of that, the server waits for a closing frame with number 0, and takes the
  next request, which starts at 0, for the rest of this one. `NoRequestWraps` excludes
  these sizes; with frames of 2 bytes, numbers modulo 2 and a request of 4 bytes TLC finds
  `ReliableMessages` violated.

### Handshake

* `HandshakeProofs!TypeCorrect`, `PasswordStaysSecret`, `RequireIsHonoured`: for any
  peer, any set of passwords, nonces and announced capabilities. The invariant
  `Discretion` adds to the two properties that the plain password is only
  computed when TLS was negotiated (`PlaintextNeedsSsl`), that whoever negotiated
  it has the stream before anything secret is written (`SslBeforeCredentials`),
  that `require` implies negotiated TLS after the greeting (`RequireNegotiated`),
  and that nothing precedes the greeting (`NothingBeforeGreeting`).
* `SuccessIsUsable`: whatever the peer sends, a handshake that reports
  success leaves a channel a session can use. The invariant `Progress` says how much of
  the promise holds at each point of the handshake: what was negotiated after the
  greeting, TLS when the response is written, the response itself when replies are read.
* `OnlyTheAdmittedSucceed`, `TheRightPasswordIsEnough`: with a MySQL
  server of any account, default plug-in, cache and password. Both speak of the end
  only. The invariant `Dialogue` says for each pair of places of client and server what one
  of them has left for the other: the greeting (`Greeted`), the request for TLS (`Securing`),
  the response the client has computed from the server's plug-in and nonce and is about to
  write (`Answering`) or has written (`Judging`), and what the server has answered
  (`Judged`): an OK, perhaps after the code of the fast authentication, only to the
  right password; a refusal only to a wrong one; an auth switch, or the wish for the
  plain password, only when the account asks for it. `Over` is what is left at the end.

### Connection

* `SessionsAreFresh`, `StaleStreamIsNotWritten`, `FirstConnectMatches`, `TypeCorrect`:
  for any number of sessions. The invariant
  `Fresh` adds to the properties which operation a step belongs to (`StepsBelong`),
  that a new object has a fresh channel (`NothingBeforeSession`), that a greeting is
  never received over a stale stream, as the peer of that stream is gone
  (`OwnStreamAfterGreeting`), and that the first greeting has the expected number
  (`FirstGreetingMatches`). `SocketIsClosed` is an action property, from the same
  invariant.

### Command phase

* `SessionProofs!NothingIsLeft`, `MismatchMeansAbandoned`: for responses of any length,
  any number of requests and any way of fetching. The invariant `Order` says that, unless
  a response was given up or the connection lost, what is on its way to the client is
  the rest of the last response and the expected number goes on with it (`InFlight`),
  only the last request can still want an answer (`ServerQueue`), the operation waits for
  exactly the part of the response that comes next (`Waiting`, `DefinitionsNext`,
  `RowsNext`, `Fetching`), and a resultset is complete or failed exactly when nothing is
  left of its response (`ResultsetsKnow`). It needs `GrammarAssumption`.
* `MisreadMeansWrap`: also after responses were given up. `Rests` says that
  only one response can have its first message in the channel, that of the request
  in progress, and that all else is further on in its response; a first answer has
  number 1, so a message taken for it by mistake has a position of `SeqMod` + 1 or more.
  It holds until an operation ends with a mismatch, a lost connection or such a message.
* `TypeCorrect`: the types, on which all rest.
* `RowsArriveInOrder`, `FetchManyKeepsContract`, `OnlyFailedEndsStarve`:
  also when a response before was given up, so `Order` is of no use here. The invariant
  `Delivery` says that of the last response what is in the channel is its end
  (`LastRest`), that what a resultset and the call reading it have are rows of its own
  response, in order and none twice, all those before the place the reading has reached
  (`Handed`, `Fetched`), and that what an operation waits for is still to be sent or in
  the channel, perhaps behind an abandoned rest (`HeadExpected`,
  `DefinitionsExpected`, `Current`). The last part is why only an error of the server,
  or a final OK packet that does not deserialize, makes a call wait for ever; it needs that the server completes the responses the
  client will give up, too (`GrammarAssumption` for all `Responses`): a server that stopped
  there would starve the next operation.

### Memory

* `BuffersProofs!NoViewDangles`: for any number of objects, columns, rows and
  messages. `ViewsAreAlive` looks for the viewed contents in all the buffers there
  are, so a view may be alive by accident, through a buffer of another object that
  is dropped next. `Ownership` says that every view is of a buffer of the object it is
  in: a row of its own buffer, a column of the buffer kept with it, the row of
  `fetch_one` and the OK packet of the buffer of the resultset.

### Bytes

The operators of the codecs are folds (`Sum`, `FlattenSeq`, `FoldLeft`) and so are beyond
the induction theorems of the library, which take operators. `EncodingProofs` states
induction for sets of numbers (`SetInduction`, by a least counterexample) and folds by
the function that computes them: `FoldExists` and `FoldUnique` for any order of the
elements, `FoldSteps` from the first to the last. From there `SumPrefix` and
`SumGrows` are what a loop over parameters needs, and `FlattenSize` what a loop over
fields needs.

* `EncodingProofs!MessagesFillTheirBuffers`: `serialize_message` resizes the buffer to
  `get_size` and then writes with `memcpy`. Both go through the fields, one adding sizes
  and the other bytes; for every layout and all values that fit it they agree (`FieldSize`,
  `StructSize`), so the buffer is filled exactly.
* `EncodingProofs!MessagesReadBack`: `deserialize_message` makes of the bytes of
  `serialize_message`, after the number of the command, the same message and leaves nothing,
  for every layout, strings of any length and numbers of any width that holds them.
  Layouts are those with at most one `string_eof`, the last field, and strings that end
  at a zero hold none (`ReadableMessage`). `UnsignedReadsBack` is the agreement of
  `LittleEndian` with `Unsigned`: both divide and multiply by 256 byte by byte, and the
  proof goes with them, from one byte to the next (`Shifts`, `Above`), without powers of two.
* `ExecuteProofs!ExecuteMessagesFit`: that the buffer is filled exactly, for execute messages, whose code is written
  by hand and whose parts are written by different loops: for every list of
  parameters, of any length, with any strings. `ParamAssumption` says that a parameter is
  one of the alternatives of `value::variant_type`. The invariant `Layout` gives the position
  of every part: what is before it has been written, and the rest of the buffer is what
  the rest will need (`PositionsInBuffer`); `ValueSize` is the agreement of
  `size_visitor` with `serialize_binary_value` for every kind, `BitmapKeepsSize` that
  setting bits does not make the bitmap longer.
* `RowsProofs!TypesAgreeForAnyMessages`: nothing is assumed of the bytes. A user switches on
  `field_metadata::type()` and calls `value::get` for the documented kind; the type is
  computed from the protocol type and three flags, the value by another switch over the
  protocol type with the unsigned flag. The two agree for all types and flags. YEAR is left out: `value.hpp`
  documents it as `std::uint32_t` in one place (line 108), which no value holds, and as
  `std::uint64_t` in another (line 203).

* `RowsProofs!ValuesStayInRange`: `TypeOK` of `Rows`, whatever bytes arrive. A value the
  user gets is a day of the calendar up to the year 9999 or, in the text protocol, a time within its limit, a
  row never has more values than there are columns, and a failure is reported with
  the 16 bits of an error packet or a code of the client, at most `protocol_value_error`. All that is assumed (`ReplyAssumption`) is that messages
  are strings of bytes: columns, values and lengths in them, and how they are cut or
  extended, are free. Of times the
  theorem says that those of the text protocol stay below `max_time`, the 839 hours of
  `value.hpp:348`; `times_out_of_range` shows that those of the binary protocol do not.
  `TypeOK` is not inductive: that a
  deserializer returns a value in range needs a string of bytes and a column whose
  decimals are a number, and that there are at most `field_count` columns needs one to be
  missing when a definition is read. `Typed` adds that. Under it are a lemma for each
  deserializer (`DateInRange`, `TimeInRange`, `TextTimeInRange`, ...): it returns an error there
  is, or a value in range and a string of bytes to go on with. `ScanSteps` and
  `ItemScanned` do this for `sscanf`, which is a fold over its format, and `MessageIsRead`
  for the fields of any packet.

### Model-checked only

* The liveness properties (`OperationsComplete`, `RepliesArrive`, `HandshakeEnds`,
  `ClosingEnds`, `OperationsReturn`): fairness and ENABLED are beyond the prover.
* `Login`: its bytes are masked and combined with `Bitwise`, which the prover cannot load;
  with it `ImplementsHandshake`, `LoginIsUnderstood` and `RefusalIsReported`.
* `Rows` and `Execute`: that what one side writes the other reads (`RowIsWhatWasSent`,
  `ResponseIsWhatWasSent`, `ValuesReadBack`, `DamageIsNoticed`, `ServerGetsRequests`). For
  messages that are serialized field by field `MessagesReadBack` proves it; values in
  rows and parameters also take the digits of text against `sscanf`, numbers with a sign
  and the bits of floating-point numbers, and powers of two and ten are beyond the
  SMT solver's arithmetic.

## Not modelled

TLS itself and the hash functions, taken as ideal or as parameters; memory beyond
the ownership of buffers; the exponent notation of floating-point text, which `lexical_cast` reads too; 64-bit numbers beyond TLC's integers (the limits of the types are scaled to
31 bits, numbers of 32 bits keep their bits); equality of values and the printing of other
values than times; the table of error codes and their texts; overlapping operations
on one connection, whose results the documentation leaves undefined; concurrent use of
one `field_metadata`, whose type is cached in a mutable member; the asynchronous
prepare, which does not compile (`prepare_statement.hpp:138` calls a member that does not
exist).

## Plan

1. Done: the channel and its refinement, the handshake and its server, the
   connection life cycle, the command phase; the bytes of every message, in both
   directions; ownership of buffers; proofs for the channel, the handshake, the
   connection life cycle, the command phase and the buffers.
2. Done: proofs of the safety properties of the channel with its refinement, the
   handshake with its server, the connection life cycle, the command phase, the buffers.
3. Done: proofs about the data layer: sizes of messages, kinds of values.
4. Done: the ranges of values for whatever bytes arrive, with the bound on times that the
   code keeps, and messages read as they were written.
