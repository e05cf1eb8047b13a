# A verification model of ibmi-mcp

ibmi-mcp is an MCP server that gives an AI agent a 5250 terminal: tools that connect to an
IBM i over TN5250, read the screen, type, press keys, and transfer files over SFTP. This
directory holds TLA+ models of it, TLC configurations and proofs. Paths below are relative to
`src/src/ibmi_mcp/`.

## The system

| Component | Code | State | Operations |
|---|---|---|---|
| MCP tools | `server.py` | `_session`, `_last_connect`, `_transport` | connect, disconnect, read_screen, send_keys, send_key, set_cursor, upload_file, download_file |
| Session | `tn5250/session.py` | state, keyboard lock, pending query, message light, signed in, timed out | connect, disconnect, send_aid, send_attention, the wait for the host, auto sign-on |
| Telnet stream | `tn5250/stream.py` | reader, writer, one pushed back byte | connect, close, read_frame, write_frame |
| Negotiation | `tn5250/protocol.py` | none of its own | answers to DO/WILL/SB |
| Screen and fields | `tn5250/screen.py`, `field.py` | cells, format table, cursor | set_char, set_cursor, field lookup, set_modified |
| Data stream | `tn5250/commands.py` | the parser's address, pending field | Write To Display, Clear, Roll, the response |
| Local editing | `tn5250/session.py`, `server.py` | the screen | typing, Backspace, Delete, Field Exit, Home, End, Tab, Backtab |
| File transfer | `transfer/` | SSH connection, SFTP session, tunnel | connect, disconnect, upload, download, forward_local_port |

FastMCP runs every tool call as a task on one event loop. The tools share the session and the
transport through module variables without a lock, so that calls interleave wherever a coroutine
suspends: in `open_connection`, `drain`, `readexactly`, `wait_closed`, and in what asyncssh
awaits. Everything between two awaits is atomic. The session and the host exchange frames over
TCP; the host writes to the screen when the session parses a frame, the operator when a tool
edits, and the operator's changes reach the host with the next key.

What is hard here: overlapping calls on one session, a read that is cancelled by its timeout in the
middle of a frame, answers later than their timeout, a parser that may not return, lost connections at each await, globals that
another call has replaced meanwhile, and long sequences of edits and host writes on a format table
with several copies of "modified". What makes the components correct:

* session: an answer belongs to the key it answers, a locked keyboard is one that somebody will
  unlock, calls end as long as the parser returns, host and session do not wait for each other, credentials go to the first
  screen only;
* screen and editing: edits keep to their field, changes reach the host, the cursor stays on the
  display, every input field that starts there can be reached;
* tools: the session they answer from is the one they acted on, a reconnect goes to the right host
  and does not repeat a key on the session that has had it, no connection is lost;
* stream and negotiation: what is written is what is read, whatever the telnet commands between;
* transfer: a transfer is repeated only on a new connection, no connection or listener is lost.

`PROJECT.json` lists the hazards at their lines.

## The modules

| Module | Models |
|---|---|
| `Session` | one `Tn5250Session` with the tool calls that use it, the TCP connection and the host |
| `SessionCalls` | what a session promises the tools about a key: how the call may end |
| `Server` | the tools over `_session` and `_last_connect`, with several sessions |
| `FrameChannel` | what the stream promises the session: an abstract channel of frames |
| `Telnet` | `TelnetStream` and `TelnetNegotiator`, byte by byte; implements `FrameChannel` |
| `Transfer` | `SftpTransport` and `_ensure_transport()`, with the transfer tools and the tunnel |
| `Screen` | `ScreenBuffer` and `ScreenField` |
| `Editing` | what the operator does to the screen |
| `HostWrite` | what the host does to it, `parse_write_to_display` order by order |
| `Terminal` | the composition of the three with `build_response`, and its properties |
| `SessionMC`, `ServerMC`, `TelnetMC`, `TransferMC`, `TerminalMC` | symmetries, payloads, field formats, for TLC |
| `SessionProofs`, `ServerProofs`, `TransferProofs`, `TelnetProofs`, `TerminalProofs` | theorems about the module of that name |
| `SoloProofs` | theorems about `Session` when calls come one at a time |
| `DataFacts` | lemmas on numbers and sequences that `TelnetProofs` and `TerminalProofs` share |

Definitions whose comment calls them a mistake are no part of the model: each is a plausible bug
that a property must catch, in place of the definition it stands before.

How they fit together:

    Server ---- SessionCalls ---- Session ---- FrameChannel ---- Telnet
    (tools)      (promise)                     (abstract)        (bytes)
    Transfer                       Terminal = Screen + Editing + HostWrite
    (tools, SSH)                   (what a key sends, what a frame draws)

`Server` takes from `Session` only how a key may end, `KeyOutcomes` of `SessionCalls`; that
`Session` keeps to it is `CallsPromise`, checked and proved. `Session` takes from the stream that
frames come whole and in order until a read is cancelled, and that a cancelled read leaves at most
two scraps; that is `FrameChannel`, and that `Telnet` implements it is checked by the run `TelnetFrames`
and proved in `TelnetProofs`.

### Session

A caller is a tool call inside `connect()`, `send_key()` or `disconnect()`; `pc[c]` names the
await it is suspended at:

| `pc` | suspended in | left by |
|---|---|---|
| `tcp` | `asyncio.open_connection` | `TcpUp`, `TcpFails` |
| `negotiate` | `run_initial_negotiation` | `Negotiated`, `ReadFails` |
| `drain` | `write_raw` of a key | `Drain` |
| `wait` | about to run `read_frame` under `wait_for` | `ReadFrame`, `ReadHead`, `Swallow`, `Split`, `Park`, `ReadFails` |
| `parked` | `readexactly`, the timer running | the same, and `Timeout` |
| `parsing` | nothing: the parser loops in `_parse_commands()` | nothing |
| `reply` | `write_raw` of the query reply | `DrainReply`, `Timeout` |
| `closing` | `wait_closed` | `CloseDone` |

`LoopTop` is the `while` of `_process_until_unlocked`, `Leave` what follows it, the automatic
sign-on of `connect()` included, `Dispatch` one round with `_process_gds_frame` and
`_parse_commands`. `reader` is the one coroutine a `StreamReader` lets sleep; the second gets
`RuntimeError`, as in `Park`. A frame is its opcode, whether it carries a 5250 query and what
it draws: another screen, a sign-on screen (told apart only where credentials are configured, for only
then does the code look for it), or "endless", a Write To Display Structured Field on which the parser
loops (see `StructuredField` below). The parser does not await, so after that frame the event loop
runs nothing, not even the timer of `wait_for`: `Blocked`, which disables every action of callers, network and
host. A frame may arrive in two pieces; `buf[c]` is what the local buffer of
`read_frame` holds, lost when the timeout cancels it. A tail that is read without its head may
be any frame or none (`Heard`), run on into the next frame (`Swallow`), or be cut once more inside
an escaped IAC (`Split`). `Timeout` is also what a connection lost with ETIMEDOUT comes to, which
Python raises as a `TimeoutError`. The variables from `sent` on are history that no action tests.

The host is external. It invites the operator at most once for each request it has received, and
is silent while it waits for a query reply. It may draw at any time, stop, close or reset.
`OP_READ_SCREEN` and `OP_READ_IMMEDIATE` only unlock the keyboard, as in the code.

### Telnet and FrameChannel

`mode` and `pos` say where the one reading coroutine is: in `run_initial_negotiation()` or
`read_frame()`, expecting data, the byte behind an IAC, an option, or the bytes of a subnegotiation
(`_read_subnegotiation()`). Each action reads one byte. `EndNegotiation` pushes the first byte of
data back; `Take` gives it out again before anything on the wire. `CancelRead` is `wait_for`
cancelling at any await: the local buffers and the place within the frame are gone, the bytes
behind it are not. The host encodes frames as `write_frame()` does (`Encoded`), puts telnet
commands between and within them, and is otherwise free. Its commands are those RFC 854 and 855 allow
(`IsCommand`): an option of three bytes, a subnegotiation whose content has each IAC doubled, or another
command of two bytes; option 255, which would be an IAC, is left out. A byte is named for what it means as a
command; each may be data too. BIN stands for BINARY and END-OF-RECORD, treated alike.

`FrameChannel` has neither bytes nor telnet commands: `Read` returns the peer's next frame,
`Cancel` tears the reader off, and from there `Scrap` may return anything, twice for each cancelled
read at most, and `Pass` passes over frames, until a frame's end has been found. The refinement maps
the frames and the history variables by name and `scraps` to `2 * cancels - scraps`.

### Server

`session` and `last` are the globals; sessions are numbered as they are made, `target` is the host
of each and `conn` its connection. `pc` is again the await: `closing` (the old session, in
`connect()`), `tunnel` (`_ensure_transport` and `forward_local_port`), `tcp`, `up` (the session's
negotiation and first screen), `sending` (a key's round trip), `ending` (`disconnect()`).
`Proceed` is `connect()` from where the old session is closed, shared with `_reconnect_session()`,
and `Respond` is `_screen_response()` of whichever session is current by then, the source of most
of the hazards here. `Look` stands for the tools that do no I/O. `KeyAnswered` and `Reconnect` draw
the outcome of a key from `KeyOutcomes`. The network may end or reset a connection between any two steps.

Two history variables bound what the properties claim. `collided` is set when a call connects,
disconnects or reconnects while another is in progress; the globals have no lock, the code then does lose
connections and show other sessions' screens, and `NoLeak`, `ScreenIsOwn` and `SameHost` are claimed
for all other executions, which may still overlap keys. They say nothing of the clashes themselves, and
the hazards that consist in a clash (`server.py:262`, for one) list no such property for them. `abandoned` holds the sessions whose
`connect()` failed after TCP was up: `server.py` forgets them without closing. `Recoverable`
and `KeyOncePerSession` make no such exception.

### Transfer

Transports, SSH connections and listeners are numbered as they are made. `link`, `sftp` and
`listener` are the transport's `_conn`, `_sftp` (the connection it runs on) and
`_tunnel_listener`. Awaits: `ssh` (`asyncssh.connect`), `sftp` (`start_sftp_client`), `put` (`put`
or `get`), `closing` (`wait_closed` in `_reconnect()`), `forward`. `UseConnected` and
`MakeTransport` are the two ways through `_ensure_transport()`; `UseTransport` is the tool with what
it returns, the global as it is then. `PutFailures` says which exceptions a transfer may end with, given
the connection: `Reconnect` follows an OSError that `_is_connection_error()` knows, on the first attempt only.
`Dismantle` is `disconnect()` up to its await. `Closed(k)` resumes all calls that wait for one
connection in one step: their `wait_closed()` futures are done at the same moment and the event loop runs them
before any further I/O. A connection is "bare" until an SFTP session runs on it, and "closing"
between `close()` and the event that ends `wait_closed()`, during which asyncssh's connection still
has its transport and `is_connected` still holds if the SFTP session does.

`collided` is set as in `Server`, and when two calls ask for a listener at once; `SoundTransport`, `NoLeak` and
`Paired` say nothing of executions with such a clash, `RetryIsRenewed` holds in them too. `unstarted` holds the connections
on which `start_sftp_client()` failed: they stay open and nothing refers to them once the next
`_ensure_transport()` has replaced the transport.

### Screen, Editing, HostWrite, Terminal

Cells are addresses `row * Cols + col`. A field is its address and length and what the code asks of
its format words: whether it takes input, monocase, the MDT bit, and the separate attribute
`modified`. The host may define fields anywhere, overlapping or twice. `HostWrite` has one action
per order of Write To Display and per command; `EndWrite` may come after any order, since a data
stream may end there. Between `BeginWrite` and `EndWrite` nothing else moves, because the parser
does not await. `StructuredField` is the order that `parse_write_to_display()` does not parse: it moves on
by the byte behind the order (`commands.py:207-211`), which is the high byte of a two-byte length and
0 for any length below 256, so that it reads the same order for ever (`looping`, which disables everything).

`set_cursor()` clamps the address it is given to the display (`Clamped`), so a field whose attribute is in the
last cell starts where the cursor never gets: `AfterTab` and `AfterBacktab` say where the cursor ends
up, and `Tab`, `Backtab` and `TabRing` all use them. Two history variables serve the properties: `dirty`, the cells the operator changed
since the host last wrote or was sent them, and `stray`, those typed outside the field at the cursor.

## The runs

Passing runs:

| Run | Question | Properties |
|---|---|---|
| `SessionOne` | one call at a time, with credentials | `TypeOK`, `UpToDate`, `NoMutualWait`, `InitialScreenOnly`, `CallEnds` |
| `SessionTwo` | two overlapping calls | `LagBounded`, `SomeoneReads`, `CallsPromise` |
| `TelnetFrames` | frames full of protocol bytes, commands, cancelled reads | `TypeOK`, `NothingLost`, `AnswersInOrder`, `ChannelSpec` |
| `ServerTwo` | two overlapping tool calls, two hosts, a tunnel | `TypeOK`, `Recoverable`, `KeyOncePerSession`, `NoLeak`, `ScreenIsOwn`, `SameHost` |
| `TransferTwo` | two overlapping transfers or tunnels | `TypeOK`, `RetryIsRenewed`, `SoundTransport`, `NoLeak`, `Paired` |
| `TerminalEdit` | one field on two rows, all edits and orders | `TypeOK`, `FieldsSettled`, `EditsStayInField`, `EditsAreExact` |
| `TerminalReach` | two fields, also overlapping | `EditsReachHost` |
| `TerminalTab` | three one-cell fields | `TabRing` |

`UpToDate` says how much a timeout costs: the screen a later call returns is behind by three answers
at most for each, the late one and the two scraps of the frame the cancelled read tore. `LagBounded`
is its form for overlapping calls: answers may be lost, but each loss is accounted for by a call that
timed out, failed, read a torn frame or was unlocked by another, and no frame that is not an answer
ends a call. `InitialScreenOnly` holds for one caller at a time only: a key that overlaps with
`connect()` can bring a later sign-on screen before its wait is over.

`KeyOncePerSession` is what keeps a repeated key from being entered twice on one host session, also
when other calls replace the session meanwhile. `SameHost` ties `_last_connect` to the session held: it is
written when a connect succeeds and used when a much later key fails. `Paired` is what
`is_connected` relies on, which looks at the connection and the SFTP session separately.

`CallEnds` and `NoMutualWait` are claimed except when `Blocked`. The exception is the code's, not the
model's: a host that sends one Write To Display Structured Field of the usual length stops the event loop
and with it every timeout, so "a call ends whatever the host does" is false of this code. What the two
properties say is that no opcode, query, torn frame, silence or loss besides has that effect.

`TabRing` holds on screens whose input fields start on the display and were defined in screen order. On others
Tab, which searches in definition order, may leave input fields out for ever; and it sticks before a field that
starts behind the last cell: the clamped cursor stays on the last cell, where the next Tab finds the same field again.

`AnswersInOrder` needs two telnet commands that are answered differently, both owed at once: with
them a negotiator that sends a later answer first breaks it. `EditsStayInField` is about the
field that holds the cursor whether or not it takes input: the code lets the operator edit
output-only fields, and then reports them to the host. Text that runs over a field's end is
typed outside of it, is not reported, and is left out of `EditsReachHost`.

Runs that end in a violation, each of a sentence in the repository (quoted under "findings"):

| Run | Property | What happens |
|---|---|---|
| `SessionLate` | `ScreenFollowsKey` | a key times out, the next one returns the late answer without a warning |
| `ServerReset` | `ConnectAnswers` | after a reset `connect()` raises from closing the old session, each time |
| `TransferLost` | `LostIsRetried` | a `ConnectionLost` passes the `except` that is to retry it |
| `TerminalReset` | `UnmodifiedNotReported` | the reset bit clears `modified` but not MDT |

### Bounds

* `Session`: `MaxRequests` (connect and keys, the sign-on's Enter not counted against it) and
  `MaxFrames`. Three requests are enough for a key to time out, the next to read the late answer and
  the third to read one later still; three frames, for a query, a torn frame and an answer.
* Callers: two are all that `Session` and the globals tell apart, one at work and one that interferes;
  a `StreamReader` lets one sleep and any other gets the exception. The theorems hold for any number.
* `Telnet`: three frames, two telnet commands (of any kind, a subnegotiation with an escaped IAC among
  them), four of both together (`MaxSent`: three frames with one command, or two with two),
  two cancelled reads: two answers can be owed at once, and a reader torn off in the first frame can run over
  the end of the second, be torn off again and find its place in the third.
* `Server`: three sessions, the one lost, the one that replaces it, and one that another call makes
  meanwhile. A call begins only while every call in progress may still make one (`RoomForCall`).
* `Transfer`: three transports and three connections, for the same reason; two listeners, the old and the new.
* `Terminal`: `MaxOrders` bounds one write, but writes follow one another without a bound and
  keep the fields of those before, so that two fields and their ends are reached by several writes.
  Displays of 2 x 2 and 1 x 3 cells have a row's end inside a field, a field's end on the display's
  end, and cells outside of every field.

Deadlock is checked in `Server` and `Terminal`. `Session`, `Telnet` and `Transfer` stop when their
bounds are used up, so that there it is not.

### Fairness

`FairSpec` of `Session` asks of each caller only that its own next step is taken (`Progress`): the
event loop resumes what is ready, fires the timer of `wait_for`, and TCP either connects or fails.
Nothing is asked of host, network or the agent, and nothing of the event loop while a parser loops (`~Blocked`
in the fairness, and in every action). `CallEnds` then rests on the timeout, and on two
assumptions the bounds contain: the host sends finitely many frames (each starts the timer again), and
the write buffer stays below its limit so that `drain()` returns. It is stated past the negotiation,
which reads without a timeout. No liveness is stated of `Server` or `Transfer`: what a call there
waits for is `Session`'s, or an SSH operation for which the code has no timeout.

## What is proved

All for any values of the constants, from the named assumptions of the modules. The theorems are
`Spec => []Inv`, by an invariant that holds initially and that every step keeps with one step of the
proof per action; action properties and the refinement follow from such an invariant.

`SessionProofs`:

* `TypeCorrect`: `TypeOK` is inductive; `FlagsStep` treats the Boolean variables, `DataStep` the others.
* `LagTheorem`: `LagBounded` is not inductive: that taking an answer off the wire raises `answered`
  holds because answers are on the wire in the order of the requests and newer than those read
  (`InOrder`), and that a frame which unlocks the keyboard is an answer because the host marks its
  invitations (`Marked`). `LagStep` bounds what each action does to the slack
  `astray + Cardinality(Busy) - sent`.
* `ReadsTheorem`: `SomeoneReads`, with `Places`: one caller at most opens the connection, none waits for its
  closing before it is closed, and the `StreamReader`'s sleeper is in the middle of a read.
* `NoMutualWaitTheorem`: `QueryOnItsWay` strengthens it: as long as no frame was torn and no parser
  loops, the query whose reply the host awaits is the last thing in the buffer, or its tail is with the host.
* `PromiseTheorem`: `CallsPromise`, an action property, with `Linked`: a call past its TCP connect has a
  connection that was made.

`ServerProofs`:

* `TypeTheorem`: `TypeOK` with `Placed`: a call that waits for the tunnel knows its host, one that waits
  otherwise its session.
* `RecoverableTheorem`: what a step may do to `_session` (`SessionStep`) leaves it known how to connect.
* `KeyOnceTheorem`: `Renewed` carries that the session a reconnecting call works on is newer than the one
  it began with through the awaits of the reconnect.
* `NoLeakTheorem`: `Orderly`, without a clash the calls in progress together all wait for the answer to a
  key, each on the session the server holds.
* `SameHostTheorem`: `Aimed`, a call that connects has made its session for the host it was to connect to;
  with `Orderly`, so has the session held for the one in `_last_connect`.
* `ScreenTheorem`: `ScreenIsOwn`, with `Begun`: a call that has not reconnected connects for connect() only and
  works on the session it began with or made; with `Renewed` and `Orderly`.

`TransferProofs`:

* `TypeTheorem`: `TypeOK`, by the one form every step of a call has, `Moves`: a new await, answer, connection,
  transport, attempt.
* `RenewedTheorem`: `RetryIsRenewed`, with `Renewed`: a second attempt that has an SSH connection again,
  though not yet an SFTP session, has one newer than the first attempt's.
* `SoundTheorem`, `NoLeakTheorem`, `PairedTheorem`: `SoundTransport`, `NoLeak` and `Paired`, all by `Steady`,
  which says what holds without a clash: the calls in progress work on the current transport, one that
  connects is alone and the transport it opens is empty, one at most asks for a listener (`Order`); a live
  connection and an open listener are the current transport's, which has an SFTP session or is about to
  have one (`Stock`).

`SoloProofs`, for a client that waits for each answer. That the callers are one is the hypothesis
`OneCaller` of both theorems, since with overlapping calls neither property holds:

* `CredentialsTheorem`: `InitialScreenOnly`, with `Alone`, which says what goes with each await of the
  only caller, and `Once`, that it connects once.
* `UpToDateTheorem`: `UpToDate` bounds the lag of a screen by three answers for each timeout, and is far from
  inductive: the lag a call ends with was built up by calls before it. `Counted` balances it: the answers
  that are behind, but for the one to the request in progress (`Lead`), and the screens that a torn frame
  may still be taken for (`Torn`) are together three for each timeout at most. `Stream` says what the wire
  may hold while a frame is read in pieces.

`TelnetProofs`, for any payloads and telnet commands and any number of frames and cancelled reads:

* The invariant `Followed` sets a second parser beside the reader: the host's own, which reads the bytes
  the reader reads but is never cancelled, so that it is always in step with the frames (`Parses`,
  `Reaches`). What is on the wire takes it to all frames and answers of the host; `ReachPayload`,
  `ReachAnswer` and `ReachWithin` prove this of what the host adds: an encoded frame of any length, a command
  of any kind, a frame with a command at any place.
* A reader that is not torn off is where that parser is (`Matches`, `Together`). One that is may still
  return two scraps, or one where it can no longer take the end of a frame for one that is not there
  (`Harmless`); `TornStep` shows that each end it finds uses one up. That is the bound
  `scraps + Weight <= 2 * cancels`, which `FrameChannel` relies on and no state of `Telnet` alone shows.
* From it: `TypeTheorem`, `NothingLostTheorem`, `AnswersTheorem`, and `ChannelTheorem`, that `Telnet`
  implements `FrameChannel`: each step is a step of it or changes nothing there.

`TerminalProofs`, for a display of any size, any texts and field formats and writes of any length:

* `TypeTheorem`: `TypeOK`; the cursor and the parser's address stay on the display, which needs that products
  and quotients of addresses do (`DataFacts`).
* `SettledTheorem`: `FieldsSettled`, with `Settling`: within a write only the pending field may still lack its length.
* `ReachTheorem`: `EditsReachHost`, over every way an edit marks its field.
* `StayTheorem`, `ExactTheorem`: the action properties `EditsStayInField` and `EditsAreExact`.
* `TabTheorem`: `TabRing`. The cursor, clamped as `set_cursor()` clamps it, visits every input field:
  from one it goes to the next, from the last to the first, and the iteration leaves none out. `TabMoves`
  ties the iteration to the actions: every step of `Tab` or `Backtab` puts the cursor, wherever it is, on `AfterTab`
  or `AfterBacktab` of its place. `DataFacts` proves induction and the iteration
  of a function in a form stated with sets, which the provers can use.

Only model-checked: `CallEnds`, for liveness and ENABLED are beyond this prover. All other properties of the
passing runs are theorems.

## What is not modelled, and the plan

Not modelled on purpose: EBCDIC tables (a call of Python's codec), the wording of results,
configuration, entry points, the contents of TERMINAL-TYPE and NEW-ENVIRON, of files and their
sizes. `attrs` and `modified_positions` are written and never read; `set_field_value` and
`get_field_at` have no caller. `OP_SAVE_SCREEN` and `OP_RESTORE_SCREEN` do nothing in the code.
Rolling down does nothing. Negative addresses, which a Set Buffer Address with a zero would give,
are left out: such an order is not a legal one. When a key is both repeated and times out, the
reconnect warning stands in place of the timeout warning; `Server` has the one, `Session` the other.
The cancellation of a tool call by the MCP client is not modelled: FastMCP then cancels the task at its await, and nothing
in `src/` handles or tests that. As far as the code goes, the frame read so far is lost as after a timeout, but the
keyboard stays locked and nobody reads until the next key, which locks it and reads anew; `SomeoneReads` is
claimed of calls that are left to end by themselves.

A full write buffer, and a character the code page lacks, are hazards of PROJECT.json that no model reaches.

Planned:

* `Dialogue`: an abstract specification of requests and answers that `Session` with one caller
  implements, a late answer for each timeout, with the refinement as a theorem from `SoloProofs`.
