------------------------------- MODULE Session -------------------------------
(***************************************************************************)
(* One Tn5250Session object (src/ibmi_mcp/tn5250/session.py) between the   *)
(* tool calls that use it and the 5250 host at the other end of the wire.  *)
(*                                                                         *)
(* A caller is one tool call: it runs session.connect(), send_aid() /      *)
(* send_attention() or disconnect().  FastMCP starts every request as a    *)
(* task of its own and the session has no lock, so two callers interleave  *)
(* at every await.  An action is what a coroutine does between two awaits. *)
(*                                                                         *)
(* The host's frames arrive whole or in two pieces, the head first; a tail *)
(* that arrives while its head is unread joins it.  Bytes are the subject  *)
(* of module Telnet, which says what a reader makes of a frame whose head  *)
(* it has lost; here a frame is its opcode, whether it carries a 5250      *)
(* query, and the kind of screen it draws.                                 *)
(***************************************************************************)
EXTENDS Integers, Sequences, FiniteSets, SessionCalls

CONSTANTS
    Callers,         \* the concurrent tool calls
    NoCaller,        \* "no coroutine sleeps in the StreamReader"
    HasCredentials,  \* username and password are both configured
    Ops,             \* the GDS opcodes the host uses
    MaxRequests,     \* bound: connect and keys sent on this session
    MaxFrames        \* bound: frames the host sends

ASSUME CallersFinite   == IsFiniteSet(Callers)
ASSUME NoCallerOutside == NoCaller \notin Callers
ASSUME BoundsNatural   == MaxRequests \in Nat /\ MaxFrames \in Nat
ASSUME CredentialsFlag == HasCredentials \in BOOLEAN

DrawOps   == {"OUTPUT_ONLY", "PUT_GET"}
InviteOps == {"INVITE", "READ_IMMEDIATE", "READ_SCREEN"}
Screens   == {"blank", "signon", "other"}

\* What a frame says.  Only a frame that carries 5250 commands draws or queries; it
\* draws a screen of some kind, perhaps the kind that was there, or has an order
\* the parser never gets past (StructuredField in HostWrite; query then says that a
\* query comes before it).  To a session without credentials no screen is a
\* sign-on screen.
Drawings == {"other", "endless"} \cup (IF HasCredentials THEN {"signon"} ELSE {})
Messages ==
    {m \in [op : Ops, query : BOOLEAN, draws : Drawings \cup {"none"}] :
        IF m.op \in DrawOps THEN m.draws # "none" ELSE m.draws = "none" /\ ~m.query}

\* What travels: a frame or a piece of one, a scrap when the piece was cut once
\* more.  answers is the number of the request it answers, 0 if it answers none.
Chunks == [part : {"whole", "head", "tail", "scrap"}, id : Nat, msg : Messages, answers : Nat]

VARIABLES
    \* the session object
    state, locked, pendingQuery, light, signedIn, timedOut, screen,
    \* the server's _session still refers to this object
    held,
    \* the callers: where each is suspended, for which method, its read_frame
    \* buffer (0 empty, n the head of frame n) and what its last call returned
    pc, call, buf, result,
    \* the connection: StreamReader's sleeping coroutine, bytes in the buffer,
    \* the tail the host has yet to send
    conn, reader, net, rest,
    \* the host: requests it has answered, whether it awaits a query reply
    hostAt, awaiting, frames,
    \* history, read by properties only: requests sent, last answer taken off
    \* the wire, calls that ended without an answer of their own, timeouts,
    \* whether a frame was read torn, the last answer when credentials were sent
    sent, answered, astray, expired, tore, credsAt

object  == <<state, locked, pendingQuery, light, signedIn, timedOut, screen>>
callers == <<pc, call, buf, result>>
wire    == <<conn, reader, net, rest>>
host    == <<hostAt, awaiting, frames>>
history == <<sent, answered, astray, expired, tore, credsAt>>
vars    == <<object, held, callers, wire, host, history>>

Init ==
    /\ state = "DISCONNECTED" /\ locked = TRUE /\ pendingQuery = FALSE
    /\ light = FALSE /\ signedIn = FALSE /\ timedOut = FALSE /\ screen = "blank"
    /\ held = FALSE
    /\ pc = [c \in Callers |-> "idle"] /\ call = [c \in Callers |-> "none"]
    /\ buf = [c \in Callers |-> 0] /\ result = [c \in Callers |-> "none"]
    /\ conn = "none" /\ reader = NoCaller /\ net = <<>> /\ rest = <<>>
    /\ hostAt = 0 /\ awaiting = FALSE /\ frames = 0
    /\ sent = 0 /\ answered = 0 /\ astray = 0 /\ expired = 0
    /\ tore = FALSE /\ credsAt = -1

-----------------------------------------------------------------------------
\* How a call ends, and the loop of _process_until_unlocked.

HasWriter == conn \in Writable
IsSignOnScreen(scr) == HasCredentials /\ ~signedIn /\ scr = "signon"

\* The call of c raises: an OSError is told apart because the server retries it.
\* A connect() that raises makes the server forget the session.
Raise(c, error) ==
    /\ pc' = [pc EXCEPT ![c] = "idle"]
    /\ call' = [call EXCEPT ![c] = "none"]
    /\ buf' = [buf EXCEPT ![c] = 0]
    /\ result' = [result EXCEPT ![c] = error]
    /\ held' = (held /\ call[c] = "key")

\* A mistake InitialScreenOnly must catch: any wait may end in a sign-on.
SignsOnAnytime(c, scr) == call[c] # "signon" /\ IsSignOnScreen(scr)

\* Only connect() looks for a sign-on screen, when its wait is over.
SignsOn(c, scr) == call[c] = "connect" /\ IsSignOnScreen(scr)

\* The loop of c was left, the keyboard unlocked and the timeout flag to; own
\* says that a frame of the host's unlocked it for c.  A connect() looking at a
\* sign-on screen types the credentials and sends Enter before anything else runs;
\* every other call returns.
Leave(c, to, scr, own) ==
    /\ screen' = scr /\ timedOut' = to
    /\ astray' = IF own THEN astray ELSE astray + 1
    /\ IF SignsOn(c, scr)
       THEN /\ locked' = TRUE /\ UNCHANGED signedIn
            /\ IF HasWriter
               THEN /\ pc' = [pc EXCEPT ![c] = "drain"]
                    /\ call' = [call EXCEPT ![c] = "signon"]
                    /\ buf' = [buf EXCEPT ![c] = 0]
                    /\ sent' = sent + 1 /\ credsAt' = answered'
                    /\ UNCHANGED <<result, held>>
               ELSE Raise(c, "error") /\ UNCHANGED <<sent, credsAt>>
       ELSE /\ locked' = FALSE
            /\ pc' = [pc EXCEPT ![c] = "idle"]
            /\ call' = [call EXCEPT ![c] = "none"]
            /\ buf' = [buf EXCEPT ![c] = 0]
            /\ result' = [result EXCEPT ![c] = IF to THEN "timeout" ELSE "screen"]
            /\ signedIn' = (signedIn \/ call[c] = "signon")
            /\ UNCHANGED <<held, sent, credsAt>>

\* The test at the top of the loop: read the next frame while locked.
LoopTop(c, lk, to, scr, own) ==
    IF lk
    THEN /\ pc' = [pc EXCEPT ![c] = "wait"]
         /\ buf' = [buf EXCEPT ![c] = 0]
         /\ locked' = TRUE /\ timedOut' = to /\ screen' = scr
         /\ UNCHANGED <<call, result, held, signedIn, sent, astray, credsAt>>
    ELSE Leave(c, to, scr, own)

-----------------------------------------------------------------------------
\* connect()

\* server.connect() makes the session and calls connect(): open_connection.
Connect(c) ==
    /\ pc[c] = "idle" /\ conn = "none"
    /\ pc' = [pc EXCEPT ![c] = "tcp"]
    /\ call' = [call EXCEPT ![c] = "connect"]
    /\ result' = [result EXCEPT ![c] = "none"]
    /\ conn' = "connecting" /\ held' = TRUE
    /\ UNCHANGED <<object, buf, reader, net, rest, host, history>>

\* The TCP (and TLS) connection is up; run_initial_negotiation() starts.
TcpUp(c) ==
    /\ pc[c] = "tcp"
    /\ pc' = [pc EXCEPT ![c] = "negotiate"]
    /\ conn' = "open" /\ state' = "NEGOTIATING" /\ sent' = sent + 1
    /\ UNCHANGED <<locked, pendingQuery, light, signedIn, timedOut, screen, held,
                   call, buf, result, reader, net, rest, host,
                   answered, astray, expired, tore, credsAt>>

TcpFails(c) ==
    /\ pc[c] = "tcp"
    /\ Raise(c, "oserror")
    /\ conn' = "failed"
    /\ UNCHANGED <<object, reader, net, rest, host, history>>

\* A byte of data ends the negotiation; it is pushed back for read_frame().
Negotiated(c) ==
    /\ pc[c] = "negotiate" /\ reader # c /\ net # <<>>
    /\ state' = "CONNECTED" /\ UNCHANGED answered
    /\ LoopTop(c, locked, FALSE, screen, FALSE)
    /\ UNCHANGED <<pendingQuery, light, wire, host, expired, tore>>

-----------------------------------------------------------------------------
\* send_aid(), send_attention()

\* Lock the keyboard and write the frame.  A session whose stream has no writer
\* (connecting, or closed) raises AttributeError with the keyboard locked.
SendKey(c) ==
    /\ pc[c] = "idle" /\ held /\ sent < MaxRequests
    /\ locked' = TRUE
    /\ IF HasWriter
       THEN /\ pc' = [pc EXCEPT ![c] = "drain"]
            /\ call' = [call EXCEPT ![c] = "key"]
            /\ result' = [result EXCEPT ![c] = "none"]
            /\ sent' = sent + 1
       ELSE /\ result' = [result EXCEPT ![c] = "error"]
            /\ UNCHANGED <<pc, call, sent>>
    /\ UNCHANGED <<state, pendingQuery, light, signedIn, timedOut, screen, held, buf,
                   wire, host, answered, astray, expired, tore, credsAt>>

\* The write is flushed, or the lost connection raises; then the loop starts.
Drain(c) ==
    /\ pc[c] = "drain" /\ UNCHANGED answered
    /\ IF conn \in {"open", "eof"}
       THEN LoopTop(c, locked, FALSE, screen, FALSE)
       ELSE /\ Raise(c, "oserror") /\ astray' = astray + 1
            /\ UNCHANGED <<locked, signedIn, timedOut, screen, sent, credsAt>>
    /\ UNCHANGED <<state, pendingQuery, light, wire, host, expired, tore>>

-----------------------------------------------------------------------------
\* read_frame() under wait_for, and _process_gds_frame()

Reading(c) == pc[c] \in {"negotiate", "wait", "parked"} /\ reader # c

\* Nothing buffered: sleep in the StreamReader, which has room for one sleeper
\* and raises RuntimeError for the second.
Park(c) ==
    /\ Reading(c) /\ net = <<>> /\ conn = "open"
    /\ IF reader = NoCaller
       THEN /\ reader' = c
            /\ pc' = [pc EXCEPT ![c] = IF @ = "wait" THEN "parked" ELSE @]
            /\ UNCHANGED <<call, buf, result, held, astray>>
       ELSE /\ Raise(c, "error") /\ astray' = astray + 1
            /\ UNCHANGED reader
    /\ UNCHANGED <<object, conn, net, rest, host, sent, answered, expired, tore, credsAt>>

\* The head of a frame goes to the local buffer of the coroutine that reads it.
ReadHead(c) ==
    /\ Reading(c) /\ pc[c] # "negotiate" /\ conn \in {"open", "eof", "closing"}
    /\ net # <<>> /\ Head(net).part = "head"
    /\ net' = Tail(net)
    /\ buf' = [buf EXCEPT ![c] = IF @ = 0 THEN Head(net).id ELSE -1]
    /\ UNCHANGED <<object, held, pc, call, result, conn, reader, rest, host, history>>

\* The bytes up to IAC EOR are a frame of the host's if the reader has the rest.
Intact(c, x) ==
    \/ x.part = "whole" /\ buf[c] = 0
    \/ x.part = "tail"  /\ buf[c] = x.id

\* Mistakes this handler could make, put in place of the definitions below to see
\* the properties fail: a query is overlooked, any drawing unlocks the keyboard,
\* a frame without commands is taken for a screen.
QueryOverlooked(m) == pendingQuery
UnlockedByDrawing(m) == locked /\ m.op \notin InviteOps \cup DrawOps
ScreenForgotten(m) == m.draws

\* _process_gds_frame(): the new keyboard lock, query flag, screen and light.
\* Bytes that are not a frame of the host's may say anything, or be too short to.
QueryAfter(m) == pendingQuery \/ m.query
LockAfter(m) ==
    /\ locked
    /\ m.op \notin InviteOps
    /\ m.op = "PUT_GET" => QueryAfter(m)
ScreenAfter(m) == IF m.draws = "none" THEN screen ELSE m.draws
LightAfter(m) == m.op = "MSG_LIGHT_ON" \/ (m.op # "MSG_LIGHT_OFF" /\ light)
Nothing == [op |-> "NO_OP", query |-> FALSE, draws |-> "none"]
Heard(c, x) == IF Intact(c, x) THEN {x.msg} ELSE Messages \cup {Nothing}

\* _parse_commands() does not return from an endless drawing, and does not await:
\* c is at "parsing" and nothing else ever runs.  Otherwise a pending query is
\* answered at once, whoever's it is; else the loop goes on.
Dispatch(c, m, own) ==
    /\ pendingQuery' = QueryAfter(m) /\ light' = LightAfter(m)
    /\ IF m.draws = "endless"
       THEN /\ pc' = [pc EXCEPT ![c] = "parsing"]
            /\ buf' = [buf EXCEPT ![c] = 0]
            /\ UNCHANGED <<locked, screen, awaiting, call, result, held, signedIn,
                           timedOut, sent, astray, credsAt>>
       ELSE IF QueryAfter(m)
       THEN /\ pc' = [pc EXCEPT ![c] = "reply"]
            /\ buf' = [buf EXCEPT ![c] = 0]
            /\ locked' = LockAfter(m) /\ screen' = ScreenAfter(m)
            /\ awaiting' = (awaiting /\ conn # "open")
            /\ UNCHANGED <<call, result, held, signedIn, timedOut, sent, astray, credsAt>>
       ELSE /\ LoopTop(c, LockAfter(m), timedOut, ScreenAfter(m), own)
            /\ UNCHANGED awaiting

ReadFrame(c) ==
    /\ Reading(c) /\ pc[c] # "negotiate" /\ conn \in {"open", "eof", "closing"}
    /\ net # <<>> /\ Head(net).part # "head"
    /\ net' = Tail(net)
    /\ answered' = IF Head(net).answers > answered THEN Head(net).answers ELSE answered
    /\ tore' = (tore \/ ~Intact(c, Head(net)))
    /\ \E m \in Heard(c, Head(net)) : Dispatch(c, m, locked /\ Intact(c, Head(net)))
    /\ UNCHANGED <<state, conn, reader, rest, hostAt, frames, expired>>

\* A reader that has lost the head of a frame is out of step (FrameChannel): it may
\* run on over the frame's end and into the frames behind it,
Swallow(c) ==
    /\ Reading(c) /\ pc[c] # "negotiate" /\ conn \in {"open", "eof", "closing"}
    /\ net # <<>> /\ Head(net).part # "head" /\ ~Intact(c, Head(net))
    /\ net' = Tail(net) /\ buf' = [buf EXCEPT ![c] = -1] /\ tore' = TRUE
    /\ answered' = IF Head(net).answers > answered THEN Head(net).answers ELSE answered
    /\ UNCHANGED <<object, held, pc, call, result, conn, reader, rest, host,
                   sent, astray, expired, credsAt>>

\* or, where the tear is, take half of an escaped IAC for the frame's end, and
\* the rest for another.
Split(c) ==
    /\ Reading(c) /\ pc[c] # "negotiate" /\ conn \in {"open", "eof", "closing"}
    /\ net # <<>> /\ Head(net).part = "tail" /\ buf[c] = 0
    /\ net' = [net EXCEPT ![1].part = "scrap"] /\ tore' = TRUE
    /\ UNCHANGED answered
    /\ \E m \in Messages \cup {Nothing} : Dispatch(c, m, FALSE)
    /\ UNCHANGED <<state, conn, reader, rest, hostAt, frames, expired>>

\* The query reply is flushed; the flag is cleared only now.
DrainReply(c) ==
    /\ pc[c] = "reply" /\ UNCHANGED answered
    /\ IF conn \in {"open", "eof"}
       THEN /\ pendingQuery' = FALSE
            /\ LoopTop(c, locked, timedOut, screen, FALSE)
       ELSE /\ Raise(c, "oserror") /\ astray' = astray + 1
            /\ UNCHANGED <<pendingQuery, locked, signedIn, timedOut, screen, sent, credsAt>>
    /\ UNCHANGED <<state, light, wire, host, expired, tore>>

\* Mistakes the timeout could make: its exception is not caught and leaves the
\* keyboard locked, or there is no wait_for around the read.
TimeoutUncaught(c) ==
    /\ pc[c] = "parked"
    /\ reader' = IF reader = c THEN NoCaller ELSE reader
    /\ expired' = expired + 1 /\ astray' = astray + 1
    /\ Raise(c, "error")
    /\ UNCHANGED <<object, conn, net, rest, host, sent, answered, tore, credsAt>>
TimeoutMissing(c) == FALSE

\* wait_for gives up: the read is cancelled, also when bytes have just arrived,
\* and what read_frame() had buffered is gone.  A connection lost with ETIMEDOUT
\* raises a TimeoutError too, from the read and from the reply to a query.
Timeout(c) ==
    /\ pc[c] = "parked" \/ (pc[c] \in {"wait", "reply"} /\ conn = "reset")
    /\ reader' = IF reader = c THEN NoCaller ELSE reader
    /\ expired' = expired + 1 /\ UNCHANGED answered
    /\ Leave(c, TRUE, screen, FALSE)
    /\ UNCHANGED <<state, pendingQuery, light, conn, net, rest, host, tore>>

\* A mistake CallsPromise must catch: every error of a read is taken for an OSError.
ReadFailsAlike(c) ==
    /\ Reading(c)
    /\ conn \in {"reset", "closed"} \/ (conn \in {"eof", "closing"} /\ net = <<>>)
    /\ Raise(c, "oserror")
    /\ astray' = astray + 1
    /\ UNCHANGED <<object, wire, host, sent, answered, expired, tore, credsAt>>

\* A reset raises ConnectionResetError (an OSError) at once, an end of file
\* IncompleteReadError (not one) when the buffer is empty.
ReadFails(c) ==
    /\ Reading(c)
    /\ conn \in {"reset", "closed"} \/ (conn \in {"eof", "closing"} /\ net = <<>>)
    /\ Raise(c, IF conn = "reset" THEN "oserror" ELSE "error")
    /\ astray' = astray + 1
    /\ UNCHANGED <<object, wire, host, sent, answered, expired, tore, credsAt>>

-----------------------------------------------------------------------------
\* disconnect()

Closed(c, res) ==
    /\ pc' = [pc EXCEPT ![c] = "idle"]
    /\ result' = [result EXCEPT ![c] = res]
    /\ UNCHANGED <<call, buf>>

\* Without a writer there is nothing to close; with one, close() ends the
\* readers and wait_closed() suspends, or raises when the peer reset.
Disconnect(c) ==
    /\ pc[c] = "idle" /\ held
    /\ \/ /\ ~HasWriter
          /\ Closed(c, "closed")
          /\ state' = "DISCONNECTED" /\ screen' = "blank" /\ held' = FALSE
          /\ UNCHANGED <<conn, reader>>
       \/ /\ conn = "reset"
          /\ Closed(c, "oserror")
          /\ UNCHANGED <<state, screen, held, conn, reader>>
       \/ /\ conn \in {"open", "eof", "closing"}
          /\ pc' = [pc EXCEPT ![c] = "closing"]
          /\ conn' = "closing" /\ reader' = NoCaller
          /\ UNCHANGED <<state, screen, held, call, buf, result>>
    /\ UNCHANGED <<locked, pendingQuery, light, signedIn, timedOut, net, rest, host, history>>

CloseDone(c) ==
    /\ pc[c] = "closing"
    /\ Closed(c, "closed")
    /\ conn' = "closed" /\ state' = "DISCONNECTED" /\ screen' = "blank" /\ held' = FALSE
    /\ UNCHANGED <<locked, pendingQuery, light, signedIn, timedOut, reader, net, rest,
                   host, history>>

-----------------------------------------------------------------------------
\* The host and the network

\* A frame that invites the operator to type: the host's answer to a request.
Inviting(m) == m.op \in InviteOps \/ (m.op = "PUT_GET" /\ ~m.query)

NewChunk(m, whole) ==
    [part |-> IF whole THEN "whole" ELSE "head", id |-> frames + 1,
     msg |-> m, answers |-> IF Inviting(m) THEN hostAt + 1 ELSE 0]

\* The host invites once per request it has received, and says nothing while it
\* awaits the reply to a query.  A frame leaves whole, or head first.
HostSends ==
    /\ conn = "open" /\ rest = <<>> /\ ~awaiting /\ frames < MaxFrames
    /\ \E m \in Messages, whole \in BOOLEAN :
        /\ Inviting(m) => hostAt < sent
        /\ net' = Append(net, NewChunk(m, whole))
        /\ rest' = IF whole THEN <<>> ELSE <<[NewChunk(m, whole) EXCEPT !.part = "tail"]>>
        /\ hostAt' = IF Inviting(m) THEN hostAt + 1 ELSE hostAt
        /\ awaiting' = m.query
    /\ frames' = frames + 1 /\ reader' = NoCaller
    /\ UNCHANGED <<object, held, callers, conn, history>>

\* A tail joins its head if that is still in the buffer.
HostSendsRest ==
    /\ conn = "open" /\ rest # <<>>
    /\ LET n == Len(net)
       IN  net' = IF n > 0 /\ net[n].part = "head"
                  THEN [net EXCEPT ![n] = [rest[1] EXCEPT !.part = "whole"]]
                  ELSE Append(net, rest[1])
    /\ rest' = <<>> /\ reader' = NoCaller
    /\ UNCHANGED <<object, held, callers, conn, host, history>>

PeerEof ==
    /\ conn = "open"
    /\ conn' = "eof" /\ rest' = <<>> /\ reader' = NoCaller
    /\ UNCHANGED <<object, held, callers, net, host, history>>

PeerReset ==
    /\ conn \in {"open", "eof"}
    /\ conn' = "reset" /\ net' = <<>> /\ rest' = <<>> /\ reader' = NoCaller
    /\ UNCHANGED <<object, held, callers, host, history>>

-----------------------------------------------------------------------------
\* While a parser loops no coroutine and no timer runs, and what the host does
\* reaches nobody.
Blocked == \E c \in Callers : pc[c] = "parsing"

\* What the event loop runs on its own once a call has started: resumed
\* coroutines and timers.
Progress(c) ==
    \/ TcpUp(c) \/ TcpFails(c) \/ Negotiated(c) \/ Drain(c)
    \/ Park(c) \/ ReadHead(c) \/ ReadFrame(c) \/ Swallow(c) \/ Split(c)
    \/ DrainReply(c) \/ Timeout(c) \/ ReadFails(c) \/ CloseDone(c)

Next ==
    /\ ~Blocked
    /\ \/ \E c \in Callers : Connect(c) \/ SendKey(c) \/ Disconnect(c) \/ Progress(c)
       \/ HostSends \/ HostSendsRest \/ PeerEof \/ PeerReset

Spec == Init /\ [][Next]_vars

\* The event loop runs what is ready and fires its timers; tool calls, the host
\* and the network owe nothing.
FairSpec == Spec /\ \A c \in Callers : WF_vars(~Blocked /\ Progress(c))

-----------------------------------------------------------------------------
\* Properties

Pcs     == {"idle", "tcp", "negotiate", "drain", "wait", "parked", "parsing", "reply",
            "closing"}
Calls   == {"none", "connect", "signon", "key"}
Results == {"none", "screen", "timeout", "error", "oserror", "closed"}

FlagsOK ==
    /\ locked \in BOOLEAN /\ pendingQuery \in BOOLEAN /\ light \in BOOLEAN
    /\ signedIn \in BOOLEAN /\ timedOut \in BOOLEAN /\ held \in BOOLEAN
    /\ awaiting \in BOOLEAN /\ tore \in BOOLEAN

DataOK ==
    /\ state \in {"DISCONNECTED", "NEGOTIATING", "CONNECTED"} /\ screen \in Screens
    /\ pc \in [Callers -> Pcs] /\ call \in [Callers -> Calls]
    /\ buf \in [Callers -> Int] /\ result \in [Callers -> Results]
    /\ conn \in {"none", "connecting", "failed", "open", "eof", "reset", "closing", "closed"}
    /\ reader \in Callers \cup {NoCaller}
    /\ net \in Seq(Chunks) /\ rest \in Seq(Chunks) /\ Len(rest) <= 1
    /\ hostAt \in Nat /\ frames \in Nat
    /\ sent \in Nat /\ answered \in Nat /\ astray \in Nat /\ expired \in Nat
    /\ credsAt \in Int

\* The type of every variable.
TypeOK == FlagsOK /\ DataOK

\* The calls between their request and their return.
BusyPcs == {"negotiate", "drain", "wait", "parked", "parsing", "reply"}
Busy == {c \in Callers : pc[c] \in BusyPcs}

\* How far the screen lags behind: every request the session has not seen
\* answered is one of a call in progress, or of a call that ended by a timeout,
\* an exception, a torn frame or somebody else's unlock.  So no answer ends two
\* calls, and of the host's own frames no other than an answer ends any
\* (_process_until_unlocked, _process_gds_frame).
LagBounded == sent - answered <= astray + Cardinality(Busy)

\* With one caller at a time, a call that returns a screen without a warning
\* returns the answer to its own key if nothing timed out before it, and each
\* earlier timeout puts it back by three answers at most: the late answer, and
\* the two scraps a cancelled read may make of one frame.
UpToDate ==
    \A c \in Callers : result[c] = "screen" => sent - answered <= 3 * expired

\* Host and session never wait for each other: when the host awaits the reply
\* to its query, the query is on its way, or was torn by a timeout, or is behind
\* an order that blocks the event loop.
NoMutualWait ==
    awaiting /\ conn = "open" /\ ~tore => net # <<>> \/ rest # <<>> \/ Blocked

\* A locked keyboard on a live connection always has a coroutine that will
\* unlock it, also when calls overlap and some of them fail; it is busy for ever
\* when the event loop is blocked.
SomeoneReads ==
    state = "CONNECTED" /\ conn = "open" /\ locked => Busy # {}

\* Once the negotiation is over a call ends, whatever host and network do, by an
\* answer, its timeout or an exception, unless a frame, of the host's or torn,
\* makes the parser loop: then the timeout does not come either, for this call or
\* any other (_process_until_unlocked(), parse_write_to_display()).
CallEnds ==
    \A c \in Callers :
        pc[c] \notin {"idle", "negotiate"} ~> pc[c] \in {"idle", "negotiate"} \/ Blocked

\* What the server relies on (module SessionCalls): however calls overlap, a key
\* that was written ends as the state of the connection allows, so that a lost
\* connection is an OSError unless the wait timed out or somebody closed it.
CallsPromise ==
    [][ \A c \in Callers :
          call[c] = "key" /\ pc[c] \in BusyPcs \ {"negotiate"} /\ pc'[c] = "idle" =>
            result'[c] \in KeyOutcomes(conn) ]_vars

\* test_auto_signon.py: credentials go "Only on the INITIAL screen after
\* connect": with one caller at a time, no screen that answers a key ever gets
\* them (connect(), _auto_signon()).
InitialScreenOnly == credsAt <= 1

\* What the code does not do.

\* server.py: send_key "Returns the updated screen after the host processes the
\* key": a call that returns a screen without a warning has read the answer to
\* the last request.
ScreenFollowsKey ==
    \A c \in Callers : result[c] = "screen" => answered = sent
=============================================================================
