-------------------------------- MODULE Server --------------------------------
(***************************************************************************)
(* The MCP tools (server.py): connect(), disconnect(), send_key() with its *)
(* reconnect and retry, and the tools that only look at the screen, over   *)
(* the globals _session and _last_connect.                                 *)
(*                                                                         *)
(* Tool calls run as tasks of one event loop and the globals have no lock:  *)
(* an action is what a call does between two awaits.  Sessions are numbered *)
(* in the order they are made; what happens within one is module Session's  *)
(* subject and enters here as the promise of module SessionCalls.          *)
(***************************************************************************)
EXTENDS Integers, FiniteSets, Sequences, SessionCalls

CONSTANTS
    Callers,     \* the concurrent tool calls
    Hosts,       \* the hosts a call can name
    NoHost,      \* the empty host argument, and an unset IBMI_HOST
    ConfigHost,  \* the host of the configuration
    Tunnel,      \* IBMI_SSH_TUNNEL is set
    MaxSessions  \* bound: sessions made

ASSUME CallersFinite   == IsFiniteSet(Callers)
ASSUME TunnelFlag      == Tunnel \in BOOLEAN
ASSUME SessionsNatural == MaxSessions \in Nat

None == 0
NeverConnected == "never"

ASSUME HostsType ==
    /\ NoHost \notin Hosts /\ ConfigHost \in Hosts \cup {NoHost}
    /\ NeverConnected \notin Hosts \cup {NoHost}

VARIABLES
    \* _session (None or a session), _last_connect (NeverConnected or its host)
    session, last,
    \* the sessions made so far: the host of each and its connection
    target, conn,
    \* the calls: the await each is suspended in, its tool, its host argument, the
    \* session it works on, whether it has reconnected, its answer
    pc, op, want, sess, reconnected, result,
    \* history, read by properties only: the session a call began with, the one
    \* whose screen it returned, sessions whose connect() failed, whether calls
    \* clashed
    first, shown, abandoned, collided

globals  == <<session, last>>
sessions == <<target, conn>>
calls    == <<pc, op, want, sess, reconnected, result>>
history  == <<first, shown, abandoned, collided>>
vars     == <<globals, sessions, calls, history>>

Init ==
    /\ session = None /\ last = NeverConnected
    /\ target = <<>> /\ conn = <<>>
    /\ pc = [c \in Callers |-> "idle"] /\ op = [c \in Callers |-> "none"]
    /\ want = [c \in Callers |-> NoHost] /\ sess = [c \in Callers |-> None]
    /\ reconnected = [c \in Callers |-> FALSE] /\ result = [c \in Callers |-> "none"]
    /\ first = [c \in Callers |-> None] /\ shown = [c \in Callers |-> None]
    /\ abandoned = {} /\ collided = FALSE

-----------------------------------------------------------------------------
\* What calls share.

made == Len(target)
Sessions == 1..made
Suspended == {c \in Callers : pc[c] # "idle"}
HasWriter(s) == s # None /\ conn[s] \in Writable
Resolved(h) == IF h = NoHost THEN ConfigHost ELSE h

\* Every call in progress may yet make a session.
RoomForCall == made + Cardinality(Suspended) < MaxSessions

\* c connects or disconnects while another call is in progress.
NoteClash(c) == collided' = (collided \/ Suspended \ {c} # {})

\* The call of c ends with r, having shown the screen of s if it shows one.
Return(c, r, s) ==
    /\ pc' = [pc EXCEPT ![c] = "idle"]
    /\ result' = [result EXCEPT ![c] = r]
    /\ shown' = [shown EXCEPT ![c] = s]

\* The call of c is suspended in the await at, without an answer yet.
Suspend(c, at) ==
    /\ pc' = [pc EXCEPT ![c] = at]
    /\ result' = [result EXCEPT ![c] = "none"]
    /\ shown' = [shown EXCEPT ![c] = None]

\* A mistake TypeOK must catch: that there may be no session is overlooked.
RespondUnchecked(c) ==
    Return(c, IF reconnected[c] THEN "warned" ELSE "screen", session)

\* A mistake ScreenIsOwn must catch: a reconnect is not reported.
RespondUnwarned(c) ==
    IF session = None THEN Return(c, "raised", None) ELSE Return(c, "screen", session)

\* _screen_response(): of the session that is current now; without one it raises.
Respond(c) ==
    IF session = None
    THEN Return(c, "raised", None)
    ELSE Return(c, IF reconnected[c] THEN "warned" ELSE "screen", session)

\* A new session replaces the old one and starts to connect to host h; conns are
\* the connections by then.
MakeSession(c, h, conns) ==
    /\ session' = made + 1
    /\ target' = Append(target, h)
    /\ conn' = Append(conns, "none")
    /\ sess' = [sess EXCEPT ![c] = made + 1]
    /\ first' = IF op'[c] = "connect" THEN [first EXCEPT ![c] = made + 1] ELSE first
    /\ Suspend(c, "tcp")

\* connect() from where the old session is closed, when _session is current and
\* the connections are conns: to a host given or configured, through the tunnel
\* if there is one.
Proceed(c, h, current, conns) ==
    IF Resolved(h) # NoHost /\ ~Tunnel
    THEN MakeSession(c, Resolved(h), conns)
    ELSE /\ IF Tunnel /\ Resolved(h) # NoHost
            THEN Suspend(c, "tunnel")
            ELSE Return(c, "error", None)
         /\ session' = current /\ conn' = conns
         /\ UNCHANGED <<target, sess, first>>

-----------------------------------------------------------------------------
\* connect()

\* A mistake NoLeak must catch: the old session is not disconnected.
ConnectUnclosed(c, h) ==
    /\ pc[c] = "idle" /\ RoomForCall
    /\ op' = [op EXCEPT ![c] = "connect"] /\ want' = [want EXCEPT ![c] = h]
    /\ reconnected' = [reconnected EXCEPT ![c] = FALSE]
    /\ Proceed(c, h, session, conn) /\ UNCHANGED <<last, abandoned>> /\ NoteClash(c)

\* A session that is not disconnected is closed first; after a reset
\* wait_closed() raises and connect() with it.
Connect(c, h) ==
    /\ pc[c] = "idle" /\ RoomForCall
    /\ op' = [op EXCEPT ![c] = "connect"] /\ want' = [want EXCEPT ![c] = h]
    /\ reconnected' = [reconnected EXCEPT ![c] = FALSE]
    /\ IF HasWriter(session)
       THEN /\ UNCHANGED <<session, target, first>>
            /\ IF conn[session] = "reset"
               THEN Return(c, "raised", None) /\ UNCHANGED <<sess, conn>>
               ELSE /\ Suspend(c, "closing")
                    /\ conn' = [conn EXCEPT ![session] = "closing"]
                    /\ sess' = [sess EXCEPT ![c] = session]
       ELSE Proceed(c, h, session, conn)
    /\ NoteClash(c) /\ UNCHANGED <<last, abandoned>>

Closed(c) ==
    /\ pc[c] = "closing"
    /\ UNCHANGED <<last, op, want, reconnected, abandoned, collided>>
    /\ Proceed(c, want[c], session, [conn EXCEPT ![sess[c]] = "closed"])

TunnelUp(c) ==
    /\ pc[c] = "tunnel"
    /\ UNCHANGED <<last, op, want, reconnected, abandoned, collided>>
    /\ MakeSession(c, Resolved(want[c]), conn)

\* The tunnel, or the SSH connection under it, fails: an error, and _session stays.
TunnelFails(c) ==
    /\ pc[c] = "tunnel"
    /\ Return(c, "error", None)
    /\ UNCHANGED <<globals, sessions, op, want, sess, reconnected, first,
                   abandoned, collided>>

TcpUp(c) ==
    /\ pc[c] = "tcp"
    /\ conn' = [conn EXCEPT ![sess[c]] = "open"]
    /\ Suspend(c, "up")
    /\ UNCHANGED <<globals, target, op, want, sess, reconnected, first,
                   abandoned, collided>>

\* session.connect() raises: _session is forgotten, whichever it is by now, and
\* the connection is not closed.
ConnectFails(c) ==
    /\ pc[c] \in {"tcp", "up"}
    /\ session' = None
    /\ abandoned' = abandoned \cup {sess[c]}
    /\ Return(c, "error", None)
    /\ UNCHANGED <<last, sessions, op, want, sess, reconnected, first, collided>>

\* The key is written to the session that is current; one without a writer raises.
SendOn(c, s) ==
    /\ sess' = [sess EXCEPT ![c] = s]
    /\ IF HasWriter(s) THEN Suspend(c, "sending") ELSE Return(c, "raised", None)

\* A mistake Recoverable must catch: how to connect is forgotten.
ConnectUnremembered(c) ==
    /\ pc[c] = "up"
    /\ IF op[c] = "key" /\ session # None
       THEN SendOn(c, session)
       ELSE Respond(c) /\ UNCHANGED sess
    /\ UNCHANGED <<globals, sessions, op, want, reconnected, first, abandoned,
                   collided>>

\* A mistake SameHost must catch: only the first host is remembered.
ConnectFirst(c) ==
    /\ pc[c] = "up"
    /\ last' = IF last = NeverConnected THEN want[c] ELSE last
    /\ IF op[c] = "key" /\ session # None
       THEN SendOn(c, session)
       ELSE Respond(c) /\ UNCHANGED sess
    /\ UNCHANGED <<session, sessions, op, want, reconnected, first, abandoned,
                   collided>>

\* session.connect() returns: connect() answers with the screen of the current
\* session, a reconnecting send_key() repeats its key there.
ConnectDone(c) ==
    /\ pc[c] = "up"
    /\ last' = want[c]
    /\ IF op[c] = "key" /\ session # None
       THEN SendOn(c, session)
       ELSE Respond(c) /\ UNCHANGED sess
    /\ UNCHANGED <<session, sessions, op, want, reconnected, first, abandoned,
                   collided>>

-----------------------------------------------------------------------------
\* send_key()

SendKey(c) ==
    /\ pc[c] = "idle" /\ RoomForCall
    /\ op' = [op EXCEPT ![c] = "key"]
    /\ reconnected' = [reconnected EXCEPT ![c] = FALSE]
    /\ first' = [first EXCEPT ![c] = session]
    /\ IF session = None
       THEN Return(c, "error", None) /\ UNCHANGED sess
       ELSE SendOn(c, session)
    /\ collided' = (collided \/ \E d \in Suspended : pc[d] # "sending")
    /\ UNCHANGED <<globals, sessions, want, abandoned>>

\* The key's round trip is over: a screen, to return of the session that is
\* current now, or an exception that no handler catches.
KeyAnswered(c) ==
    /\ pc[c] = "sending"
    /\ \E r \in KeyOutcomes(conn[sess[c]]) :
        \/ r \in {"screen", "timeout"} /\ Respond(c)
        \/ (r = "error" \/ (r = "oserror" /\ reconnected[c])) /\ Return(c, "raised", None)
    /\ UNCHANGED <<globals, sessions, op, want, sess, reconnected, first,
                   abandoned, collided>>

\* A mistake KeyOncePerSession must catch: a session that looks connected is kept.
ReconnectUnlessOpen(c) ==
    /\ pc[c] = "sending" /\ ~reconnected[c] /\ "oserror" \in KeyOutcomes(conn[sess[c]])
    /\ HasWriter(session)
    /\ reconnected' = [reconnected EXCEPT ![c] = TRUE]
    /\ SendOn(c, session) /\ NoteClash(c)
    /\ UNCHANGED <<globals, sessions, op, want, first, abandoned>>

\* The first OSError: _reconnect_session() drops _session, whichever it is by
\* now, and calls connect() as it last succeeded.
Reconnect(c) ==
    /\ pc[c] = "sending" /\ ~reconnected[c] /\ "oserror" \in KeyOutcomes(conn[sess[c]])
    /\ IF last = NeverConnected
       THEN /\ Return(c, "error", None)
            /\ UNCHANGED <<session, sessions, want, sess, reconnected, first, op>>
       ELSE /\ reconnected' = [reconnected EXCEPT ![c] = TRUE]
            /\ want' = [want EXCEPT ![c] = last] /\ UNCHANGED op
            /\ Proceed(c, last, None, conn)
    /\ NoteClash(c) /\ UNCHANGED <<last, abandoned>>

-----------------------------------------------------------------------------
\* The tools that do not wait: read_screen(), send_keys(), set_cursor(), Tab and
\* the editing keys.  They do no I/O, so nothing makes them reconnect.
Look(c) ==
    /\ pc[c] = "idle"
    /\ op' = [op EXCEPT ![c] = "look"]
    /\ reconnected' = [reconnected EXCEPT ![c] = FALSE]
    /\ first' = [first EXCEPT ![c] = session]
    /\ Return(c, IF session = None THEN "error" ELSE "screen", session)
    /\ UNCHANGED <<globals, sessions, want, sess, abandoned, collided>>

-----------------------------------------------------------------------------
\* disconnect()

Disconnect(c) ==
    /\ pc[c] = "idle"
    /\ op' = [op EXCEPT ![c] = "disconnect"]
    /\ reconnected' = [reconnected EXCEPT ![c] = FALSE]
    /\ CASE ~HasWriter(session) ->
              /\ Return(c, "closed", None) /\ session' = None /\ UNCHANGED <<conn, sess>>
         [] HasWriter(session) /\ conn[session] = "reset" ->
              /\ Return(c, "raised", None) /\ UNCHANGED session /\ UNCHANGED <<conn, sess>>
         [] OTHER ->
              /\ RoomForCall /\ Suspend(c, "ending") /\ UNCHANGED session
              /\ conn' = [conn EXCEPT ![session] = "closing"]
              /\ sess' = [sess EXCEPT ![c] = session]
    /\ NoteClash(c)
    /\ UNCHANGED <<last, target, want, first, abandoned>>

\* _session is forgotten, whichever it is by now.
Disconnected(c) ==
    /\ pc[c] = "ending"
    /\ conn' = [conn EXCEPT ![sess[c]] = "closed"]
    /\ session' = None /\ Return(c, "closed", None)
    /\ UNCHANGED <<last, target, op, want, sess, reconnected, first,
                   abandoned, collided>>

-----------------------------------------------------------------------------
\* The network.

PeerEof(s) ==
    /\ conn[s] = "open" /\ conn' = [conn EXCEPT ![s] = "eof"]
    /\ UNCHANGED <<globals, target, calls, history>>

PeerReset(s) ==
    /\ conn[s] \in {"open", "eof"} /\ conn' = [conn EXCEPT ![s] = "reset"]
    /\ UNCHANGED <<globals, target, calls, history>>

-----------------------------------------------------------------------------
Call(c) ==
    \/ \E h \in Hosts \cup {NoHost} : Connect(c, h)
    \/ SendKey(c) \/ Look(c) \/ Disconnect(c)

Resume(c) ==
    \/ Closed(c) \/ TunnelUp(c) \/ TunnelFails(c) \/ TcpUp(c) \/ ConnectFails(c)
    \/ ConnectDone(c) \/ KeyAnswered(c) \/ Reconnect(c) \/ Disconnected(c)

Next ==
    \/ \E c \in Callers : Call(c) \/ Resume(c)
    \/ \E s \in Sessions : PeerEof(s) \/ PeerReset(s)

Spec == Init /\ [][Next]_vars

-----------------------------------------------------------------------------
\* Properties

Pcs     == {"idle", "closing", "tunnel", "tcp", "up", "sending", "ending"}
Ops     == {"none", "connect", "key", "look", "disconnect"}
Results == {"none", "screen", "warned", "error", "raised", "closed"}
Conns   == Writable \cup {"none", "closed"}

StoreOK ==
    /\ target \in Seq(Hosts) /\ conn \in Seq(Conns) /\ Len(conn) = made
    /\ session \in 0..made /\ last \in Hosts \cup {NoHost, NeverConnected}
    /\ abandoned \subseteq Sessions /\ collided \in BOOLEAN

CallsOK ==
    /\ pc \in [Callers -> Pcs] /\ op \in [Callers -> Ops]
    /\ want \in [Callers -> Hosts \cup {NoHost}] /\ sess \in [Callers -> 0..made]
    /\ reconnected \in [Callers -> BOOLEAN] /\ result \in [Callers -> Results]
    /\ first \in [Callers -> 0..made] /\ shown \in [Callers -> 0..made]

\* A call that returns a screen returns a session's.
ShownOK == \A c \in Callers : result[c] \in {"screen", "warned"} => shown[c] # None

\* The type of every variable.
TypeOK == StoreOK /\ CallsOK /\ ShownOK

\* However calls interleave, a session the server holds can be re-established:
\* either it is known how to connect, or the call that connects it is still at
\* work and will say so, or forget the session (connect(), _reconnect_session()).
Recoverable ==
    session # None /\ last = NeverConnected =>
        \E c \in Callers : pc[c] \in {"tcp", "up"} /\ sess[c] = session

\* However calls interleave, a key that is sent again after a lost connection
\* goes to a session made since, and never twice to one host session.
KeyOncePerSession ==
    \A c \in Callers : pc[c] = "sending" /\ reconnected[c] => first[c] < sess[c]

\* Unless a call connected or disconnected while another was in progress, the
\* server holds every live connection, but for those whose connect() failed with
\* TCP up (connect(), disconnect(), _reconnect_session()).
NoLeak ==
    ~collided => \A s \in Sessions : conn[s] = "open" => s = session \/ s \in abandoned

\* Unless a call connected or disconnected while another was in progress, a call
\* that returns a screen without the reconnect warning returns that of the
\* session it began with, or made, and one with the warning that of a later one
\* (_screen_response(), send_key()).
ScreenIsOwn ==
    ~collided => \A c \in Callers :
        /\ result[c] = "screen" => shown[c] = first[c]
        /\ result[c] = "warned" => shown[c] > first[c]

\* Unless a call connected or disconnected while another was in progress, a lost
\* session is re-established with the host it was connected to (_last_connect).
SameHost ==
    ~collided /\ session # None /\ last # NeverConnected =>
        \/ target[session] = Resolved(last)
        \/ \E c \in Callers : pc[c] \in {"tcp", "up"} /\ sess[c] = session

\* What the code does not do.

\* server.py: "Connection lost. Call connect() to re-establish."  connect()
\* answers a screen or an error, and raises on no lost connection.
ConnectAnswers ==
    \A c \in Callers : op[c] = "connect" => result[c] # "raised"

=============================================================================
