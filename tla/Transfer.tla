------------------------------- MODULE Transfer -------------------------------
(***************************************************************************)
(* File transfer and the SSH tunnel: server.py's _ensure_transport() over  *)
(* the global _transport, with the tools upload_file() and download_file() *)
(* and the tunnel of connect(); and transfer/sftp.py's SftpTransport with   *)
(* its reconnect and retry.  Host and user are configured.                 *)
(*                                                                         *)
(* An action is what a call does between two awaits.  Transports, SSH      *)
(* connections and listeners are numbered in the order they are made.      *)
(***************************************************************************)
EXTENDS Integers, FiniteSets, Sequences

CONSTANTS
    Callers,        \* the concurrent tool calls
    MaxTransports,  \* bound: transports made
    MaxConnections, \* bound: SSH connections made
    MaxPorts        \* bound: listeners made

ASSUME CallersFinite == IsFiniteSet(Callers)
ASSUME BoundsNatural ==
    MaxTransports \in Nat /\ MaxConnections \in Nat /\ MaxPorts \in Nat

None == 0
Tools == {"upload", "download", "tunnel"}

VARIABLES
    transport,  \* _transport: None or a transport
    \* of each transport: _conn, _sftp (the connection it runs on), _tunnel_listener
    link, sftp, listener,
    ssh,        \* each SSH connection: "bare" until an SFTP session runs on it
    port, shut, \* the connection of each listener, the listeners that were closed
    \* the calls: the await each is suspended in, its tool, its transport, the
    \* attempts at the transfer begun, the connection awaited, its answer
    pc, op, self, tries, using, answer,
    \* history, read by properties only: the connection of the first attempt, those
    \* whose start_sftp_client() failed, whether a call connected during another
    firstUsing, unstarted, collided

objects == <<transport, link, sftp, listener>>
network == <<ssh, port, shut>>
calls   == <<pc, op, self, tries, using, answer>>
history == <<firstUsing, unstarted, collided>>
vars    == <<objects, network, calls, history>>

Init ==
    /\ transport = None /\ link = <<>> /\ sftp = <<>> /\ listener = <<>>
    /\ ssh = <<>> /\ port = <<>> /\ shut = {}
    /\ pc = [c \in Callers |-> "idle"] /\ op = [c \in Callers |-> "none"]
    /\ self = [c \in Callers |-> None] /\ tries = [c \in Callers |-> 0]
    /\ using = [c \in Callers |-> None] /\ answer = [c \in Callers |-> "none"]
    /\ firstUsing = [c \in Callers |-> None] /\ unstarted = {} /\ collided = FALSE

-----------------------------------------------------------------------------
\* What calls share.

made == Len(link)
Transports == 1..made
Connections == 1..Len(ssh)
Live == {"bare", "open"}

Suspended == {c \in Callers : pc[c] # "idle"}

\* c connects, or closes what others may use, while another call is in progress.
NoteClash(c) == collided' = (collided \/ Suspended \ {c} # {})

\* c asks for a listener, if it does, while another call does.
NoteForward(asked) ==
    collided' = (collided \/ (asked /\ \E d \in Callers : pc[d] = "forward"))

\* A mistake SoundTransport must catch: a transport without SFTP will do.
ConnectedUnstarted(t) == link[t] # None /\ ssh[link[t]] \in {"bare", "open", "closing"}

\* is_connected
IsConnected(t) ==
    /\ link[t] # None /\ ssh[link[t]] \in {"bare", "open", "closing"}
    /\ sftp[t] # None

Answer(c, a) ==
    /\ pc' = [pc EXCEPT ![c] = "idle"]
    /\ answer' = [answer EXCEPT ![c] = a]
    /\ UNCHANGED using

\* c is suspended in the await at, of connection k if there is one.
Suspend(c, at, k) ==
    /\ pc' = [pc EXCEPT ![c] = at]
    /\ using' = [using EXCEPT ![c] = k]
    /\ answer' = [answer EXCEPT ![c] = "none"]

\* A mistake TypeOK must catch: that there may be no SFTP session is overlooked.
TryUnchecked(c, t, n, sftps) ==
    /\ self' = [self EXCEPT ![c] = t] /\ tries' = [tries EXCEPT ![c] = n]
    /\ firstUsing' = IF n = 1 THEN [firstUsing EXCEPT ![c] = sftps[t]] ELSE firstUsing
    /\ Suspend(c, "put", sftps[t])

\* Attempt n of c to transfer on transport t; without an SFTP session there is
\* nothing to call put() or get() on.
Try(c, t, n, sftps) ==
    /\ self' = [self EXCEPT ![c] = t] /\ tries' = [tries EXCEPT ![c] = n]
    /\ firstUsing' = IF n = 1 THEN [firstUsing EXCEPT ![c] = sftps[t]] ELSE firstUsing
    /\ IF sftps[t] = None THEN Answer(c, "nothing") ELSE Suspend(c, "put", sftps[t])

\* forward_local_port(): the old listener is closed, a new one asked for.
Forward(c, t) ==
    /\ shut' = shut \cup ({listener[t]} \ {None})
    /\ self' = [self EXCEPT ![c] = t]
    /\ IF link[t] = None THEN Answer(c, "error") ELSE Suspend(c, "forward", link[t])
    /\ UNCHANGED <<tries, firstUsing>>

\* The tool of c with what _ensure_transport() returns, _transport as it is now;
\* connect() has a handler for any exception, the transfers have none.
UseTransport(c, tool, sftps) ==
    \/ /\ transport = None
       /\ Answer(c, IF tool = "tunnel" THEN "error" ELSE "nothing")
       /\ UNCHANGED <<self, tries, firstUsing, shut>>
    \/ /\ transport # None /\ tool = "upload" /\ Answer(c, "error") \* no such file
       /\ UNCHANGED <<self, tries, firstUsing, shut>>
    \/ /\ transport # None /\ tool # "tunnel" /\ Try(c, transport, 1, sftps)
       /\ UNCHANGED shut
    \/ transport # None /\ tool = "tunnel" /\ Forward(c, transport)

-----------------------------------------------------------------------------
\* _ensure_transport()

\* The transport is connected, and used.
UseConnected(c, tool) ==
    /\ pc[c] = "idle" /\ transport # None /\ IsConnected(transport)
    /\ op' = [op EXCEPT ![c] = tool]
    /\ UseTransport(c, tool, sftp)
    /\ NoteForward(tool = "tunnel")
    /\ UNCHANGED <<objects, ssh, port, unstarted>>

\* It is not: a new one replaces it, and starts to connect.
MakeTransport(c, tool) ==
    /\ pc[c] = "idle" /\ (transport # None => ~IsConnected(transport))
    /\ made < MaxTransports
    /\ op' = [op EXCEPT ![c] = tool]
    /\ transport' = made + 1
    /\ link' = Append(link, None) /\ sftp' = Append(sftp, None)
    /\ listener' = Append(listener, None)
    /\ self' = [self EXCEPT ![c] = made + 1] /\ tries' = [tries EXCEPT ![c] = 0]
    /\ Suspend(c, "ssh", None) /\ NoteClash(c)
    /\ UNCHANGED <<network, firstUsing, unstarted>>

-----------------------------------------------------------------------------
\* SftpTransport.connect(), for a call or for its second attempt (tries = 2).

SshUp(c) ==
    /\ pc[c] = "ssh" /\ Len(ssh) < MaxConnections
    /\ ssh' = Append(ssh, "bare")
    /\ link' = [link EXCEPT ![self[c]] = Len(ssh) + 1]
    /\ Suspend(c, "sftp", Len(ssh) + 1)
    /\ UNCHANGED <<transport, sftp, listener, port, shut, op, self, tries, history>>

\* The SFTP session is there: the transfer is tried, or tried again.
SftpUp(c) ==
    /\ pc[c] = "sftp" /\ ssh[using[c]] = "bare"
    /\ ssh' = [ssh EXCEPT ![using[c]] = "open"]
    /\ sftp' = [sftp EXCEPT ![self[c]] = using[c]]
    /\ IF tries[c] = 2
       THEN Try(c, self[c], 2, sftp') /\ UNCHANGED shut
       ELSE UseTransport(c, op[c], sftp')
    /\ NoteForward(tries[c] # 2 /\ op[c] = "tunnel")
    /\ UNCHANGED <<transport, link, listener, port, op, unstarted>>

\* connect() raises: _transport is forgotten, whichever it is by now, or the
\* exception leaves the transfer that was to be tried again.
ConnectFails(c) ==
    /\ pc[c] \in {"ssh", "sftp"}
    /\ unstarted' = IF pc[c] = "sftp" THEN unstarted \cup {using[c]} ELSE unstarted
    /\ IF tries[c] = 2
       THEN Answer(c, "raised") /\ UNCHANGED transport
       ELSE Answer(c, "error") /\ transport' = None
    /\ UNCHANGED <<link, sftp, listener, network, op, self, tries, firstUsing, collided>>

-----------------------------------------------------------------------------
\* upload(), download()

\* The file is there; an upload may yet fail to find the size of its source.
PutDone(c) ==
    /\ pc[c] = "put" /\ ssh[using[c]] = "open"
    /\ \E a \in {"done", "error"} : Answer(c, a)
    /\ UNCHANGED <<objects, network, op, self, tries, history>>

\* How put() and get() may fail: with an SFTPError or an OSError of the file
\* ("error"), an OSError _is_connection_error() knows ("network"), or with an
\* asyncssh.ConnectionLost, which is neither and which no handler catches.
PutFailures(k) ==
    CASE ssh[k] = "open" -> {"error", "network"}
      [] ssh[k] = "lost" -> {"error", "network", "lost"}
      [] OTHER           -> {"error"}

PutFails(c) ==
    /\ pc[c] = "put"
    /\ \E e \in PutFailures(using[c]) :
        \/ (e = "error" \/ (e = "network" /\ tries[c] = 2)) /\ Answer(c, "error")
        \/ e = "lost" /\ Answer(c, "raised")
    /\ UNCHANGED <<objects, network, op, self, tries, history>>

\* A mistake NoLeak must catch: connect() without disconnect().
ReconnectUnclosed(c) ==
    /\ pc[c] = "put" /\ tries[c] = 1 /\ "network" \in PutFailures(using[c])
    /\ tries' = [tries EXCEPT ![c] = 2]
    /\ Suspend(c, "ssh", None) /\ NoteClash(c)
    /\ UNCHANGED <<objects, network, op, self, firstUsing, unstarted>>

\* A mistake RetryIsRenewed must catch: what looks connected is used again.
ReconnectIfLost(c) ==
    /\ pc[c] = "put" /\ tries[c] = 1 /\ "network" \in PutFailures(using[c])
    /\ IsConnected(self[c])
    /\ Try(c, self[c], 2, sftp) /\ NoteClash(c)
    /\ UNCHANGED <<objects, network, op, unstarted>>

\* A mistake Paired must catch: the old SFTP session is not forgotten.
DismantlePartly(t) ==
    /\ shut' = shut \cup ({listener[t]} \ {None})
    /\ listener' = [listener EXCEPT ![t] = None]
    /\ UNCHANGED sftp
    /\ ssh' = [k \in Connections |->
                 IF ssh[k] \in Live /\ k = link[t] THEN "closing" ELSE ssh[k]]

\* disconnect() of the transport t, as far as its await: listener and SFTP session
\* are closed, then the connection if there is one.
Dismantle(t) ==
    /\ shut' = shut \cup ({listener[t]} \ {None})
    /\ listener' = [listener EXCEPT ![t] = None]
    /\ sftp' = [sftp EXCEPT ![t] = None]
    /\ ssh' = [k \in Connections |->
                 IF ssh[k] \notin Live THEN ssh[k]
                 ELSE IF k = link[t] THEN "closing"
                 ELSE IF k = sftp[t] THEN "bare" ELSE ssh[k]]

\* The first OSError of the network, _reconnect(): the connection is closed under
\* whoever uses it; one that is closed already is not waited for.
Reconnect(c) ==
    /\ pc[c] = "put" /\ tries[c] = 1 /\ "network" \in PutFailures(using[c])
    /\ tries' = [tries EXCEPT ![c] = 2]
    /\ Dismantle(self[c])
    /\ LET k == link[self[c]] IN
       IF k # None /\ ssh[k] \in Live \cup {"closing"}
       THEN Suspend(c, "closing", k) /\ UNCHANGED link
       ELSE Suspend(c, "ssh", None) /\ link' = [link EXCEPT ![self[c]] = None]
    /\ NoteClash(c)
    /\ UNCHANGED <<transport, port, op, self, firstUsing, unstarted>>

\* wait_closed() returns, in all calls that wait for k: the event loop resumes
\* them before it does any more I/O.
Closed(k) ==
    LET Waiting == {c \in Callers : pc[c] = "closing" /\ using[c] = k} IN
    /\ ssh[k] = "closing" /\ ssh' = [ssh EXCEPT ![k] = "closed"]
    /\ pc' = [c \in Callers |-> IF c \in Waiting THEN "ssh" ELSE pc[c]]
    /\ using' = [c \in Callers |-> IF c \in Waiting THEN None ELSE using[c]]
    /\ link' = [t \in Transports |->
                  IF \E c \in Waiting : self[c] = t THEN None ELSE link[t]]
    /\ UNCHANGED <<transport, sftp, listener, port, shut, op, self, tries, answer,
                   history>>

-----------------------------------------------------------------------------
\* forward_local_port()

ForwardUp(c) ==
    /\ pc[c] = "forward" /\ ssh[using[c]] \in Live /\ Len(port) < MaxPorts
    /\ port' = Append(port, using[c])
    /\ listener' = [listener EXCEPT ![self[c]] = Len(port) + 1]
    /\ Answer(c, "port")
    /\ UNCHANGED <<transport, link, sftp, ssh, shut, op, self, tries, history>>

ForwardFails(c) ==
    /\ pc[c] = "forward" /\ Answer(c, "error")
    /\ UNCHANGED <<objects, network, op, self, tries, history>>

-----------------------------------------------------------------------------
\* The network: a connection is lost.
PeerLost(k) ==
    /\ ssh[k] \in Live /\ ssh' = [ssh EXCEPT ![k] = "lost"]
    /\ UNCHANGED <<objects, port, shut, calls, history>>

-----------------------------------------------------------------------------
Call(c) == \E tool \in Tools : UseConnected(c, tool) \/ MakeTransport(c, tool)

Resume(c) ==
    \/ SshUp(c) \/ SftpUp(c) \/ ConnectFails(c) \/ PutDone(c) \/ PutFails(c)
    \/ Reconnect(c) \/ ForwardUp(c) \/ ForwardFails(c)

Next ==
    \/ \E c \in Callers : Call(c) \/ Resume(c)
    \/ \E k \in Connections : Closed(k) \/ PeerLost(k)

Spec == Init /\ [][Next]_vars

-----------------------------------------------------------------------------
\* Properties

Pcs     == {"idle", "ssh", "sftp", "put", "closing", "forward"}
Answers == {"none", "done", "port", "error", "raised", "nothing"}
States  == {"bare", "open", "lost", "closing", "closed"}

ObjectsOK ==
    /\ link \in Seq(0..Len(ssh)) /\ sftp \in Seq(0..Len(ssh)) /\ Len(sftp) = made
    /\ listener \in Seq(0..Len(port)) /\ Len(listener) = made
    /\ transport \in 0..made
    /\ ssh \in Seq(States) /\ port \in Seq(Connections) /\ shut \subseteq 1..Len(port)

CallsOK ==
    /\ pc \in [Callers -> Pcs] /\ op \in [Callers -> Tools \cup {"none"}]
    /\ self \in [Callers -> 0..made] /\ tries \in [Callers -> 0..2]
    /\ using \in [Callers -> 0..Len(ssh)] /\ answer \in [Callers -> Answers]
    /\ firstUsing \in [Callers -> 0..Len(ssh)]
    /\ unstarted \subseteq Connections /\ collided \in BOOLEAN

\* A suspended call works on a transport and, past its connect(), awaits a
\* connection.
Bound ==
    \A c \in Callers :
        /\ pc[c] # "idle" => self[c] # None
        /\ pc[c] \in {"sftp", "put", "closing", "forward"} => using[c] # None

\* The type of every variable, and what a suspended call has.
TypeOK == ObjectsOK /\ CallsOK /\ Bound

\* However calls interleave, a transfer is repeated only on an SSH connection made
\* since its first attempt (upload(), download(), _reconnect()).
RetryIsRenewed ==
    \A c \in Callers : pc[c] = "put" /\ tries[c] = 2 => using[c] > firstUsing[c]

\* Unless a call connected while another was in progress, a transfer finds a
\* transport with an SFTP session, also after any failed attempt to get one
\* (_ensure_transport(), is_connected).
SoundTransport == ~collided => \A c \in Callers : answer[c] # "nothing"

\* Unless a call connected while another was in progress, the live SSH connections
\* are that of the current transport and those whose SFTP session failed to start,
\* and the open listeners that of the current transport.
NoLeak ==
    ~collided =>
        /\ \A k \in Connections : ssh[k] \in Live =>
              \/ k \in unstarted
              \/ transport # None /\ k = link[transport]
        /\ \A p \in 1..Len(port) : p \notin shut /\ ssh[port[p]] \in Live =>
              transport # None /\ p = listener[transport]

\* Unless a call connected while another was in progress, the SFTP session of a
\* transport runs on its connection, which is what is_connected looks at.
Paired ==
    ~collided => \A t \in Transports : sftp[t] # None => sftp[t] = link[t]

\* What the code does not do.

\* sftp.py: _is_connection_error() counts a ConnectionLost among the errors after
\* which a transfer reconnects and tries again.
LostIsRetried == \A c \in Callers : answer[c] = "raised" => tries[c] = 2

=============================================================================
