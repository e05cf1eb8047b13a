----------------------------- MODULE SoloProofs -----------------------------
(***************************************************************************)
(* Theorems about Session when the tool calls come one at a time: what     *)
(* the code promises a client that waits for each answer.                  *)
(***************************************************************************)
EXTENDS SessionProofs

\* One tool call at a time.
OneCaller == \A c, d \in Callers : c = d

-----------------------------------------------------------------------------
\* Where the only caller is, and what goes with it: a call in progress holds the
\* keyboard locked and has no result yet, read_frame()'s buffer lives as long as
\* its wait, and the session is connected once.
AloneAt(c) ==
    /\ pc[c] \in {"tcp"} \cup BusyPcs => locked /\ result[c] = "none"
    /\ pc[c] \in {"idle", "closing"} => call[c] = "none"
    /\ pc[c] \notin {"wait", "parked"} => buf[c] = 0
    /\ pendingQuery => pc[c] \in {"reply", "parsing"} \/ conn = "reset"
    /\ pc[c] = "tcp" => call[c] = "connect"
    /\ conn = "none" => pc[c] = "idle" /\ ~held /\ locked
    /\ conn = "connecting" <=> pc[c] = "tcp"
    /\ conn = "closing" <=> pc[c] = "closing"
    /\ conn \in {"failed", "closed"} => pc[c] = "idle" /\ ~held

Alone == \A c \in Callers : AloneAt(c)

\* The caller's connection while it is at work.
LEMMA BusyConnection ==
    ASSUME DataOK, NEW c \in Callers, AloneAt(c), pc[c] \in BusyPcs
    PROVE  conn \in {"open", "eof", "reset"} /\ HasWriter /\ locked /\ result[c] = "none"
  BY DEF DataOK, AloneAt, BusyPcs, HasWriter, Writable

\* How the loop is left: back to the server, or on to draining the credentials.
LEMMA LeaveEnds ==
    ASSUME DataOK, NEW c \in Callers, HasWriter,
           NEW to, NEW scr, NEW own, Leave(c, to, scr, own)
    PROVE  /\ buf'[c] = 0 /\ held' = held
           /\ \/ /\ pc' = [pc EXCEPT ![c] = "idle"] /\ call'[c] = "none"
                 /\ sent' = sent /\ credsAt' = credsAt
                 /\ to => result'[c] = "timeout"
              \/ /\ pc' = [pc EXCEPT ![c] = "drain"] /\ call'[c] = "signon" /\ call[c] = "connect"
                 /\ sent' = sent + 1 /\ credsAt' = answered'
                 /\ locked' /\ result' = result
  <1>1. CASE SignsOn(c, scr)
    BY <1>1 DEF DataOK, Leave, SignsOn
  <1>2. CASE ~(SignsOn(c, scr))
    BY <1>2 DEF DataOK, Leave
  <1>3. QED BY <1>1, <1>2

\* What the top of the loop does while the keyboard is locked.
LEMMA LoopTopWaits ==
    ASSUME DataOK, NEW c \in Callers, NEW lk, lk,
           NEW to, NEW scr, NEW own, LoopTop(c, lk, to, scr, own)
    PROVE  /\ pc' = [pc EXCEPT ![c] = "wait"] /\ buf'[c] = 0 /\ locked'
           /\ UNCHANGED <<call, result, held, sent, credsAt>>
  BY DEF DataOK, LoopTop

\* Wherever the loop goes on from its top, read_frame() starts anew.
LEMMA LoopTopEmpties ==
    ASSUME DataOK, NEW c \in Callers, HasWriter,
           NEW lk, NEW to, NEW scr, NEW own, LoopTop(c, lk, to, scr, own)
    PROVE  buf'[c] = 0
  <1>1. CASE lk
    BY <1>1, LoopTopWaits
  <1>2. CASE ~lk
    BY <1>2, LeaveEnds DEF LoopTop
  <1>3. QED BY <1>1, <1>2

\* A frame is read on a live connection with no query pending; a query, or an
\* endless drawing, keeps the keyboard locked.
LEMMA DispatchAlone ==
    ASSUME DataOK, NEW c \in Callers, AloneAt(c), conn # "reset",
           pc[c] \in BusyPcs \ {"reply", "parsing"},
           NEW m \in Messages \cup {Nothing}, NEW own, Dispatch(c, m, own)
    PROVE  /\ ~pendingQuery
           /\ \/ /\ \E p \in {"reply", "parsing"} : pc' = [pc EXCEPT ![c] = p]
                 /\ buf'[c] = 0 /\ locked'
                 /\ UNCHANGED <<call, result, held, sent, credsAt>>
              \/ /\ ~pendingQuery'
                 /\ LoopTop(c, LockAfter(m), timedOut, ScreenAfter(m), own)
                 /\ LockAfter(m) \in BOOLEAN
                 /\ ~LockAfter(m) => Inviting(m)
  <1>1. conn \in {"open", "eof"} /\ locked /\ ~pendingQuery
    BY BusyConnection DEF AloneAt
  <1>2. m.query => m.op \in DrawOps
    BY DEF Messages, Nothing
  <1>3. QueryAfter(m) => LockAfter(m)
    BY <1>1, <1>2 DEF LockAfter, QueryAfter, DrawOps, InviteOps
  <1>4. CASE ~QueryAfter(m) /\ LoopTop(c, LockAfter(m), timedOut, ScreenAfter(m), own)
    <2>1. ~pendingQuery'
      BY <1>4 DEF Dispatch
    <2>2. ~LockAfter(m) => Inviting(m)
      BY <1>1, <1>4 DEF LockAfter, QueryAfter, Inviting
    <2>3. QED BY <1>1, <1>4, <2>1, <2>2 DEF LockAfter
  <1>5. buf' = [buf EXCEPT ![c] = 0] => buf'[c] = 0
    BY DEF DataOK
  <1>6. QED BY <1>1, <1>3, <1>4, <1>5, DispatchCases

\* What a reader hears is a frame of some host's, or nothing.
LEMMA HeardMessage ==
    ASSUME DataOK, NEW c, net # <<>>
    PROVE  Heard(c, Head(net)) \subseteq Messages \cup {Nothing}
  <1>1. Head(net) \in Chunks
    BY DEF DataOK
  <1>2. Head(net).msg \in Messages
    BY <1>1 DEF Chunks
  <1>3. QED BY <1>2 DEF Heard

\* A step that leaves the caller at work, or idle on the same connection.
LEMMA AloneMoves ==
    ASSUME DataOK, NEW c \in Callers, AloneAt(c), pc[c] \in BusyPcs, conn' = conn,
           NEW p \in BusyPcs \cup {"idle"}, pc' = [pc EXCEPT ![c] = p],
           p \in BusyPcs => locked' /\ result'[c] = "none",
           p = "idle" => call'[c] = "none",
           p \notin {"wait", "parked"} => buf'[c] = 0,
           pendingQuery' => p \in {"reply", "parsing"} \/ conn = "reset"
    PROVE  AloneAt(c)'
  <1>1. pc'[c] = p
    BY DEF DataOK
  <1>2. conn \in {"open", "eof", "reset"}
    BY BusyConnection
  <1>3. QED BY <1>1, <1>2 DEF AloneAt, BusyPcs

\* A step that leaves the loop.
LEMMA AloneLeaves ==
    ASSUME DataOK, NEW c \in Callers, AloneAt(c), pc[c] \in BusyPcs, conn' = conn,
           NEW to, NEW scr, NEW own, Leave(c, to, scr, own),
           pendingQuery' => conn = "reset"
    PROVE  AloneAt(c)'
  BY BusyConnection, LeaveEnds, AloneMoves DEF BusyPcs

\* And one at its top.
LEMMA AloneLoopTop ==
    ASSUME DataOK, NEW c \in Callers, AloneAt(c), pc[c] \in BusyPcs, conn' = conn,
           NEW lk \in BOOLEAN, NEW to, NEW scr, NEW own, LoopTop(c, lk, to, scr, own),
           pendingQuery' => conn = "reset"
    PROVE  AloneAt(c)'
  <1>1. CASE lk
    BY <1>1, BusyConnection, LoopTopWaits, AloneMoves DEF BusyPcs
  <1>2. CASE ~lk
    BY <1>2, AloneLeaves DEF LoopTop
  <1>3. QED BY <1>1, <1>2

\* A call that raises while at work.
LEMMA AloneRaises ==
    ASSUME DataOK, NEW c \in Callers, AloneAt(c), pc[c] \in BusyPcs, conn' = conn,
           NEW e, Raise(c, e), pendingQuery' = pendingQuery,
           pc[c] \in {"reply", "parsing"} => conn = "reset"
    PROVE  AloneAt(c)'
  <1>1. pendingQuery' => conn = "reset"
    BY DEF AloneAt
  <1>2. pc' = [pc EXCEPT ![c] = "idle"] /\ call'[c] = "none" /\ buf'[c] = 0
    BY DEF DataOK, Raise
  <1>3. QED BY <1>1, <1>2, AloneMoves DEF BusyPcs

\* Every step keeps the only caller in its place.
LEMMA AloneStep == OneCaller /\ TypeOK /\ Alone /\ [Next]_vars => Alone'
  <1> SUFFICES ASSUME OneCaller, FlagsOK, DataOK, Alone, [Next]_vars PROVE Alone'
    BY DEF TypeOK
  <1>1. ASSUME NEW c \in Callers, AloneAt(c)' PROVE Alone'
    BY <1>1 DEF OneCaller, Alone
  <1>2. ASSUME UNCHANGED <<pc, call, result, buf, locked, pendingQuery, held>>,
               \/ conn' = conn
               \/ conn \in {"open", "eof"} /\ conn' \in {"open", "eof", "reset"}
        PROVE  Alone'
    BY <1>2 DEF Alone, AloneAt
  <1>3. ASSUME NEW c \in Callers, Connect(c) PROVE Alone'
    <2>1. AloneAt(c) /\ locked
      BY <1>3 DEF Connect, Alone, AloneAt
    <2>2. AloneAt(c)'
      BY <1>3, <2>1 DEF Connect, object, AloneAt, DataOK, BusyPcs
    <2>3. QED BY <1>1, <2>2
  <1>4. ASSUME NEW c \in Callers, TcpUp(c) PROVE Alone'
    <2>1. AloneAt(c) /\ pc[c] = "tcp" /\ conn = "connecting"
      BY <1>4 DEF TcpUp, Alone, AloneAt
    <2>2. pc'[c] = "negotiate" /\ conn' = "open" /\ buf[c] = 0 /\ locked /\ result[c] = "none"
      BY <1>4, <2>1 DEF TcpUp, AloneAt, DataOK
    <2>3. AloneAt(c)'
      BY <1>4, <2>1, <2>2 DEF TcpUp, AloneAt, BusyPcs
    <2>4. QED BY <1>1, <2>3
  <1>5. ASSUME NEW c \in Callers, TcpFails(c) PROVE Alone'
    <2>1. AloneAt(c) /\ pc[c] = "tcp" /\ conn = "connecting" /\ ~pendingQuery
      BY <1>5 DEF TcpFails, Alone, AloneAt
    <2>2. /\ pc'[c] = "idle" /\ conn' = "failed" /\ buf'[c] = 0 /\ call'[c] = "none"
          /\ held' = (held /\ call[c] = "key") /\ ~pendingQuery'
      BY <1>5, <2>1 DEF TcpFails, Raise, object, DataOK
    <2>3. AloneAt(c)'
      BY <1>5, <2>1, <2>2 DEF AloneAt, BusyPcs
    <2>4. QED BY <1>1, <2>3
  <1>6. ASSUME NEW c \in Callers, SendKey(c) PROVE Alone'
    <2>1. AloneAt(c) /\ pc[c] = "idle" /\ held
      BY <1>6 DEF SendKey, Alone
    <2>2. conn \in {"open", "eof", "reset"} /\ HasWriter
      BY <2>1 DEF AloneAt, DataOK, HasWriter, Writable
    <2>3. /\ pc'[c] = "drain" /\ result'[c] = "none" /\ locked' /\ buf'[c] = buf[c]
          /\ conn' = conn /\ pendingQuery' = pendingQuery
      BY <1>6, <2>2 DEF SendKey, DataOK, wire
    <2>4. AloneAt(c)'
      BY <2>1, <2>2, <2>3 DEF AloneAt, BusyPcs
    <2>5. QED BY <1>1, <2>4
  <1>7. ASSUME NEW c \in Callers, Disconnect(c) PROVE Alone'
    <2>1. AloneAt(c) /\ pc[c] = "idle" /\ held
      BY <1>7 DEF Disconnect, Alone
    <2>2. conn \in {"open", "eof", "reset"} /\ HasWriter
      BY <2>1 DEF AloneAt, DataOK, HasWriter, Writable
    <2>3. /\ \/ pc'[c] = "idle" /\ conn' = conn
             \/ pc'[c] = "closing" /\ conn' = "closing" /\ conn # "reset"
          /\ call' = call /\ buf' = buf /\ pendingQuery' = pendingQuery
      BY <1>7, <2>2 DEF Disconnect, Closed, DataOK
    <2>4. AloneAt(c)'
      BY <2>1, <2>2, <2>3 DEF AloneAt, BusyPcs
    <2>5. QED BY <1>1, <2>4
  <1>8. ASSUME NEW c \in Callers, CloseDone(c) PROVE Alone'
    <2>1. AloneAt(c) /\ pc[c] = "closing" /\ conn = "closing"
      BY <1>8 DEF CloseDone, Alone, AloneAt, DataOK
    <2>2. /\ pc'[c] = "idle" /\ conn' = "closed" /\ ~held'
          /\ call' = call /\ buf' = buf /\ pendingQuery' = pendingQuery
      BY <1>8 DEF CloseDone, Closed, DataOK
    <2>4. AloneAt(c)'
      BY <2>1, <2>2 DEF AloneAt, BusyPcs
    <2>5. QED BY <1>1, <2>4
  <1>9. ASSUME NEW c \in Callers, Negotiated(c) PROVE Alone'
    <2>1. /\ AloneAt(c) /\ pc[c] \in BusyPcs /\ pc[c] = "negotiate"
          /\ LoopTop(c, locked, FALSE, screen, FALSE)
          /\ conn' = conn /\ pendingQuery' = pendingQuery
      BY <1>9 DEF Negotiated, Alone, BusyPcs, wire
    <2>2. locked /\ locked \in BOOLEAN
      BY <2>1, BusyConnection DEF FlagsOK
    <2>3. QED BY <1>1, <2>1, <2>2, AloneLoopTop DEF AloneAt
  <1>10. ASSUME NEW c \in Callers, Drain(c) \/ DrainReply(c) PROVE Alone'
    <2>1. /\ AloneAt(c) /\ pc[c] \in BusyPcs /\ conn' = conn
          /\ Drain(c) => pc[c] = "drain" /\ pendingQuery' = pendingQuery
      BY <1>10 DEF Drain, DrainReply, Alone, BusyPcs, wire
    <2>2. locked /\ locked \in BOOLEAN /\ conn \in {"open", "eof", "reset"}
      BY <2>1, BusyConnection DEF FlagsOK
    <2>3. CASE conn \in {"open", "eof"}
      <3>1. PICK to : LoopTop(c, locked, to, screen, FALSE)
        BY <1>10, <2>3 DEF Drain, DrainReply
      <3>2. CASE Drain(c)
        <4>1. pendingQuery' => conn = "reset"
          BY <2>1, <3>2 DEF AloneAt
        <4>2. QED BY <1>1, <2>1, <2>2, <3>1, <4>1, AloneLoopTop
      <3>3. CASE DrainReply(c)
        <4>1. ~pendingQuery'
          BY <2>3, <3>3 DEF DrainReply
        <4>2. QED BY <1>1, <2>1, <2>2, <3>1, <4>1, AloneLoopTop
      <3>4. QED BY <1>10, <3>2, <3>3
    <2>4. CASE conn = "reset"
      <3>1. Raise(c, "oserror") /\ pendingQuery' = pendingQuery
        BY <1>10, <2>1, <2>4 DEF Drain, DrainReply
      <3>2. QED BY <1>1, <2>1, <2>4, <3>1, AloneRaises
    <2>5. QED BY <2>2, <2>3, <2>4
  <1>11. ASSUME NEW c \in Callers, Park(c) PROVE Alone'
    <2>1. /\ AloneAt(c) /\ pc[c] \in {"negotiate", "wait", "parked"}
          /\ conn' = conn /\ pendingQuery' = pendingQuery /\ reader # c
      BY <1>11 DEF Park, Reading, Alone, object
    <2>2. reader = NoCaller
      BY <2>1 DEF DataOK, OneCaller
    <2>3. /\ pc' = [pc EXCEPT ![c] = IF pc[c] = "wait" THEN "parked" ELSE pc[c]]
          /\ UNCHANGED <<call, buf, result, held>> /\ locked' = locked
      BY <1>11, <2>2 DEF Park, object
    <2>4. AloneAt(c)'
      BY <2>1, <2>3, AloneMoves, BusyConnection DEF AloneAt, BusyPcs
    <2>5. QED BY <1>1, <2>4
  <1>12. ASSUME NEW c \in Callers, ReadHead(c) \/ Swallow(c) PROVE Alone'
    <2>1. /\ AloneAt(c) /\ pc[c] \in {"wait", "parked"}
          /\ UNCHANGED <<pc, call, result, locked, pendingQuery, held, conn>>
      BY <1>12 DEF ReadHead, Swallow, Reading, Alone, object
    <2>2. QED BY <1>1, <2>1 DEF AloneAt
  <1>13. ASSUME NEW c \in Callers, ReadFrame(c) \/ Split(c) PROVE Alone'
    <2>1. /\ AloneAt(c) /\ pc[c] \in BusyPcs \ {"reply", "parsing"} /\ conn # "reset" /\ conn' = conn
      BY <1>13 DEF ReadFrame, Split, Reading, Alone, BusyPcs
    <2>2. PICK m \in Messages \cup {Nothing} : \E own : Dispatch(c, m, own)
      BY <1>13, HeardMessage DEF ReadFrame, Split
    <2>3. AloneAt(c)'
      BY <2>1, <2>2, DispatchAlone, AloneMoves, AloneLoopTop, BusyConnection DEF BusyPcs
    <2>4. QED BY <1>1, <2>3
  <1>14. ASSUME NEW c \in Callers, Timeout(c) PROVE Alone'
    <2>1. /\ AloneAt(c) /\ pc[c] \in BusyPcs /\ conn' = conn /\ Leave(c, TRUE, screen, FALSE)
          /\ pendingQuery' => conn = "reset"
      BY <1>14 DEF Timeout, Alone, AloneAt, BusyPcs
    <2>2. QED BY <1>1, <2>1, AloneLeaves
  <1>15. ASSUME NEW c \in Callers, ReadFails(c) PROVE Alone'
    <2>1. /\ AloneAt(c) /\ pc[c] \in BusyPcs \ {"reply", "parsing"} /\ conn' = conn
          /\ pendingQuery' = pendingQuery /\ \E e : Raise(c, e)
      BY <1>15 DEF ReadFails, Reading, Alone, BusyPcs, wire, object
    <2>2. QED BY <1>1, <2>1, AloneRaises
  <1>16. CASE HostSends \/ HostSendsRest \/ PeerEof \/ PeerReset
    BY <1>2, <1>16 DEF HostSends, HostSendsRest, PeerEof, PeerReset, object, callers
  <1>17. CASE UNCHANGED vars
    BY <1>2, <1>17 DEF vars, object, callers, wire
  <1>18. QED
    BY <1>3, <1>4, <1>5, <1>6, <1>7, <1>8, <1>9, <1>10, <1>11, <1>12, <1>13, <1>14, <1>15,
       <1>16, <1>17 DEF Next, Progress

-----------------------------------------------------------------------------
\* What is on its way: a frame's tail comes first or its head is the last thing
\* before it, and only the first chunk may have lost its head or be a scrap.
Pieces ==
    /\ net # <<>> \/ rest # <<>> => conn \in {"open", "eof", "closing", "closed"}
    /\ \A i \in 1..Len(net) :
          /\ net[i].part \in {"tail", "scrap"} => i = 1
          /\ net[i].part = "head" => i = Len(net)
          /\ net[i].id > 0
    /\ conn = "open" /\ rest = <<>> => \A i \in 1..Len(net) : net[i].part # "head"
    /\ rest # <<>> =>
          /\ rest[1].part = "tail" /\ rest[1].id > 0
          /\ net # <<>> => net[Len(net)].part = "head" /\ net[Len(net)].id = rest[1].id

\* What the caller has read of a frame whose end is still to come.
HeadRead(c) ==
    /\ buf[c] >= -1
    /\ net # <<>> /\ net[1].part = "scrap" => buf[c] = 0
    /\ buf[c] > 0 =>
          \/ net # <<>> /\ net[1].part = "tail" /\ net[1].id = buf[c]
          \/ net = <<>> /\ rest # <<>> /\ rest[1].id = buf[c]
          \/ net = <<>> /\ conn # "open"

Stream == Pieces /\ \A c \in Callers : HeadRead(c)

\* The first chunk and those behind it.
LEMMA FirstChunk ==
    ASSUME DataOK, net # <<>>
    PROVE  /\ Len(net) \in Nat /\ Len(net) > 0 /\ Head(net) = net[1] /\ net[1] \in Chunks
           /\ Len(Tail(net)) = Len(net) - 1
           /\ \A i \in 1..(Len(net) - 1) : Tail(net)[i] = net[i + 1]
           /\ Tail(net) = <<>> <=> Len(net) = 1
  <1>1. net \in Seq(Chunks)
    BY DEF DataOK
  <1>2. Len(net) \in Nat /\ Len(net) > 0 /\ Head(net) = net[1] /\ net[1] \in Chunks
    BY <1>1
  <1>3. /\ Tail(net) \in Seq(Chunks) /\ Len(Tail(net)) = Len(net) - 1
        /\ \A i \in 1..(Len(net) - 1) : Tail(net)[i] = net[i + 1]
    BY <1>1
  <1>4. Tail(net) = <<>> <=> Len(Tail(net)) = 0
    BY <1>3, EmptySeq
  <1>5. QED BY <1>2, <1>3, <1>4

\* Behind the first chunk there is no tail and no scrap.
LEMMA TailParts ==
    ASSUME DataOK, Pieces, net # <<>>
    PROVE  \A i \in 1..Len(Tail(net)) : /\ Tail(net)[i].part \notin {"tail", "scrap"}
                                        /\ Tail(net)[i].part = "head" => i = Len(Tail(net))
                                        /\ Tail(net)[i].id > 0
  <1>1. Len(Tail(net)) = Len(net) - 1 /\ Len(net) \in Nat /\ Len(Tail(net)) \in Nat
    BY FirstChunk
  <1>2. \A i \in 1..Len(Tail(net)) : i + 1 \in 1..Len(net) /\ Tail(net)[i] = net[i + 1]
    BY FirstChunk
  <1> SUFFICES ASSUME NEW i \in 1..Len(Tail(net))
               PROVE  /\ Tail(net)[i].part \notin {"tail", "scrap"}
                      /\ Tail(net)[i].part = "head" => i = Len(Tail(net))
                      /\ Tail(net)[i].id > 0
    OBVIOUS
  <1>3. i \in Int /\ i > 0 /\ i + 1 # 1 /\ i + 1 \in 1..Len(net) /\ Tail(net)[i] = net[i + 1]
    BY <1>2
  <1>4. /\ net[i + 1].part \in {"tail", "scrap"} => i + 1 = 1
        /\ net[i + 1].part = "head" => i + 1 = Len(net)
        /\ net[i + 1].id > 0
    BY <1>3 DEF Pieces
  <1>5. ASSUME i + 1 = Len(net) PROVE i = Len(Tail(net))
    <2>1. i = Len(net) - 1
      BY <1>3, <1>5
    <2>2. QED BY <1>1, <2>1
  <1>6. QED BY <1>3, <1>4, <1>5

\* Taking the first chunk off keeps the order of the others.
LEMMA PiecesTail ==
    ASSUME DataOK, Pieces, net # <<>>, net' = Tail(net), rest' = rest, conn' = conn
    PROVE  Pieces'
  <1>1. rest # <<>> /\ net' # <<>> => net'[Len(net')] = net[Len(net)]
    BY FirstChunk
  <1>2. QED BY <1>1, TailParts DEF Pieces

\* Once the rest of a frame is on its way, its head is not the chunk that ends one.
LEMMA TailHasHead ==
    ASSUME DataOK, Pieces, net # <<>>, Head(net).part # "head", rest # <<>>
    PROVE  Tail(net) # <<>>
  BY FirstChunk DEF Pieces

\* Every step keeps the pieces in order.
LEMMA PiecesStep == TypeOK /\ Places /\ Pieces /\ [Next]_vars => Pieces'
  <1> SUFFICES ASSUME DataOK, Places, Pieces, [Next]_vars PROVE Pieces'
    BY DEF TypeOK
  <1>1. ASSUME net' = net, rest' \in {rest, <<>>},
               conn' = conn \/ conn' \in {"eof", "closing", "closed"},
               conn' = "open" => rest' = rest
        PROVE  Pieces'
    BY <1>1 DEF Pieces
  <1>2. ASSUME net' = <<>>, rest' = <<>> PROVE Pieces'
    BY <1>2 DEF Pieces
  <1>3. ASSUME NEW c \in Callers, ReadHead(c) \/ ReadFrame(c) \/ Swallow(c) PROVE Pieces'
    BY <1>3, PiecesTail DEF ReadHead, ReadFrame, Swallow
  <1>4. ASSUME NEW c \in Callers, Split(c) PROVE Pieces'
    <2>1. /\ net # <<>> /\ Head(net).part = "tail" /\ net' = [net EXCEPT ![1].part = "scrap"]
          /\ rest' = rest /\ conn' = conn
      BY <1>4 DEF Split
    <2> DEFINE x == [net[1] EXCEPT !.part = "scrap"]
    <2>2. net[1] \in Chunks /\ net[1].part = "tail" /\ net \in Seq(Chunks)
      BY <2>1, FirstChunk DEF DataOK
    <2>3. x.part = "scrap" /\ x.id = net[1].id
      BY <2>2 DEF Chunks
    <2>4. net' = [net EXCEPT ![1] = x]
      BY <2>1
    <2> HIDE DEF x
    <2>5. Len(net') = Len(net) /\ \A i \in 1..Len(net) : net'[i] = IF i = 1 THEN x ELSE net[i]
      BY <2>2, <2>4
    <2>6. Len(net) \in Nat /\ Len(net) > 0 /\ net' # <<>> /\ net # <<>>
      BY <2>1, <2>5, FirstChunk
    <2>7. rest # <<>> => Len(net) # 1
      BY <2>1, <2>2, <2>6 DEF Pieces
    <2>8. QED BY <2>1, <2>3, <2>5, <2>6, <2>7 DEF Pieces
  <1>5. CASE HostSends
    <2>1. PICK m \in Messages, whole \in BOOLEAN :
            /\ net' = Append(net, NewChunk(m, whole))
            /\ rest' = IF whole THEN <<>> ELSE <<[NewChunk(m, whole) EXCEPT !.part = "tail"]>>
      BY <1>5 DEF HostSends
    <2> DEFINE x == NewChunk(m, whole)
    <2>2. /\ x \in Chunks /\ x.part = (IF whole THEN "whole" ELSE "head") /\ x.id > 0
      BY DEF NewChunk, DataOK, Chunks
    <2>3. rest = <<>> /\ conn = "open" /\ conn' = "open"
      BY <1>5 DEF HostSends
    <2> HIDE DEF x
    <2>4. /\ Len(net') = Len(net) + 1 /\ Len(net) \in Nat
          /\ \A i \in 1..Len(net') : net'[i] = IF i = Len(net) + 1 THEN x ELSE net[i]
      BY <2>1, <2>2 DEF x, DataOK
    <2>5. \A i \in 1..Len(net) : net[i].part # "head" /\ net[i].id > 0
                                 /\ (net[i].part \in {"tail", "scrap"} => i = 1)
      BY <2>3 DEF Pieces
    <2>6. net' # <<>> /\ net'[Len(net')] = x
      BY <2>4
    <2>7. \A i \in 1..Len(net') : i \in 1..Len(net) \/ i = Len(net')
      BY <2>4
    <2>8. \A i \in 1..Len(net') : /\ net'[i].part \in {"tail", "scrap"} => i = 1
                                  /\ net'[i].part = "head" => i = Len(net') /\ ~whole
                                  /\ net'[i].id > 0
      BY <2>2, <2>4, <2>5, <2>7
    <2>9. CASE whole
      <3>1. rest' = <<>>
        BY <2>1, <2>9
      <3>2. QED BY <2>3, <2>8, <2>9, <3>1 DEF Pieces
    <2>10. CASE ~whole
      <3>1. rest' = <<[x EXCEPT !.part = "tail"]>>
        BY <2>1, <2>10 DEF x
      <3>2. rest' # <<>> /\ rest'[1].part = "tail" /\ rest'[1].id = x.id
        BY <2>2, <3>1 DEF Chunks
      <3>3. QED BY <2>2, <2>3, <2>6, <2>8, <2>10, <3>2 DEF Pieces
    <2>11. QED BY <2>9, <2>10
  <1>6. CASE HostSendsRest
    <2>1. /\ rest # <<>> /\ rest' = <<>> /\ conn = "open" /\ conn' = "open"
          /\ rest[1] \in Chunks /\ rest[1].part = "tail" /\ rest[1].id > 0
      BY <1>6 DEF HostSendsRest, Pieces, DataOK
    <2>2. CASE net = <<>>
      <3>1. net' = <<rest[1]>>
        BY <1>6, <2>2 DEF HostSendsRest
      <3>2. QED BY <2>1, <3>1 DEF Pieces
    <2>3. CASE net # <<>>
      <3> DEFINE x == [rest[1] EXCEPT !.part = "whole"]
      <3>1. /\ Len(net) \in Nat /\ Len(net) > 0
            /\ net[Len(net)].part = "head"
        BY <2>1, <2>3, FirstChunk DEF Pieces
      <3>2. net' = [net EXCEPT ![Len(net)] = x]
        BY <1>6, <3>1 DEF HostSendsRest
      <3>3. x.part = "whole" /\ x.id > 0
        BY <2>1 DEF Chunks
      <3> HIDE DEF x
      <3>4. Len(net') = Len(net) /\ \A i \in 1..Len(net) : net'[i] = IF i = Len(net) THEN x ELSE net[i]
        BY <3>1, <3>2 DEF DataOK
      <3>5. QED BY <2>1, <3>1, <3>3, <3>4 DEF Pieces
    <2>4. QED BY <2>2, <2>3
  <1>7. CASE PeerEof \/ PeerReset
    BY <1>1, <1>2, <1>7 DEF PeerEof, PeerReset
  <1>8. ASSUME NEW c \in Callers, Connect(c) \/ TcpUp(c) \/ TcpFails(c) PROVE Pieces'
    <2>1. net' = net /\ rest' = rest /\ conn \in {"none", "connecting"}
      BY <1>8 DEF Connect, TcpUp, TcpFails, Places
    <2>2. net = <<>> /\ rest = <<>>
      BY <2>1 DEF Pieces
    <2>3. QED BY <1>2, <2>1, <2>2
  <1>9. ASSUME NEW c \in Callers,
               \/ SendKey(c) \/ Disconnect(c) \/ Negotiated(c) \/ Drain(c) \/ Park(c)
               \/ DrainReply(c) \/ Timeout(c) \/ ReadFails(c) \/ CloseDone(c)
        PROVE  Pieces'
    <2>1. net' = net /\ rest' = rest /\ (conn' = conn \/ conn' \in {"closing", "closed"})
      BY <1>9 DEF SendKey, Disconnect, Negotiated, Drain, Park, DrainReply, Timeout,
                  ReadFails, CloseDone, wire
    <2>2. QED BY <1>1, <2>1
  <1>10. CASE UNCHANGED vars
    BY <1>1, <1>10 DEF vars, wire
  <1>11. QED
    BY <1>3, <1>4, <1>5, <1>6, <1>7, <1>8, <1>9, <1>10 DEF Next, Progress

\* Every step keeps what the caller has read of a frame in step with the rest.
LEMMA StreamStep ==
    OneCaller /\ TypeOK /\ Places /\ Alone /\ Stream /\ [Next]_vars => Stream'
  <1> SUFFICES ASSUME OneCaller, DataOK, Alone, Pieces, \A c \in Callers : HeadRead(c),
                      [Next]_vars, Pieces'
               PROVE  \A c \in Callers : HeadRead(c)'
    BY PiecesStep DEF TypeOK, Stream
  <1>1. ASSUME NEW c \in Callers, HeadRead(c)' PROVE \A d \in Callers : HeadRead(d)'
    BY <1>1 DEF OneCaller
  <1>2. ASSUME NEW c \in Callers, buf'[c] = 0 PROVE HeadRead(c)'
    BY <1>2 DEF HeadRead
  <1>3. ASSUME UNCHANGED <<net, rest, buf>>, conn' = "open" => conn = "open"
        PROVE  \A c \in Callers : HeadRead(c)'
    BY <1>3 DEF HeadRead
  <1>4. ASSUME NEW c \in Callers, ReadHead(c) PROVE HeadRead(c)'
    <2>1. /\ net # <<>> /\ net' = Tail(net) /\ rest' = rest /\ conn' = conn
          /\ net[1].part = "head"
          /\ buf'[c] = IF buf[c] = 0 THEN net[1].id ELSE -1
      BY <1>4, FirstChunk DEF ReadHead, DataOK
    <2>2. Len(net) = 1 /\ net' = <<>> /\ net[1].id > 0 /\ net[Len(net)] = net[1]
      <3>1. 1 \in 1..Len(net)
        BY <2>1, FirstChunk
      <3>2. Len(net) = 1 /\ net[1].id > 0
        BY <2>1, <3>1 DEF Pieces
      <3>3. QED BY <2>1, <3>2, FirstChunk
    <2>3. conn = "open" => rest # <<>> /\ rest[1].id = net[1].id
      BY <2>1, <2>2 DEF Pieces
    <2>4. net[1].id \in Int
      BY <2>1, FirstChunk DEF Chunks
    <2>5. QED BY <2>1, <2>2, <2>3, <2>4 DEF HeadRead
  <1>5. ASSUME NEW c \in Callers, Swallow(c) PROVE HeadRead(c)'
    <2>1. net # <<>> /\ net' = Tail(net) /\ buf'[c] = -1
      BY <1>5 DEF Swallow, DataOK
    <2>2. net' # <<>> => 1 \in 1..Len(net')
      BY <2>1, FirstChunk
    <2>3. net' # <<>> => net'[1].part # "scrap"
      BY <2>1, <2>2, TailParts
    <2>4. QED BY <2>1, <2>3 DEF HeadRead
  <1>6. ASSUME NEW c \in Callers, ReadFrame(c) \/ Split(c) PROVE buf'[c] = 0
    <2>1. AloneAt(c) /\ HasWriter /\ pc[c] \in BusyPcs \ {"reply", "parsing"} /\ conn # "reset"
      BY <1>6, BusyConnection DEF ReadFrame, Split, Reading, BusyPcs, Alone
    <2>2. PICK m \in Messages \cup {Nothing} : \E own : Dispatch(c, m, own)
      BY <1>6, HeardMessage DEF ReadFrame, Split
    <2>3. QED BY <2>1, <2>2, DispatchAlone, LoopTopEmpties
  <1>7. CASE HostSends
    <2>1. PICK m \in Messages, whole \in BOOLEAN : net' = Append(net, NewChunk(m, whole))
      BY <1>7 DEF HostSends
    <2>2. /\ NewChunk(m, whole).part \in {"whole", "head"}
          /\ rest = <<>> /\ conn = "open" /\ buf' = buf
      BY <1>7 DEF HostSends, NewChunk, callers
    <2>3. CASE net = <<>>
      <3>1. net'[1].part \in {"whole", "head"}
        BY <2>1, <2>2, <2>3
      <3>2. QED BY <2>2, <2>3, <3>1 DEF HeadRead
    <2>4. CASE net # <<>>
      <3>1. net' # <<>> /\ net'[1] = net[1]
        BY <2>1, <2>4 DEF DataOK
      <3>2. QED BY <2>2, <2>4, <3>1 DEF HeadRead
    <2>5. QED BY <2>3, <2>4
  <1>8. CASE HostSendsRest
    <2>1. rest # <<>> /\ rest[1].part = "tail" /\ buf' = buf /\ conn' = conn /\ conn = "open"
      BY <1>8 DEF HostSendsRest, Pieces, callers
    <2>2. CASE net = <<>>
      <3>1. net' = <<rest[1]>>
        BY <1>8, <2>2 DEF HostSendsRest
      <3>2. net' # <<>> /\ net'[1] = rest[1]
        BY <3>1
      <3>3. QED BY <2>1, <2>2, <3>2 DEF HeadRead
    <2>3. CASE net # <<>>
      <3> DEFINE x == [rest[1] EXCEPT !.part = "whole"]
      <3>1. Len(net) \in Nat /\ Len(net) > 0 /\ net[Len(net)].part = "head"
        BY <2>1, <2>3, FirstChunk DEF Pieces
      <3>2. net' = [net EXCEPT ![Len(net)] = x]
        BY <1>8, <3>1 DEF HostSendsRest
      <3>3. x.part = "whole"
        BY <2>1 DEF DataOK, Chunks
      <3> HIDE DEF x
      <3>4. net' # <<>> /\ net'[1] = IF Len(net) = 1 THEN x ELSE net[1]
        BY <3>1, <3>2 DEF DataOK
      <3>5. QED BY <2>1, <2>3, <3>1, <3>3, <3>4 DEF HeadRead
    <2>4. QED BY <2>2, <2>3
  <1>9. CASE PeerEof \/ PeerReset
    BY <1>9 DEF PeerEof, PeerReset, callers, HeadRead
  <1>10. ASSUME NEW c \in Callers,
                \/ Connect(c) \/ SendKey(c) \/ Disconnect(c) \/ CloseDone(c)
         PROVE  \A d \in Callers : HeadRead(d)'
    <2>1. UNCHANGED <<net, rest, buf>> /\ (conn' = "open" => conn = "open")
      BY <1>10 DEF Connect, SendKey, Disconnect, CloseDone, Closed, wire
    <2>2. QED BY <1>3, <2>1
  <1>11. ASSUME NEW c \in Callers, TcpUp(c) \/ Park(c) PROVE \A d \in Callers : HeadRead(d)'
    <2>1. CASE TcpUp(c)
      <3>1. buf'[c] = 0
        BY <2>1 DEF TcpUp, Alone, AloneAt
      <3>2. QED BY <1>1, <1>2, <3>1
    <2>2. CASE Park(c)
      <3>1. UNCHANGED <<net, rest, conn>> /\ (buf' = buf \/ buf'[c] = 0)
        BY <2>2 DEF Park, Raise, DataOK
      <3>2. QED BY <1>1, <1>2, <1>3, <3>1
    <2>3. QED BY <1>11, <2>1, <2>2
  <1>12. ASSUME NEW c \in Callers,
                \/ TcpFails(c) \/ Negotiated(c) \/ Drain(c) \/ DrainReply(c) \/ Timeout(c)
                \/ ReadFails(c)
         PROVE  buf'[c] = 0
    <2>1. CASE \E e : Raise(c, e)
      BY <2>1 DEF Raise, DataOK
    <2>2. CASE pc[c] \in BusyPcs /\ \E lk, to, scr : LoopTop(c, lk, to, scr, FALSE)
      BY <2>2, BusyConnection, LoopTopEmpties DEF Alone
    <2>3. CASE Timeout(c)
      BY <2>3, BusyConnection, LeaveEnds DEF Timeout, Alone, BusyPcs
    <2>4. QED
      BY <1>12, <2>1, <2>2, <2>3
         DEF TcpFails, Negotiated, Drain, DrainReply, ReadFails, BusyPcs
  <1>13. CASE UNCHANGED vars
    BY <1>3, <1>13 DEF vars, callers, wire
  <1>14. QED
    BY <1>1, <1>2, <1>4, <1>5, <1>6, <1>7, <1>8, <1>9, <1>10, <1>11, <1>12, <1>13
       DEF Next, Progress

-----------------------------------------------------------------------------
\* The credentials.

\* connect() sends the first request of a session, the credentials are the second,
\* and the host answers no request before it was sent.
Once ==
    /\ conn \in {"none", "connecting"} => sent = 0
    /\ hostAt <= sent
    /\ \A c \in Callers : call[c] = "connect" => sent <= 1
    /\ credsAt <= 1

\* Every step keeps that.
LEMMA OnceStep ==
    OneCaller /\ TypeOK /\ InOrder /\ Alone /\ Once /\ [Next]_vars => Once'
  <1> SUFFICES ASSUME OneCaller, FlagsOK, DataOK, DataOK', InOrder', Alone, Once, [Next]_vars
               PROVE  Once'
    BY InOrderStep, DataStep DEF TypeOK
  <1>1. /\ sent \in Nat /\ sent' \in Nat /\ answered' \in Nat /\ hostAt \in Nat /\ hostAt' \in Nat
        /\ answered' <= hostAt' /\ hostAt <= sent
    BY DEF DataOK, InOrder, Once
  <1>2. ASSUME sent' = sent, credsAt' = credsAt, hostAt' = hostAt,
               conn' \in {"none", "connecting"} => conn \in {"none", "connecting"},
               \A c \in Callers : call'[c] = "connect" => call[c] = "connect"
        PROVE  Once'
    BY <1>2 DEF Once
  <1>3. ASSUME NEW c \in Callers, pc[c] \in BusyPcs, conn' = conn, hostAt' = hostAt,
               NEW to, NEW scr, NEW own, Leave(c, to, scr, own)
        PROVE  Once'
    <2>1. conn \notin {"none", "connecting"} /\ HasWriter
      BY <1>3, BusyConnection DEF Alone
    <2>2. CASE pc' = [pc EXCEPT ![c] = "idle"] /\ call'[c] = "none" /\ sent' = sent /\ credsAt' = credsAt
      BY <1>2, <1>3, <2>1, <2>2 DEF OneCaller
    <2>3. CASE call'[c] = "signon" /\ call[c] = "connect" /\ sent' = sent + 1 /\ credsAt' = answered'
      <3>1. sent <= 1
        BY <2>3 DEF Once
      <3>2. credsAt' <= 1 /\ hostAt' <= sent'
        BY <1>1, <1>3, <2>3, <3>1
      <3>3. QED BY <1>3, <2>1, <2>3, <3>2 DEF OneCaller, Once
    <2>4. QED BY <1>3, <2>1, <2>2, <2>3, LeaveEnds
  <1>4. ASSUME NEW c \in Callers, pc[c] \in BusyPcs, conn' = conn, hostAt' = hostAt,
               NEW lk \in BOOLEAN, NEW to, NEW scr, NEW own, LoopTop(c, lk, to, scr, own)
        PROVE  Once'
    <2>1. CASE lk
      BY <1>2, <1>4, <2>1, LoopTopWaits
    <2>2. CASE ~lk
      BY <1>3, <1>4, <2>2 DEF LoopTop
    <2>3. QED BY <2>1, <2>2
  <1>5. ASSUME NEW c \in Callers, Connect(c) PROVE Once'
    <2>1. /\ conn = "none" /\ sent' = sent /\ credsAt' = credsAt /\ hostAt' = hostAt
      BY <1>5 DEF Connect, history, host
    <2>2. sent = 0
      BY <2>1 DEF Once
    <2>3. QED BY <2>1, <2>2, <1>1 DEF Once
  <1>6. ASSUME NEW c \in Callers, TcpUp(c) PROVE Once'
    <2>1. conn = "connecting"
      BY <1>6 DEF TcpUp, Alone, AloneAt
    <2>2. /\ sent = 0 /\ sent' = sent + 1 /\ credsAt' = credsAt /\ hostAt' = hostAt
          /\ conn' = "open" /\ call' = call
      BY <1>6, <2>1 DEF TcpUp, host, Once
    <2>3. QED BY <2>2, <1>1 DEF Once
  <1>7. ASSUME NEW c \in Callers, SendKey(c) PROVE Once'
    <2>1. conn \in {"open", "eof", "reset"} /\ HasWriter
      BY <1>7 DEF SendKey, Alone, AloneAt, DataOK, HasWriter, Writable
    <2>2. /\ sent' = sent + 1 /\ credsAt' = credsAt /\ hostAt' = hostAt /\ conn' = conn
          /\ call'[c] = "key"
      BY <1>7, <2>1 DEF SendKey, host, wire, DataOK
    <2>3. QED BY <1>1, <2>1, <2>2 DEF Once, OneCaller
  <1>8. ASSUME NEW c \in Callers,
               \/ Disconnect(c) \/ CloseDone(c) \/ Park(c) \/ ReadHead(c) \/ Swallow(c)
               \/ TcpFails(c) \/ ReadFails(c)
        PROVE  Once'
    <2>1. /\ sent' = sent /\ credsAt' = credsAt /\ hostAt' = hostAt
          /\ conn' \in {"none", "connecting"} => conn \in {"none", "connecting"}
      BY <1>8 DEF Disconnect, CloseDone, Park, ReadHead, Swallow, TcpFails, ReadFails,
                  wire, host, history
    <2>2. call' = call \/ call' = [call EXCEPT ![c] = "none"]
      BY <1>8 DEF Disconnect, CloseDone, Closed, Park, ReadHead, Swallow, TcpFails, ReadFails, Raise
    <2>3. QED BY <1>2, <2>1, <2>2 DEF DataOK
  <1>9. ASSUME NEW c \in Callers, Negotiated(c) \/ Drain(c) \/ DrainReply(c) PROVE Once'
    <2>1. /\ pc[c] \in BusyPcs /\ hostAt' = hostAt /\ conn' = conn
      BY <1>9 DEF Negotiated, Drain, DrainReply, BusyPcs, wire, host
    <2>2. CASE \E to : LoopTop(c, locked, to, screen, FALSE)
      BY <1>4, <2>1, <2>2 DEF FlagsOK
    <2>3. CASE Raise(c, "oserror") /\ sent' = sent /\ credsAt' = credsAt
      BY <1>2, <2>1, <2>3 DEF Raise, DataOK
    <2>4. QED BY <1>9, <2>2, <2>3 DEF Negotiated, Drain, DrainReply
  <1>10. ASSUME NEW c \in Callers, Timeout(c) PROVE Once'
    BY <1>3, <1>10 DEF Timeout, BusyPcs, host
  <1>11. ASSUME NEW c \in Callers, ReadFrame(c) \/ Split(c) PROVE Once'
    <2>1. AloneAt(c) /\ pc[c] \in BusyPcs \ {"reply", "parsing"} /\ conn # "reset" /\ conn' = conn /\ hostAt' = hostAt
      BY <1>11 DEF ReadFrame, Split, Reading, BusyPcs, Alone
    <2>2. PICK m \in Messages \cup {Nothing} : \E own : Dispatch(c, m, own)
      BY <1>11, HeardMessage DEF ReadFrame, Split
    <2>3. CASE UNCHANGED <<call, result, held, sent, credsAt>>
      BY <1>2, <2>1, <2>3
    <2>4. QED BY <1>4, <2>1, <2>2, <2>3, DispatchAlone
  <1>12. CASE HostSends
    <2>1. /\ sent' = sent /\ credsAt' = credsAt /\ conn' = conn /\ call' = call /\ hostAt' <= sent
      BY <1>1, <1>12 DEF HostSends, callers, history
    <2>2. QED BY <2>1 DEF Once
  <1>13. CASE HostSendsRest \/ PeerEof \/ PeerReset
    BY <1>2, <1>13 DEF HostSendsRest, PeerEof, PeerReset, callers, host, history
  <1>14. CASE UNCHANGED vars
    BY <1>2, <1>14 DEF vars, callers, wire, host, history
  <1>15. QED
    BY <1>5, <1>6, <1>7, <1>8, <1>9, <1>10, <1>11, <1>12, <1>13, <1>14 DEF Next, Progress

\* With one tool call at a time, the credentials never answer a screen that a key
\* has led to (connect(), _auto_signon()).
THEOREM CredentialsTheorem == ASSUME OneCaller PROVE Spec => []InitialScreenOnly
  <1> DEFINE Inv == TypeOK /\ InOrder /\ Alone /\ Once
  <1>1. Init => Inv
    BY InitType, NoCallerOutside
       DEF Init, InOrder, Alone, AloneAt, Once, BusyPcs
  <1>2. Inv /\ [Next]_vars => Inv'
    BY FlagsStep, DataStep, InOrderStep, AloneStep, OnceStep DEF TypeOK
  <1>3. Inv => InitialScreenOnly
    BY DEF Once, InitialScreenOnly
  <1>4. QED BY <1>1, <1>2, <1>3, PTL DEF Spec

-----------------------------------------------------------------------------
\* The screen of a single caller.

\* How many screens a torn frame may still be taken for: a tail without its head
\* two, the rest of a cut one or a read that is out of step one.
Torn(c) ==
    CASE buf[c] = -1                            -> 1
      [] buf[c] = 0 /\ net = <<>> /\ rest # <<>> -> 2
      [] buf[c] = 0 /\ net # <<>> /\ net[1].part = "tail"  -> 2
      [] buf[c] = 0 /\ net # <<>> /\ net[1].part = "scrap" -> 1
      [] OTHER -> 0

\* The call in progress, which has its answer still to come.
Lead(c) == IF pc[c] \in BusyPcs THEN 1 ELSE 0

\* As long as something can still be read: each timeout accounts for three
\* screens that were no answers, those still to come from a torn frame included.
Alive == conn \in {"none", "connecting", "open"} \/ net # <<>>

Counted ==
    \A c \in Callers : Alive => sent - answered + Torn(c) - Lead(c) <= 3 * expired

\* Both are small numbers.
LEMMA TornType ==
    ASSUME NEW c
    PROVE  Torn(c) \in 0..2 /\ Lead(c) \in 0..1 /\ Torn(c)' \in 0..2 /\ Lead(c)' \in 0..1
  BY DEF Torn, Lead

\* Leaving the loop takes the call's own request with it.
LEMMA LeaveLead ==
    ASSUME DataOK, NEW c \in Callers, HasWriter,
           NEW to, NEW scr, NEW own, Leave(c, to, scr, own)
    PROVE  sent' - Lead(c)' = sent
  <1>1. \/ pc'[c] = "idle" /\ sent' = sent
        \/ pc'[c] = "drain" /\ sent' = sent + 1
    BY LeaveEnds DEF DataOK
  <1>2. sent \in Nat
    BY DEF DataOK
  <1>3. QED BY <1>1, <1>2 DEF Lead, BusyPcs

\* A frame the caller cannot take for the host's was torn.
LEMMA NotIntactTorn ==
    ASSUME DataOK, Pieces, NEW c \in Callers, HeadRead(c), net # <<>>,
           Head(net).part # "head", ~Intact(c, Head(net))
    PROVE  Torn(c) >= 1
  <1>1. /\ Head(net) = net[1]
        /\ net[1].part \in {"whole", "tail", "scrap"}
    BY FirstChunk DEF Chunks
  <1>2. buf[c] \in Int /\ buf[c] >= -1
    BY DEF DataOK, HeadRead
  <1>3. CASE buf[c] > 0
    BY <1>1, <1>2, <1>3 DEF Intact, HeadRead
  <1>4. CASE buf[c] = 0
    BY <1>1, <1>4 DEF Intact, Torn
  <1>5. CASE buf[c] = -1
    BY <1>5 DEF Torn
  <1>6. QED BY <1>2, <1>3, <1>4, <1>5

\* Once a frame is read to its end, nothing that was torn is left.
LEMMA NothingTorn ==
    ASSUME DataOK, Pieces, NEW c \in Callers, net # <<>>, Head(net).part # "head",
           net' = Tail(net), rest' = rest, buf'[c] = 0
    PROVE  Torn(c)' = 0
  <1>1. net' = <<>> => rest' = <<>>
    BY TailHasHead
  <1>2. net' # <<>> => net'[1].part \notin {"tail", "scrap"}
    <2>1. net' # <<>> => 1 \in 1..Len(net')
      BY FirstChunk
    <2>2. QED BY <2>1, TailParts
  <1>3. QED BY <1>1, <1>2 DEF Torn

\* A frame that unlocks the keyboard intact brings the answer to a request.
LEMMA IntactAnswers ==
    ASSUME DataOK, InOrder, Marked, net # <<>>, Head(net).part # "head", Inviting(Head(net).msg)
    PROVE  Head(net).answers >= answered + 1 /\ Head(net).answers \in Nat
  <1>1. Head(net) = net[1] /\ 1 \in 1..Len(net) /\ net[1].answers \in Nat /\ answered \in Nat
    BY FirstChunk DEF Chunks, DataOK
  <1>2. answered < net[1].answers
    BY <1>1 DEF InOrder, IsAnswer, Marked
  <1>3. QED BY <1>1, <1>2

\* What a frame does to the count: a screen that is no answer uses up a torn one.
LEMMA ReadCounted ==
    ASSUME DataOK, DataOK', InOrder, Marked, NEW c \in Callers, AloneAt(c), Pieces, HeadRead(c),
           sent - answered + Torn(c) - Lead(c) <= 3 * expired,
           ReadFrame(c) \/ Split(c)
    PROVE  sent' - answered' + Torn(c)' - Lead(c)' <= 3 * expired'
  <1>1. /\ pc[c] \in BusyPcs \ {"reply", "parsing"} /\ conn # "reset" /\ net # <<>>
        /\ expired' = expired /\ rest' = rest
    BY DEF ReadFrame, Split, Reading, BusyPcs
  <1>2. HasWriter /\ Lead(c) = 1
    BY <1>1, BusyConnection DEF Lead
  <1>3. /\ sent \in Nat /\ answered \in Nat /\ expired \in Nat
        /\ Torn(c) \in 0..2 /\ sent' \in Nat /\ Lead(c)' \in 0..1
    BY TornType DEF DataOK
  <1>4. ASSUME NEW m \in Messages \cup {Nothing}, NEW own, Dispatch(c, m, own)
        PROVE  /\ buf'[c] = 0
               /\ \/ sent' - Lead(c)' = sent - 1
                  \/ sent' - Lead(c)' = sent /\ Inviting(m)
    <2>1. CASE /\ \E p \in {"reply", "parsing"} : pc' = [pc EXCEPT ![c] = p]
               /\ buf'[c] = 0 /\ sent' = sent
      BY <1>3, <2>1 DEF DataOK, Lead, BusyPcs
    <2>2. ASSUME LoopTop(c, LockAfter(m), timedOut, ScreenAfter(m), own),
                 LockAfter(m) \in BOOLEAN, ~LockAfter(m) => Inviting(m)
          PROVE  /\ buf'[c] = 0
                 /\ \/ sent' - Lead(c)' = sent - 1
                    \/ sent' - Lead(c)' = sent /\ Inviting(m)
      <3>1. CASE LockAfter(m)
        <4>1. pc'[c] = "wait" /\ sent' = sent /\ buf'[c] = 0
          BY <2>2, <3>1, LoopTopWaits DEF DataOK
        <4>2. QED BY <1>3, <4>1 DEF Lead, BusyPcs
      <3>2. CASE ~LockAfter(m)
        BY <1>2, <2>2, <3>2, LeaveLead, LoopTopEmpties DEF LoopTop
      <3>3. QED BY <2>2, <3>1, <3>2
    <2>3. QED BY <1>1, <1>4, <2>1, <2>2, DispatchAlone
  <1>5. CASE ReadFrame(c)
    <2>1. /\ Head(net).part # "head" /\ net' = Tail(net)
          /\ answered' = IF Head(net).answers > answered THEN Head(net).answers ELSE answered
          /\ Head(net).answers \in Nat
      BY <1>1, <1>5, FirstChunk DEF ReadFrame, Chunks
    <2>2. PICK m \in Heard(c, Head(net)) : \E own : Dispatch(c, m, own)
      BY <1>5 DEF ReadFrame
    <2>3. m \in Messages \cup {Nothing}
      BY <1>1, <2>2, HeardMessage
    <2>4. /\ buf'[c] = 0
          /\ \/ sent' - Lead(c)' = sent - 1
             \/ sent' - Lead(c)' = sent /\ Inviting(m)
      BY <1>4, <2>2, <2>3
    <2>5. Torn(c)' = 0
      BY <1>1, <2>1, <2>4, NothingTorn
    <2>6. answered' \in Nat /\ answered' >= answered
      BY <1>3, <2>1
    <2>7. CASE sent' - Lead(c)' = sent - 1
      BY <1>1, <1>2, <1>3, <2>5, <2>6, <2>7
    <2>8. CASE sent' - Lead(c)' = sent /\ Inviting(m)
      <3>1. CASE Intact(c, Head(net))
        <4>1. m = Head(net).msg
          BY <2>2, <3>1 DEF Heard
        <4>2. Head(net).answers >= answered + 1
          BY <1>1, <2>1, <2>8, <4>1, IntactAnswers
        <4>3. answered' >= answered + 1
          BY <1>3, <2>1, <4>2
        <4>4. QED BY <1>1, <1>2, <1>3, <2>5, <2>6, <2>8, <4>3
      <3>2. CASE ~Intact(c, Head(net))
        <4>1. Torn(c) >= 1
          BY <1>1, <2>1, <3>2, NotIntactTorn
        <4>2. QED BY <1>1, <1>2, <1>3, <2>5, <2>6, <2>8, <4>1
      <3>3. QED BY <3>1, <3>2
    <2>9. QED BY <2>4, <2>7, <2>8
  <1>6. CASE Split(c)
    <2>1. /\ Head(net).part = "tail" /\ buf[c] = 0 /\ net' = [net EXCEPT ![1].part = "scrap"]
          /\ answered' = answered
      BY <1>6 DEF Split
    <2>2. Torn(c) = 2
      BY <1>1, <2>1, FirstChunk DEF Torn
    <2>3. PICK m \in Messages \cup {Nothing} : Dispatch(c, m, FALSE)
      BY <1>6 DEF Split
    <2>4. buf'[c] = 0 /\ sent' - Lead(c)' \in {sent - 1, sent}
      BY <1>4, <2>3
    <2>5. net' # <<>> /\ net'[1].part = "scrap"
      <3>1. net \in Seq(Chunks) /\ net # <<>> /\ Len(net) \in Nat /\ 1 \in 1..Len(net) /\ net[1] \in Chunks
        BY <1>1, FirstChunk DEF DataOK
      <3>2. net'[1] = [net[1] EXCEPT !.part = "scrap"] /\ Len(net') = Len(net)
        BY <2>1, <3>1
      <3>3. QED BY <3>1, <3>2 DEF Chunks
    <2>6. Torn(c)' = 1
      BY <2>4, <2>5 DEF Torn
    <2>7. QED BY <1>1, <1>2, <1>3, <2>1, <2>2, <2>4, <2>6
  <1>7. QED BY <1>5, <1>6

\* A frame that is sent tears nothing,
LEMMA SendTears ==
    ASSUME DataOK, NEW c \in Callers, HostSends, buf' = buf
    PROVE  Torn(c)' <= Torn(c)
  <1>1. PICK m \in Messages, whole \in BOOLEAN : net' = Append(net, NewChunk(m, whole))
    BY DEF HostSends
  <1>2. NewChunk(m, whole).part \in {"whole", "head"} /\ rest = <<>>
    BY DEF HostSends, NewChunk
  <1>3. CASE buf[c] # 0
    <2>1. Torn(c)' = Torn(c)
      BY <1>3 DEF Torn
    <2>2. QED BY <2>1, TornType
  <1>4. CASE buf[c] = 0 /\ net = <<>>
    <2>1. net' # <<>> /\ net'[1].part \in {"whole", "head"}
      BY <1>1, <1>2, <1>4
    <2>2. Torn(c)' = 0
      BY <1>4, <2>1 DEF Torn
    <2>3. QED BY <2>2, TornType
  <1>5. CASE buf[c] = 0 /\ net # <<>>
    <2>1. net' # <<>> /\ net'[1] = net[1]
      <3>1. net \in Seq(Chunks) /\ NewChunk(m, whole) \in Chunks
        BY <1>2 DEF DataOK, NewChunk, Chunks
      <3>2. 1 \in 1..Len(net) /\ net' = Append(net, NewChunk(m, whole))
        BY <1>1, <1>5, <3>1, EmptySeq
      <3>3. Len(net') = Len(net) + 1 /\ net'[1] = net[1]
        BY <3>1, <3>2, AppendProperties
      <3>4. QED BY <3>1, <3>3, EmptySeq
    <2>2. Torn(c)' = Torn(c)
      BY <1>5, <2>1 DEF Torn
    <2>3. QED BY <2>2, TornType
  <1>6. QED BY <1>3, <1>4, <1>5

\* and the rest of one only moves on.
LEMMA RestTears ==
    ASSUME DataOK, Pieces, NEW c \in Callers, HostSendsRest, buf' = buf
    PROVE  Torn(c)' <= Torn(c)
  <1>1. rest # <<>> /\ rest[1].part = "tail" /\ rest[1] \in Chunks
    BY DEF HostSendsRest, Pieces, DataOK
  <1>2. CASE buf[c] # 0
    <2>1. Torn(c)' = Torn(c)
      BY <1>2 DEF Torn
    <2>2. QED BY <2>1, TornType
  <1>3. CASE buf[c] = 0 /\ net = <<>>
    <2>1. Torn(c) = 2
      BY <1>1, <1>3 DEF Torn
    <2>2. QED BY <2>1, TornType
  <1>4. CASE buf[c] = 0 /\ net # <<>>
    <2> DEFINE x == [rest[1] EXCEPT !.part = "whole"]
    <2>1. Len(net) \in Nat /\ Len(net) > 0 /\ net[Len(net)].part = "head"
      BY <1>1, <1>4, FirstChunk DEF Pieces
    <2>2. net' = [net EXCEPT ![Len(net)] = x]
      BY <2>1 DEF HostSendsRest
    <2>3. x.part = "whole"
      BY <1>1 DEF Chunks
    <2> HIDE DEF x
    <2>4. net' # <<>> /\ net'[1] = IF Len(net) = 1 THEN x ELSE net[1]
      BY <2>1, <2>2 DEF DataOK
    <2>5. CASE Len(net) = 1
      <3>1. Torn(c)' = 0
        BY <1>4, <2>3, <2>4, <2>5 DEF Torn
      <3>2. QED BY <3>1, TornType
    <2>6. CASE Len(net) # 1
      <3>1. Torn(c)' = Torn(c)
        BY <1>4, <2>4, <2>6 DEF Torn
      <3>2. QED BY <3>1, TornType
    <2>7. QED BY <2>5, <2>6
  <1>5. QED BY <1>2, <1>3, <1>4

\* What is torn only adds to the lag.
LEMMA AtMostTorn ==
    ASSUME NEW s \in Nat, NEW a \in Nat, NEW e \in Nat, NEW t \in 0..2, NEW l \in 0..1,
           l = 0, s - a + t - l <= 3 * e
    PROVE  s - a <= 3 * e
  OBVIOUS

\* No step leaves the only caller with a screen that is further behind.
LEMMA CountedStep ==
    /\ OneCaller /\ TypeOK /\ Places /\ InOrder /\ Marked /\ Alone /\ Stream /\ Counted /\ UpToDate
    /\ [Next]_vars
    => (Counted /\ UpToDate)'
  <1> SUFFICES ASSUME OneCaller, FlagsOK, DataOK, DataOK', InOrder, Marked, Alone, Alone', Pieces,
                      \A c \in Callers : HeadRead(c), Counted, UpToDate, [Next]_vars
               PROVE  (Counted /\ UpToDate)'
    BY DataStep, AloneStep DEF TypeOK, Stream
  <1>1. /\ sent \in Nat /\ answered \in Nat /\ expired \in Nat
        /\ sent' \in Nat /\ answered' \in Nat /\ expired' \in Nat
    BY DEF DataOK
  \* A caller at work has no screen, one that is not has no request of its own.
  <1>2. ASSUME NEW c \in Callers, sent' - answered' + Torn(c)' - Lead(c)' <= 3 * expired'
        PROVE  (Counted /\ UpToDate)'
    <2>1. result'[c] = "screen" => pc'[c] \notin BusyPcs
      BY DEF Alone, AloneAt
    <2>2. result'[c] = "screen" => Lead(c)' = 0
      BY <2>1 DEF Lead
    <2>3. Torn(c)' \in 0..2 /\ Lead(c)' \in 0..1
      BY TornType
    <2>4. ASSUME Lead(c)' = 0 PROVE sent' - answered' <= 3 * expired'
      BY <1>1, <1>2, <2>3, <2>4, AtMostTorn
    <2>5. QED BY <1>2, <2>2, <2>4 DEF Counted, UpToDate, OneCaller
  <1>3. ASSUME NEW c \in Callers,
               result'[c] = "screen" => result[c] = "screen" /\ sent' = sent,
               answered' >= answered, expired' >= expired,
               Alive' => sent' - answered' + Torn(c)' - Lead(c)' <= 3 * expired'
        PROVE  (Counted /\ UpToDate)'
    <2>1. result'[c] = "screen" => sent' - answered' <= 3 * expired'
      BY <1>1, <1>3 DEF UpToDate
    <2>2. QED BY <1>3, <2>1 DEF Counted, UpToDate, OneCaller
  \* Steps in which nothing is read, sent or torn.
  <1>4. ASSUME NEW c \in Callers, Alive' => Alive,
               result'[c] = "screen" => result[c] = "screen",
               sent' = sent, answered' = answered, expired' = expired,
               Alive' => Lead(c)' = Lead(c) /\ Torn(c)' <= Torn(c)
        PROVE  (Counted /\ UpToDate)'
    <2>1. /\ Torn(c) \in 0..2 /\ Torn(c)' \in 0..2 /\ Lead(c) \in 0..1
      BY TornType
    <2>2. Alive' => sent' - answered' + Torn(c)' - Lead(c)' <= 3 * expired'
      BY <1>1, <1>4, <2>1 DEF Counted
    <2>3. answered' >= answered /\ expired' >= expired
      BY <1>1, <1>4
    <2>4. QED BY <1>3, <1>4, <2>2, <2>3
  <1>5. ASSUME NEW c \in Callers, UNCHANGED <<net, rest, buf>> PROVE Torn(c)' <= Torn(c)
    <2>1. Torn(c)' = Torn(c)
      BY <1>5 DEF Torn
    <2>2. QED BY <2>1, TornType
  <1>6. ASSUME NEW c \in Callers, Connect(c) PROVE (Counted /\ UpToDate)'
    <2>1. /\ pc[c] = "idle" /\ pc'[c] = "tcp" /\ result'[c] = "none" /\ conn = "none"
          /\ UNCHANGED <<net, rest, buf, sent, answered, expired>>
      BY <1>6 DEF Connect, history, DataOK
    <2>2. Lead(c) = 0 /\ Lead(c)' = 0
      BY <2>1 DEF Lead, BusyPcs
    <2>3. Alive
      BY <2>1 DEF Alive
    <2>4. Lead(c)' = Lead(c)
      BY <2>2
    <2>5. QED BY <1>4, <1>5, <2>1, <2>3, <2>4
  <1>7. ASSUME NEW c \in Callers, TcpUp(c) PROVE (Counted /\ UpToDate)'
    <2>1. AloneAt(c) /\ pc[c] = "tcp" /\ conn = "connecting" /\ result'[c] = "none"
      BY <1>7 DEF TcpUp, Alone, AloneAt
    <2>2. /\ pc'[c] = "negotiate" /\ sent' = sent + 1 /\ answered' = answered /\ expired' = expired
          /\ UNCHANGED <<net, rest, buf>>
      BY <1>7 DEF TcpUp, DataOK
    <2>3. Lead(c) = 0 /\ Lead(c)' = 1
      BY <2>1, <2>2 DEF Lead, BusyPcs
    <2>4. sent - answered + Torn(c) - Lead(c) <= 3 * expired
      BY <2>1 DEF Alive, Counted
    <2>5. Torn(c) \in 0..2 /\ Torn(c)' \in 0..2 /\ Torn(c)' <= Torn(c)
      BY <1>5, <2>2, TornType
    <2>6. sent' - answered' + Torn(c)' - Lead(c)' <= 3 * expired'
      BY <1>1, <2>2, <2>3, <2>4, <2>5
    <2>7. QED BY <1>2, <2>6
  <1>8. ASSUME NEW c \in Callers, SendKey(c) PROVE (Counted /\ UpToDate)'
    <2>1. HasWriter
      BY <1>8 DEF SendKey, Alone, AloneAt, DataOK, HasWriter, Writable
    <2>2. /\ pc[c] = "idle" /\ pc'[c] = "drain" /\ result'[c] = "none"
          /\ sent' = sent + 1 /\ answered' = answered /\ expired' = expired
          /\ UNCHANGED <<net, rest, buf, conn>>
      BY <1>8, <2>1 DEF SendKey, DataOK, wire
    <2>3. Lead(c) = 0 /\ Lead(c)' = 1
      BY <2>2 DEF Lead, BusyPcs
    <2>4. Alive' => sent - answered + Torn(c) - Lead(c) <= 3 * expired
      BY <2>2 DEF Alive, Counted
    <2>5. Torn(c) \in 0..2 /\ Torn(c)' \in 0..2 /\ Torn(c)' <= Torn(c)
      BY <1>5, <2>2, TornType
    <2>6. Alive' => sent' - answered' + Torn(c)' - Lead(c)' <= 3 * expired'
      BY <1>1, <2>2, <2>3, <2>4, <2>5
    <2>7. answered' >= answered /\ expired' >= expired /\ result'[c] # "screen"
      BY <1>1, <2>2
    <2>8. QED BY <1>3, <2>6, <2>7
  <1>9. ASSUME NEW c \in Callers, Disconnect(c) \/ CloseDone(c) \/ TcpFails(c)
        PROVE  (Counted /\ UpToDate)'
    <2>1. /\ pc[c] \in {"idle", "closing", "tcp"} /\ pc'[c] \in {"idle", "closing"}
          /\ result'[c] = "screen" => result[c] = "screen"
          /\ UNCHANGED <<net, rest, sent, answered, expired>>
          /\ conn' = conn \/ conn' \notin {"none", "connecting", "open"}
      BY <1>9 DEF Disconnect, CloseDone, Closed, TcpFails, Raise, history, DataOK
    <2>2. buf' = buf \/ buf' = [buf EXCEPT ![c] = 0]
      BY <1>9 DEF Disconnect, CloseDone, Closed, TcpFails, Raise
    <2>3. buf[c] = 0
      BY <2>1 DEF Alone, AloneAt
    <2>4. buf' = buf
      BY <2>2, <2>3 DEF DataOK
    <2>5. Lead(c)' = Lead(c)
      BY <2>1 DEF Lead, BusyPcs
    <2>6. Alive' => Alive
      BY <2>1 DEF Alive
    <2>7. QED BY <1>4, <1>5, <2>1, <2>4, <2>5, <2>6
  \* The keyboard is locked before the first frame is read: the loop goes on.
  <1>10. ASSUME NEW c \in Callers, pc[c] \in BusyPcs \ {"wait", "parked"},
                NEW to, LoopTop(c, locked, to, screen, FALSE),
                UNCHANGED <<net, rest, conn, answered, expired>>
         PROVE  (Counted /\ UpToDate)'
    <2>1. locked /\ result[c] = "none" /\ buf[c] = 0
      BY <1>10, BusyConnection DEF Alone, AloneAt
    <2>2. pc'[c] = "wait" /\ buf'[c] = 0 /\ sent' = sent /\ result' = result
      BY <1>10, <2>1, LoopTopWaits DEF DataOK
    <2>3. Lead(c)' = Lead(c)
      BY <1>10, <2>2 DEF Lead, BusyPcs
    <2>4. Torn(c)' = Torn(c)
      BY <1>10, <2>1, <2>2 DEF Torn
    <2>5. Alive' => Alive
      BY <1>10 DEF Alive
    <2>6. Torn(c)' <= Torn(c)
      BY <2>4, TornType
    <2>7. QED BY <1>4, <1>10, <2>2, <2>3, <2>5, <2>6
  \* A call that raises does so on a connection from which nothing can be read.
  <1>11. ASSUME NEW c \in Callers, pc[c] \in BusyPcs, NEW e \in {"error", "oserror"}, Raise(c, e),
                ~Alive, UNCHANGED <<net, conn, sent, answered, expired>>
         PROVE  (Counted /\ UpToDate)'
    <2>1. ~Alive' /\ result'[c] # "screen"
      BY <1>11 DEF Alive, Raise, DataOK
    <2>2. answered' >= answered /\ expired' >= expired
      BY <1>1, <1>11
    <2>3. QED BY <1>3, <2>1, <2>2
  <1>12. ASSUME NEW c \in Callers, Negotiated(c) \/ Drain(c) \/ DrainReply(c)
         PROVE  (Counted /\ UpToDate)'
    <2>1. /\ pc[c] \in BusyPcs \ {"wait", "parked"}
          /\ UNCHANGED <<net, rest, conn, answered, expired>>
      BY <1>12 DEF Negotiated, Drain, DrainReply, BusyPcs, wire
    <2>2. CASE \E to : LoopTop(c, locked, to, screen, FALSE)
      BY <1>10, <2>1, <2>2
    <2>3. CASE conn \notin {"open", "eof"} /\ Raise(c, "oserror") /\ sent' = sent
      <3>1. conn = "reset"
        BY <2>1, <2>3, BusyConnection DEF Alone
      <3>2. ~Alive
        BY <3>1 DEF Alive, Pieces
      <3>3. QED BY <1>11, <2>1, <2>3, <3>2
    <2>4. QED BY <1>12, <2>2, <2>3 DEF Negotiated, Drain, DrainReply
  <1>13. ASSUME NEW c \in Callers, ReadFails(c) PROVE (Counted /\ UpToDate)'
    <2>1. /\ pc[c] \in BusyPcs /\ UNCHANGED <<net, conn, sent, answered, expired>>
          /\ \E e \in {"error", "oserror"} : Raise(c, e)
          /\ conn \in {"reset", "closed"} \/ net = <<>>
          /\ conn # "open" /\ conn # "none" /\ conn # "connecting"
      BY <1>13 DEF ReadFails, Reading, BusyPcs, wire
    <2>2. conn # "closed"
      BY <2>1, BusyConnection DEF Alone
    <2>3. ~Alive
      BY <2>1, <2>2 DEF Alive, Pieces
    <2>4. QED BY <1>11, <2>1, <2>3
  <1>14. ASSUME NEW c \in Callers, Park(c) PROVE (Counted /\ UpToDate)'
    <2>1. /\ pc[c] \in {"negotiate", "wait", "parked"} /\ reader # c
          /\ UNCHANGED <<net, rest, conn, sent, answered, expired>>
      BY <1>14 DEF Park, Reading
    <2>2. reader = NoCaller
      BY <2>1 DEF DataOK, OneCaller
    <2>3. /\ pc'[c] \in {"negotiate", "parked"} /\ buf' = buf /\ result' = result
      BY <1>14, <2>1, <2>2 DEF Park, DataOK
    <2>4. Lead(c)' = Lead(c)
      BY <2>1, <2>3 DEF Lead, BusyPcs
    <2>5. Alive' => Alive
      BY <2>1 DEF Alive
    <2>6. QED BY <1>4, <1>5, <2>1, <2>3, <2>4, <2>5
  <1>15. ASSUME NEW c \in Callers, ReadHead(c) PROVE (Counted /\ UpToDate)'
    <2>1. /\ net # <<>> /\ net[1].part = "head" /\ net[1] \in Chunks
          /\ UNCHANGED <<pc, result, sent, answered, expired>>
          /\ buf'[c] = IF buf[c] = 0 THEN net[1].id ELSE -1
      BY <1>15, FirstChunk DEF ReadHead, history, DataOK
    <2>2. net[1].id > 0
      <3>1. 1 \in 1..Len(net)
        BY <2>1, FirstChunk
      <3>2. QED BY <3>1 DEF Pieces
    <2>3. buf[c] \in {0, -1}
      BY <2>1 DEF HeadRead, DataOK
    <2>4. net[1].id \in Int
      BY <2>1 DEF Chunks
    <2>5. ASSUME buf[c] = 0 PROVE Torn(c)' <= Torn(c)
      <3>1. buf'[c] # 0 /\ buf'[c] # -1
        BY <2>1, <2>2, <2>4, <2>5
      <3>2. Torn(c)' = 0
        BY <3>1 DEF Torn
      <3>3. QED BY <3>2, TornType
    <2>6. ASSUME buf[c] = -1 PROVE Torn(c)' <= Torn(c)
      <3>1. Torn(c)' = 1 /\ Torn(c) = 1
        BY <2>1, <2>6 DEF Torn
      <3>2. QED BY <3>1
    <2>7. Torn(c)' <= Torn(c)
      BY <2>3, <2>5, <2>6
    <2>8. QED BY <1>4, <2>1, <2>7 DEF Alive, Lead
  <1>16. ASSUME NEW c \in Callers, Swallow(c) PROVE (Counted /\ UpToDate)'
    <2>1. /\ net # <<>> /\ Head(net).part # "head" /\ ~Intact(c, Head(net))
          /\ UNCHANGED <<pc, result, sent, expired>> /\ buf'[c] = -1
          /\ answered' = IF Head(net).answers > answered THEN Head(net).answers ELSE answered
          /\ Head(net).answers \in Nat
      BY <1>16, FirstChunk DEF Swallow, DataOK, Chunks
    <2>2. Torn(c) >= 1
      BY <2>1, NotIntactTorn
    <2>3. Torn(c)' = 1 /\ Lead(c)' = Lead(c)
      BY <2>1 DEF Torn, Lead
    <2>4. answered' >= answered /\ expired' >= expired
      BY <1>1, <2>1
    <2>5. sent - answered + Torn(c) - Lead(c) <= 3 * expired
      BY <2>1 DEF Counted, Alive
    <2>6. Torn(c) \in 0..2 /\ Lead(c) \in 0..1
      BY TornType
    <2>7. sent' - answered' + Torn(c)' - Lead(c)' <= 3 * expired'
      BY <1>1, <2>1, <2>2, <2>3, <2>4, <2>5, <2>6
    <2>8. QED BY <1>3, <2>1, <2>4, <2>7
  <1>17. ASSUME NEW c \in Callers, ReadFrame(c) \/ Split(c) PROVE (Counted /\ UpToDate)'
    <2>1. net # <<>> /\ AloneAt(c) /\ HeadRead(c)
      BY <1>17 DEF ReadFrame, Split, Alone
    <2>2. sent - answered + Torn(c) - Lead(c) <= 3 * expired
      BY <2>1 DEF Counted, Alive
    <2>3. QED BY <1>2, <1>17, <2>1, <2>2, ReadCounted
  <1>18. ASSUME NEW c \in Callers, Timeout(c) PROVE (Counted /\ UpToDate)'
    <2>1. /\ pc[c] \in BusyPcs /\ Leave(c, TRUE, screen, FALSE) /\ expired' = expired + 1
          /\ UNCHANGED <<net, conn, answered>>
      BY <1>18 DEF Timeout, BusyPcs
    <2>2. HasWriter
      BY <2>1, BusyConnection DEF Alone
    <2>3. sent' - Lead(c)' = sent /\ Lead(c) = 1
      BY <2>1, <2>2, LeaveLead DEF Lead
    <2>4. Alive' => sent - answered + Torn(c) - Lead(c) <= 3 * expired
      BY <2>1 DEF Alive, Counted
    <2>5. Torn(c) \in 0..2 /\ Torn(c)' \in 0..2 /\ Lead(c)' \in 0..1
      BY TornType
    <2>6. Alive' => sent' - answered' + Torn(c)' - Lead(c)' <= 3 * expired'
      BY <1>1, <2>1, <2>3, <2>4, <2>5
    <2>7. result'[c] # "screen"
      <3>1. CASE result'[c] = "timeout"
        BY <3>1
      <3>2. CASE result' = result
        BY <2>1, <3>2, BusyConnection DEF Alone
      <3>3. QED BY <2>1, <2>2, <3>1, <3>2, LeaveEnds
    <2>8. answered' >= answered /\ expired' >= expired
      BY <1>1, <2>1
    <2>9. QED BY <1>3, <2>6, <2>7, <2>8
  \* What the host and the network do tears nothing.
  <1>19. CASE HostSends \/ HostSendsRest \/ PeerEof \/ PeerReset
    <2>1. /\ UNCHANGED <<pc, buf, result, sent, answered, expired>>
          /\ conn \in {"open", "eof"} /\ (conn' = conn \/ conn' \in {"eof", "reset"})
      BY <1>19 DEF HostSends, HostSendsRest, PeerEof, PeerReset, callers, history
    <2>2. ASSUME NEW c \in Callers PROVE Alive' => Alive /\ Torn(c)' <= Torn(c)
      <3>1. CASE HostSends
        <4>1. Torn(c)' <= Torn(c)
          BY <2>1, <3>1, SendTears
        <4>2. QED BY <3>1, <4>1 DEF HostSends, Alive
      <3>2. CASE HostSendsRest
        <4>1. Torn(c)' <= Torn(c)
          BY <2>1, <3>2, RestTears
        <4>2. QED BY <3>2, <4>1 DEF HostSendsRest, Alive
      <3>3. CASE PeerEof
        <4>1. net' = net /\ conn = "open" /\ conn' = "eof"
          BY <3>3 DEF PeerEof
        <4>2. net # <<>> => Torn(c)' = Torn(c)
          BY <2>1, <4>1 DEF Torn
        <4>3. net # <<>> => Torn(c)' <= Torn(c)
          BY <4>2, TornType
        <4>4. QED BY <4>1, <4>3 DEF Alive
      <3>4. CASE PeerReset
        BY <3>4 DEF PeerReset, Alive
      <3>5. QED BY <1>19, <3>1, <3>2, <3>3, <3>4
    <2>3. \A c \in Callers : Lead(c)' = Lead(c)
      BY <2>1 DEF Lead
    <2>4. CASE Callers = {}
      BY <2>4 DEF Counted, UpToDate
    <2>5. CASE Callers # {}
      <3>1. PICK c \in Callers : TRUE
        BY <2>5
      <3>2. QED BY <1>4, <2>1, <2>2, <2>3
    <2>6. QED BY <2>4, <2>5
  <1>20. CASE UNCHANGED vars
    <2>1. UNCHANGED <<net, rest, buf, pc, conn, result, sent, answered, expired>>
      BY <1>20 DEF vars, callers, wire, history
    <2>2. QED BY <2>1 DEF Counted, UpToDate, Alive, Torn, Lead
  <1>21. QED
    BY <1>6, <1>7, <1>8, <1>9, <1>12, <1>13, <1>14, <1>15, <1>16, <1>17, <1>18, <1>19, <1>20
       DEF Next, Progress

\* With one tool call at a time, a call that returns a screen without a warning
\* returns the answer to its own key, but for three screens per earlier timeout.
THEOREM UpToDateTheorem == ASSUME OneCaller PROVE Spec => []UpToDate
  <1> DEFINE Inv == /\ TypeOK /\ Places /\ InOrder /\ Marked /\ Alone /\ Stream
                    /\ Counted /\ UpToDate
  <1>1. ASSUME Init PROVE Inv
    <2>1. \A c \in Callers : Torn(c) = 0 /\ Lead(c) = 0
      BY <1>1 DEF Init, Torn, Lead, BusyPcs
    <2>2. sent = 0 /\ answered = 0 /\ expired = 0
      BY <1>1 DEF Init
    <2>3. Counted
      BY <2>1, <2>2 DEF Counted
    <2>4. Places /\ InOrder /\ Marked /\ Alone /\ Stream /\ UpToDate
      BY <1>1, NoCallerOutside
         DEF Init, Places, InOrder, Marked, Alone, AloneAt, Stream, Pieces, HeadRead, UpToDate, BusyPcs
    <2>5. QED BY <1>1, <2>3, <2>4, InitType
  <1>2. Inv /\ [Next]_vars => Inv'
    BY FlagsStep, DataStep, PlacesStep, InOrderStep, MarkedStep, AloneStep, StreamStep, CountedStep
       DEF TypeOK
  <1>3. QED BY <1>1, <1>2, PTL DEF Spec
=============================================================================
