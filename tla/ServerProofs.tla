----------------------------- MODULE ServerProofs -----------------------------
(***************************************************************************)
(* Theorems about Server, for any number of tool calls, hosts and sessions. *)
(***************************************************************************)
EXTENDS Server, TLAPS

-----------------------------------------------------------------------------
\* What the steps are made of.

\* The variables that the end or the suspension of a call changes.
AnswersOK ==
    /\ pc \in [Callers -> Pcs] /\ result \in [Callers -> Results]
    /\ shown \in [Callers -> 0..made] /\ ShownOK

\* A call that returns or suspends keeps their types.
LEMMA AnswerType ==
    ASSUME TypeOK, made' \in Nat, made <= made', NEW c \in Callers,
           NEW p \in Pcs, NEW r \in Results, NEW s \in 0..made,
           r \in {"screen", "warned"} => s # None,
           pc' = [pc EXCEPT ![c] = p], result' = [result EXCEPT ![c] = r],
           shown' = [shown EXCEPT ![c] = s]
    PROVE  AnswersOK'
  <1>1. pc' \in [Callers -> Pcs] /\ result' \in [Callers -> Results]
    BY DEF TypeOK, CallsOK
  <1>2. made \in Nat
    BY DEF TypeOK, StoreOK, made
  <1>3. shown' \in [Callers -> 0..made']
    BY <1>2 DEF TypeOK, CallsOK
  <1>4. ShownOK'
    BY DEF TypeOK, CallsOK, ShownOK
  <1>5. QED BY <1>1, <1>3, <1>4 DEF AnswersOK

\* A call that returns a screen returns a session's.
LEMMA ReturnScreenType ==
    ASSUME TypeOK, made' \in Nat, made <= made', NEW c \in Callers,
           NEW r \in Results, NEW s \in 0..made, r \in {"screen", "warned"} => s # None,
           Return(c, r, s)
    PROVE  AnswersOK'
  BY AnswerType DEF Return, Pcs

\* A call that returns no screen does.
LEMMA ReturnType ==
    ASSUME TypeOK, made' \in Nat, made <= made', NEW c \in Callers,
           NEW r \in {"error", "raised", "closed"}, Return(c, r, None)
    PROVE  AnswersOK'
  <1>1. made \in Nat /\ None \in 0..made
    BY DEF TypeOK, StoreOK, made, None
  <1>2. QED BY <1>1, AnswerType DEF Return, Pcs, Results

\* So does a suspended one.
LEMMA SuspendType ==
    ASSUME TypeOK, made' \in Nat, made <= made', NEW c \in Callers, NEW p \in Pcs, Suspend(c, p)
    PROVE  AnswersOK'
  <1>1. made \in Nat /\ None \in 0..made
    BY DEF TypeOK, StoreOK, made, None
  <1>2. QED BY <1>1, AnswerType DEF Suspend, Results

\* And one that responds with the screen of the current session.
LEMMA RespondType ==
    ASSUME TypeOK, UNCHANGED target, NEW c \in Callers, Respond(c)
    PROVE  AnswersOK'
  <1>1. made \in Nat /\ made' = made /\ session \in 0..made
    BY DEF TypeOK, StoreOK, made
  <1>2. CASE session = None
    BY <1>1, <1>2, ReturnType DEF Respond
  <1>3. CASE session # None
    BY <1>1, <1>3, AnswerType DEF Respond, Return, Pcs, Results
  <1>4. QED BY <1>2, <1>3

\* The next state has its types if the sessions, the answers and the rest have.
LEMMA TypeParts ==
    ASSUME StoreOK', AnswersOK',
           op' \in [Callers -> Ops], want' \in [Callers -> Hosts \cup {NoHost}],
           sess' \in [Callers -> 0..made'], first' \in [Callers -> 0..made'],
           reconnected' \in [Callers -> BOOLEAN]
    PROVE  TypeOK'
  BY DEF TypeOK, CallsOK, AnswersOK

\* A new session keeps the types.
LEMMA MakeSessionType ==
    ASSUME TypeOK, NEW c \in Callers, NEW h \in Hosts,
           NEW conns \in Seq(Conns), Len(conns) = made, MakeSession(c, h, conns)
    PROVE  /\ target' \in Seq(Hosts) /\ conn' \in Seq(Conns) /\ Len(conn') = made'
           /\ session' \in 0..made' /\ made' \in Nat /\ made <= made'
           /\ sess' \in [Callers -> 0..made'] /\ first' \in [Callers -> 0..made']
           /\ AnswersOK'
  <1>1. made \in Nat /\ target \in Seq(Hosts)
    BY DEF TypeOK, StoreOK, made
  <1>2. sess \in [Callers -> 0..made] /\ first \in [Callers -> 0..made]
    BY DEF TypeOK, CallsOK
  <1>3. target' \in Seq(Hosts) /\ made' = made + 1
    BY <1>1 DEF MakeSession, made
  <1>4. conn' \in Seq(Conns) /\ Len(conn') = made + 1
    BY DEF MakeSession, Conns
  <1>5. session' = made + 1
    BY DEF MakeSession
  <1>6. sess' \in [Callers -> 0..made'] /\ first' \in [Callers -> 0..made']
    BY <1>1, <1>2, <1>3 DEF MakeSession
  <1>7. AnswersOK'
    BY <1>1, <1>3, SuspendType DEF MakeSession, Pcs
  <1>8. QED BY <1>1, <1>3, <1>4, <1>5, <1>6, <1>7

\* So does what connect() does from where the old session is closed.
LEMMA ProceedType ==
    ASSUME TypeOK, NEW c \in Callers, NEW h \in Hosts \cup {NoHost}, NEW current \in 0..made,
           NEW conns \in Seq(Conns), Len(conns) = made, Proceed(c, h, current, conns)
    PROVE  /\ target' \in Seq(Hosts) /\ conn' \in Seq(Conns) /\ Len(conn') = made'
           /\ session' \in 0..made' /\ made' \in Nat /\ made <= made'
           /\ sess' \in [Callers -> 0..made'] /\ first' \in [Callers -> 0..made']
           /\ AnswersOK'
  <1>1. made \in Nat /\ target \in Seq(Hosts) /\ Resolved(h) \in Hosts \cup {NoHost}
    BY HostsType DEF TypeOK, StoreOK, made, Resolved
  <1>2. sess \in [Callers -> 0..made] /\ first \in [Callers -> 0..made]
    BY DEF TypeOK, CallsOK
  <1>3. CASE Resolved(h) # NoHost /\ ~Tunnel
    <2>1. MakeSession(c, Resolved(h), conns) /\ Resolved(h) \in Hosts
      BY <1>1, <1>3 DEF Proceed
    <2>2. QED BY <2>1, MakeSessionType
  <1>4. CASE ~(Resolved(h) # NoHost /\ ~Tunnel)
    <2>1. /\ Suspend(c, "tunnel") \/ Return(c, "error", None)
          /\ session' = current /\ conn' = conns /\ UNCHANGED <<target, sess, first>>
      BY <1>4 DEF Proceed
    <2>2. made' = made
      BY <2>1 DEF made
    <2>3. AnswersOK'
      BY <1>1, <2>1, <2>2, ReturnType, SuspendType DEF Pcs
    <2>4. QED BY <1>1, <1>2, <2>1, <2>2, <2>3
  <1>5. QED BY <1>3, <1>4

\* A call that sends a key keeps the types.
LEMMA SendOnType ==
    ASSUME TypeOK, UNCHANGED target, NEW c \in Callers, NEW s \in 0..made, SendOn(c, s)
    PROVE  sess' \in [Callers -> 0..made'] /\ AnswersOK'
  <1>1. made' = made /\ made \in Nat
    BY DEF made, TypeOK, StoreOK
  <1>2. AnswersOK'
    BY <1>1, ReturnType, SuspendType DEF SendOn, Pcs
  <1>3. QED BY <1>1, <1>2 DEF SendOn, TypeOK, CallsOK

-----------------------------------------------------------------------------
\* The type invariant.

\* Who waits for the tunnel knows which host it goes to, who waits otherwise which
\* session it waits for.
Placed ==
    \A c \in Callers :
        /\ pc[c] = "tunnel" => Resolved(want[c]) # NoHost
        /\ pc[c] \notin {"idle", "tunnel"} => sess[c] # None

\* Every step keeps the types.
LEMMA TypeStep == TypeOK /\ Placed /\ [Next]_vars => TypeOK'
  <1> SUFFICES ASSUME TypeOK, Placed, [Next]_vars PROVE TypeOK'
    OBVIOUS
  <1>1. /\ made \in Nat /\ None \in 0..made /\ session \in 0..made
        /\ target \in Seq(Hosts) /\ conn \in Seq(Conns) /\ Len(conn) = made
        /\ last \in Hosts \cup {NoHost, NeverConnected}
        /\ abandoned \subseteq Sessions /\ collided \in BOOLEAN
    BY DEF TypeOK, StoreOK, None, made
  <1>2. /\ op \in [Callers -> Ops] /\ want \in [Callers -> Hosts \cup {NoHost}]
        /\ sess \in [Callers -> 0..made] /\ first \in [Callers -> 0..made]
        /\ reconnected \in [Callers -> BOOLEAN] /\ AnswersOK
    BY DEF TypeOK, CallsOK, AnswersOK
  <1>3. ASSUME made <= made', made' \in Nat, abandoned' = abandoned PROVE abandoned' \subseteq Sessions'
    BY <1>1, <1>3 DEF Sessions
  <1>4. UNCHANGED target => made' = made
    BY DEF made
  <1>5. ASSUME NEW c, NoteClash(c) PROVE collided' \in BOOLEAN
    BY <1>5 DEF NoteClash
  <1>6. \A s \in 1..made, x \in Conns :
           [conn EXCEPT ![s] = x] \in Seq(Conns) /\ Len([conn EXCEPT ![s] = x]) = made
    BY <1>1
  <1>0. \A c \in Callers : pc[c] \notin {"idle", "tunnel"} => sess[c] \in 1..made
    <2>1. ASSUME NEW c \in Callers, pc[c] \notin {"idle", "tunnel"} PROVE sess[c] \in 1..made
      <3>1. sess[c] \in 0..made
        BY <1>2
      <3>2. sess[c] # 0
        BY <2>1 DEF Placed, None
      <3>3. QED BY <1>1, <3>1, <3>2
    <2>2. QED BY <2>1
  <1>7. ASSUME NEW c \in Callers, NEW h \in Hosts \cup {NoHost}, Connect(c, h) PROVE TypeOK'
    <2>1. /\ op' \in [Callers -> Ops] /\ want' \in [Callers -> Hosts \cup {NoHost}]
          /\ reconnected' \in [Callers -> BOOLEAN] /\ last' = last
          /\ abandoned' = abandoned /\ collided' \in BOOLEAN
      BY <1>2, <1>5, <1>7 DEF Connect, Ops
    <2>2. CASE HasWriter(session)
      <3>1. /\ UNCHANGED <<session, target, first>> /\ session # None
            /\ \/ Return(c, "raised", None) /\ UNCHANGED <<sess, conn>>
               \/ /\ Suspend(c, "closing")
                  /\ conn' = [conn EXCEPT ![session] = "closing"]
                  /\ sess' = [sess EXCEPT ![c] = session]
        BY <1>7, <2>2 DEF Connect, HasWriter
      <3>2. AnswersOK'
        BY <1>1, <1>4, <3>1, ReturnType, SuspendType DEF Pcs
      <3>3. conn' \in Seq(Conns) /\ Len(conn') = made
        BY <1>1, <1>6, <3>1 DEF Conns, Writable, None
      <3>4. sess' \in [Callers -> 0..made]
        BY <1>1, <1>2, <3>1
      <3>5. StoreOK'
        BY <1>1, <1>3, <1>4, <2>1, <3>1, <3>3 DEF StoreOK
      <3>6. QED BY <1>2, <1>4, <2>1, <3>1, <3>2, <3>4, <3>5, TypeParts
    <2>3. CASE ~HasWriter(session)
      <3>1. Proceed(c, h, session, conn)
        BY <1>7, <2>3 DEF Connect
      <3>2. StoreOK'
        BY <1>1, <1>3, <2>1, <3>1, ProceedType DEF StoreOK
      <3>3. QED BY <1>1, <2>1, <3>1, <3>2, ProceedType, TypeParts
    <2>4. QED BY <2>2, <2>3
  <1>8. ASSUME NEW c \in Callers, Closed(c) PROVE TypeOK'
    <2> DEFINE conns == [conn EXCEPT ![sess[c]] = "closed"]
    <2>1. conns \in Seq(Conns) /\ Len(conns) = made
      BY <1>0, <1>6, <1>8 DEF Conns, Closed
    <2>2. Proceed(c, want[c], session, conns)
      BY <1>8 DEF Closed
    <2>3. /\ want[c] \in Hosts \cup {NoHost}
          /\ UNCHANGED <<last, op, want, reconnected, abandoned, collided>>
      BY <1>2, <1>8 DEF Closed
    <2> HIDE DEF conns
    <2>4. StoreOK'
      BY <1>1, <1>3, <2>1, <2>2, <2>3, ProceedType DEF StoreOK
    <2>5. QED BY <1>1, <1>2, <2>1, <2>2, <2>3, <2>4, ProceedType, TypeParts
  <1>9. ASSUME NEW c \in Callers, TunnelUp(c) PROVE TypeOK'
    <2>1. MakeSession(c, Resolved(want[c]), conn) /\ Resolved(want[c]) \in Hosts
      BY <1>2, <1>9, HostsType DEF TunnelUp, Placed, Resolved
    <2>2. UNCHANGED <<last, op, want, reconnected, abandoned, collided>>
      BY <1>9 DEF TunnelUp
    <2>3. StoreOK'
      BY <1>1, <1>3, <2>1, <2>2, MakeSessionType DEF StoreOK
    <2>4. QED BY <1>1, <1>2, <2>1, <2>2, <2>3, MakeSessionType, TypeParts
  <1>10. ASSUME NEW c \in Callers, TunnelFails(c) PROVE TypeOK'
    <2>1. /\ UNCHANGED <<globals, sessions, op, want, sess, reconnected, first, abandoned, collided>>
          /\ Return(c, "error", None)
      BY <1>10 DEF TunnelFails
    <2>2. made' = made /\ AnswersOK'
      BY <1>1, <1>4, <2>1, ReturnType DEF sessions
    <2>3. StoreOK'
      BY <1>1, <2>1, <2>2 DEF StoreOK, globals, sessions, Sessions
    <2>4. QED BY <1>2, <2>1, <2>2, <2>3, TypeParts
  <1>11. ASSUME NEW c \in Callers, TcpUp(c) PROVE TypeOK'
    <2>1. /\ UNCHANGED <<globals, target, op, want, sess, reconnected, first, abandoned, collided>>
          /\ Suspend(c, "up") /\ conn' = [conn EXCEPT ![sess[c]] = "open"]
      BY <1>11 DEF TcpUp
    <2>2. made' = made /\ AnswersOK'
      BY <1>1, <1>4, <2>1, SuspendType DEF Pcs
    <2>3. conn' \in Seq(Conns) /\ Len(conn') = made
      BY <1>0, <1>6, <1>11, <2>1 DEF Conns, Writable, TcpUp
    <2>4. StoreOK'
      BY <1>1, <2>1, <2>2, <2>3 DEF StoreOK, globals, Sessions
    <2>5. QED BY <1>2, <2>1, <2>2, <2>4, TypeParts
  <1>12. ASSUME NEW c \in Callers, ConnectFails(c) PROVE TypeOK'
    <2>1. /\ UNCHANGED <<last, sessions, op, want, sess, reconnected, first, collided>>
          /\ session' = None /\ abandoned' = abandoned \cup {sess[c]}
          /\ Return(c, "error", None) /\ pc[c] \in {"tcp", "up"}
      BY <1>12 DEF ConnectFails
    <2>2. made' = made /\ AnswersOK'
      BY <1>1, <1>4, <2>1, ReturnType DEF sessions
    <2>3. abandoned' \subseteq Sessions'
      BY <1>0, <1>1, <2>1, <2>2 DEF Sessions
    <2>4. StoreOK'
      BY <1>1, <2>1, <2>2, <2>3 DEF StoreOK, sessions
    <2>5. QED BY <1>2, <2>1, <2>2, <2>4, TypeParts
  <1>13. ASSUME NEW c \in Callers, ConnectDone(c) PROVE TypeOK'
    <2>1. /\ UNCHANGED <<session, sessions, op, want, reconnected, first, abandoned, collided>>
          /\ last' = want[c] /\ want[c] \in Hosts \cup {NoHost}
          /\ SendOn(c, session) \/ (Respond(c) /\ UNCHANGED sess)
      BY <1>2, <1>13 DEF ConnectDone
    <2>2. made' = made /\ sess' \in [Callers -> 0..made] /\ AnswersOK'
      BY <1>1, <1>2, <1>4, <2>1, SendOnType, RespondType DEF sessions
    <2>3. StoreOK'
      BY <1>1, <2>1, <2>2 DEF StoreOK, sessions, Sessions
    <2>4. QED BY <1>2, <2>1, <2>2, <2>3, TypeParts
  <1>14. ASSUME NEW c \in Callers, SendKey(c) PROVE TypeOK'
    <2>1. /\ UNCHANGED <<globals, sessions, want, abandoned>>
          /\ op' \in [Callers -> Ops] /\ reconnected' \in [Callers -> BOOLEAN]
          /\ first' \in [Callers -> 0..made] /\ collided' \in BOOLEAN
          /\ SendOn(c, session) \/ (Return(c, "error", None) /\ UNCHANGED sess)
      BY <1>1, <1>2, <1>14 DEF SendKey, Ops
    <2>2. made' = made /\ sess' \in [Callers -> 0..made] /\ AnswersOK'
      BY <1>1, <1>2, <1>4, <2>1, SendOnType, ReturnType DEF sessions
    <2>3. StoreOK'
      BY <1>1, <2>1, <2>2 DEF StoreOK, globals, sessions, Sessions
    <2>4. QED BY <1>2, <2>1, <2>2, <2>3, TypeParts
  <1>15. ASSUME NEW c \in Callers, KeyAnswered(c) PROVE TypeOK'
    <2>1. /\ UNCHANGED <<globals, sessions, op, want, sess, reconnected, first, abandoned, collided>>
          /\ Respond(c) \/ Return(c, "raised", None)
      BY <1>15 DEF KeyAnswered
    <2>2. made' = made /\ AnswersOK'
      BY <1>1, <1>4, <2>1, RespondType, ReturnType DEF sessions
    <2>3. StoreOK'
      BY <1>1, <2>1, <2>2 DEF StoreOK, globals, sessions, Sessions
    <2>4. QED BY <1>2, <2>1, <2>2, <2>3, TypeParts
  <1>16. ASSUME NEW c \in Callers, Reconnect(c) PROVE TypeOK'
    <2>1. UNCHANGED <<last, abandoned>> /\ collided' \in BOOLEAN
      BY <1>5, <1>16 DEF Reconnect
    <2>2. CASE last = NeverConnected
      <3>1. /\ UNCHANGED <<session, sessions, want, sess, reconnected, first, op>>
            /\ Return(c, "error", None)
        BY <1>16, <2>2 DEF Reconnect
      <3>2. made' = made /\ AnswersOK'
        BY <1>1, <1>4, <3>1, ReturnType DEF sessions
      <3>3. StoreOK'
        BY <1>1, <2>1, <3>1, <3>2 DEF StoreOK, sessions, Sessions
      <3>4. QED BY <1>2, <3>1, <3>2, <3>3, TypeParts
    <2>3. CASE last # NeverConnected
      <3>1. /\ op' = op /\ Proceed(c, last, None, conn)
            /\ want' \in [Callers -> Hosts \cup {NoHost}] /\ reconnected' \in [Callers -> BOOLEAN]
        BY <1>1, <1>2, <1>16, <2>3 DEF Reconnect
      <3>2. StoreOK'
        BY <1>1, <1>3, <2>1, <2>3, <3>1, ProceedType DEF StoreOK
      <3>3. QED BY <1>1, <1>2, <2>3, <3>1, <3>2, ProceedType, TypeParts
    <2>4. QED BY <2>2, <2>3
  <1>17. ASSUME NEW c \in Callers, Look(c) PROVE TypeOK'
    <2>1. /\ UNCHANGED <<globals, sessions, want, sess, abandoned, collided>>
          /\ op' \in [Callers -> Ops] /\ reconnected' \in [Callers -> BOOLEAN]
          /\ first' \in [Callers -> 0..made]
          /\ Return(c, IF session = None THEN "error" ELSE "screen", session)
      BY <1>1, <1>2, <1>17 DEF Look, Ops
    <2>2. made' = made /\ AnswersOK'
      <3>1. made' = made
        BY <1>4, <2>1 DEF sessions
      <3> DEFINE x == IF session = None THEN "error" ELSE "screen"
      <3>2. x \in Results /\ (x \in {"screen", "warned"} => session # None)
        BY DEF Results
      <3>3. Return(c, x, session)
        BY <2>1
      <3> HIDE DEF x
      <3>4. AnswersOK'
        BY <1>1, <3>1, <3>2, <3>3, ReturnScreenType
      <3>5. QED BY <3>1, <3>4
    <2>3. StoreOK'
      BY <1>1, <2>1, <2>2 DEF StoreOK, globals, sessions, Sessions
    <2>4. QED BY <1>2, <2>1, <2>2, <2>3, TypeParts
  <1>18. ASSUME NEW c \in Callers, Disconnect(c) PROVE TypeOK'
    <2>1. /\ UNCHANGED <<last, target, want, first, abandoned>> /\ collided' \in BOOLEAN
          /\ op' \in [Callers -> Ops] /\ reconnected' \in [Callers -> BOOLEAN]
      BY <1>2, <1>5, <1>18 DEF Disconnect, Ops
    <2>2. /\ session' \in {session, None}
          /\ \/ /\ UNCHANGED <<conn, sess>>
                /\ Return(c, "closed", None) \/ Return(c, "raised", None)
             \/ /\ session # None /\ conn' = [conn EXCEPT ![session] = "closing"]
                /\ sess' = [sess EXCEPT ![c] = session] /\ Suspend(c, "ending")
      BY <1>18 DEF Disconnect, HasWriter
    <2>3. made' = made /\ AnswersOK'
      BY <1>1, <1>4, <2>1, <2>2, ReturnType, SuspendType DEF Pcs
    <2>4. conn' \in Seq(Conns) /\ Len(conn') = made
      BY <1>1, <1>6, <2>2 DEF Conns, Writable, None
    <2>5. sess' \in [Callers -> 0..made]
      BY <1>1, <1>2, <2>2
    <2>6. StoreOK'
      BY <1>1, <2>1, <2>2, <2>3, <2>4 DEF StoreOK, Sessions
    <2>7. QED BY <1>2, <2>1, <2>3, <2>5, <2>6, TypeParts
  <1>19. ASSUME NEW c \in Callers, Disconnected(c) PROVE TypeOK'
    <2>1. /\ UNCHANGED <<last, target, op, want, sess, reconnected, first, abandoned, collided>>
          /\ session' = None /\ Return(c, "closed", None)
          /\ conn' = [conn EXCEPT ![sess[c]] = "closed"]
      BY <1>19 DEF Disconnected
    <2>2. made' = made /\ AnswersOK'
      BY <1>1, <1>4, <2>1, ReturnType
    <2>3. conn' \in Seq(Conns) /\ Len(conn') = made
      <3>1. sess[c] \in 1..made /\ "closed" \in Conns
        BY <1>0, <1>19 DEF Disconnected, Conns
      <3>2. QED BY <1>6, <2>1, <3>1
    <2>4. StoreOK'
      BY <1>1, <2>1, <2>2, <2>3 DEF StoreOK, Sessions
    <2>5. QED BY <1>2, <2>1, <2>2, <2>4, TypeParts
  <1>20. ASSUME NEW s \in Sessions, PeerEof(s) \/ PeerReset(s) PROVE TypeOK'
    <2>1. /\ UNCHANGED <<globals, target, calls, history>>
          /\ \E x \in {"eof", "reset"} : conn' = [conn EXCEPT ![s] = x]
      BY <1>20 DEF PeerEof, PeerReset
    <2>2. made' = made /\ AnswersOK'
      BY <1>2, <1>4, <2>1 DEF AnswersOK, ShownOK, calls, history
    <2>3. conn' \in Seq(Conns) /\ Len(conn') = made
      BY <1>1, <1>6, <2>1 DEF Conns, Writable, Sessions
    <2>4. StoreOK'
      BY <1>1, <2>1, <2>2, <2>3 DEF StoreOK, globals, history, Sessions
    <2>5. QED BY <1>2, <2>1, <2>2, <2>4, TypeParts DEF calls, history
  <1>21. CASE UNCHANGED vars
    BY <1>21 DEF vars, globals, sessions, calls, history, TypeOK, StoreOK, CallsOK, ShownOK,
                 Sessions, made
  <1>22. QED
    BY <1>7, <1>8, <1>9, <1>10, <1>11, <1>12, <1>13, <1>14, <1>15, <1>16, <1>17, <1>18, <1>19,
       <1>20, <1>21 DEF Next, Call, Resume

-----------------------------------------------------------------------------
\* A call's step is its own.

\* The other calls stay where they are.
Apart(c) ==
    \A d \in Callers \ {c} :
        /\ pc'[d] = pc[d] /\ op'[d] = op[d] /\ want'[d] = want[d] /\ sess'[d] = sess[d]
        /\ reconnected'[d] = reconnected[d] /\ result'[d] = result[d]
        /\ first'[d] = first[d] /\ shown'[d] = shown[d]

\* So they do in every step of a call.
LEMMA ApartStep ==
    ASSUME TypeOK, NEW c \in Callers, Call(c) \/ Resume(c)
    PROVE  Apart(c)
  <1> SUFFICES ASSUME NEW d \in Callers \ {c}
               PROVE  /\ pc'[d] = pc[d] /\ op'[d] = op[d] /\ want'[d] = want[d]
                      /\ sess'[d] = sess[d] /\ reconnected'[d] = reconnected[d]
                      /\ result'[d] = result[d] /\ first'[d] = first[d] /\ shown'[d] = shown[d]
    BY DEF Apart
  <1>1. ASSUME NEW r, NEW s, Return(c, r, s)
        PROVE  pc'[d] = pc[d] /\ result'[d] = result[d] /\ shown'[d] = shown[d]
    BY <1>1 DEF Return, TypeOK, CallsOK
  <1>2. ASSUME NEW at, Suspend(c, at)
        PROVE  pc'[d] = pc[d] /\ result'[d] = result[d] /\ shown'[d] = shown[d]
    BY <1>2 DEF Suspend, TypeOK, CallsOK
  <1>3. ASSUME NEW h, NEW conns, MakeSession(c, h, conns)
        PROVE  /\ pc'[d] = pc[d] /\ result'[d] = result[d] /\ shown'[d] = shown[d]
               /\ sess'[d] = sess[d] /\ first'[d] = first[d]
    BY <1>2, <1>3 DEF MakeSession, TypeOK, CallsOK
  <1>4. ASSUME NEW h, NEW conns, NEW current, Proceed(c, h, current, conns)
        PROVE  /\ pc'[d] = pc[d] /\ result'[d] = result[d] /\ shown'[d] = shown[d]
               /\ sess'[d] = sess[d] /\ first'[d] = first[d]
    BY <1>1, <1>2, <1>3, <1>4 DEF Proceed
  <1>5. ASSUME NEW s, SendOn(c, s)
        PROVE  /\ pc'[d] = pc[d] /\ result'[d] = result[d] /\ shown'[d] = shown[d]
               /\ sess'[d] = sess[d]
    BY <1>1, <1>2, <1>5 DEF SendOn, TypeOK, CallsOK
  <1>6. ASSUME Respond(c)
        PROVE  pc'[d] = pc[d] /\ result'[d] = result[d] /\ shown'[d] = shown[d]
    BY <1>1, <1>6 DEF Respond
  <1>7. ASSUME NEW h, Connect(c, h)
        PROVE  /\ op'[d] = op[d] /\ want'[d] = want[d] /\ reconnected'[d] = reconnected[d]
               /\ pc'[d] = pc[d] /\ result'[d] = result[d] /\ shown'[d] = shown[d]
               /\ sess'[d] = sess[d] /\ first'[d] = first[d]
    BY <1>1, <1>2, <1>4, <1>7 DEF Connect, TypeOK, CallsOK
  <1>8. CASE Closed(c)
    BY <1>4, <1>8 DEF Closed
  <1>9. CASE TunnelUp(c)
    BY <1>3, <1>9 DEF TunnelUp
  <1>10. CASE TunnelFails(c) \/ TcpUp(c) \/ ConnectFails(c) \/ Disconnected(c) \/ KeyAnswered(c)
    BY <1>1, <1>2, <1>6, <1>10 DEF TunnelFails, TcpUp, ConnectFails, Disconnected, KeyAnswered
  <1>11. CASE ConnectDone(c)
    BY <1>5, <1>6, <1>11 DEF ConnectDone
  <1>12. CASE SendKey(c)
    BY <1>1, <1>5, <1>12 DEF SendKey, TypeOK, CallsOK
  <1>13. CASE Reconnect(c)
    BY <1>1, <1>4, <1>13 DEF Reconnect, TypeOK, CallsOK
  <1>14. CASE Look(c)
    BY <1>1, <1>14 DEF Look, TypeOK, CallsOK
  <1>15. CASE Disconnect(c)
    BY <1>1, <1>2, <1>15 DEF Disconnect, TypeOK, CallsOK
  <1>16. QED
    BY <1>7, <1>8, <1>9, <1>10, <1>11, <1>12, <1>13, <1>14, <1>15 DEF Call, Resume

\* Who waits knows for what.
LEMMA PlacedStep == TypeOK /\ Placed /\ [Next]_vars => Placed'
  <1> SUFFICES ASSUME TypeOK, Placed, [Next]_vars PROVE Placed'
    OBVIOUS
  <1> DEFINE InPlace(c) == /\ pc[c] = "tunnel" => Resolved(want[c]) # NoHost
                           /\ pc[c] \notin {"idle", "tunnel"} => sess[c] # None
  <1>1. ASSUME NEW c \in Callers, Apart(c), InPlace(c)' PROVE Placed'
    BY <1>1 DEF Apart, Placed, Resolved
  <1>2. ASSUME NEW c \in Callers, Call(c) \/ Resume(c) PROVE InPlace(c)'
    <2>1. ASSUME NEW r, NEW s, Return(c, r, s) PROVE InPlace(c)'
      BY <2>1 DEF Return, TypeOK, CallsOK
    <2>2. ASSUME NEW at, Suspend(c, at) PROVE pc'[c] = at
      BY <2>2 DEF Suspend, TypeOK, CallsOK
    <2>3. ASSUME NEW h, NEW conns, MakeSession(c, h, conns) PROVE InPlace(c)'
      <3>1. pc'[c] = "tcp" /\ sess'[c] = made + 1
        BY <2>2, <2>3 DEF MakeSession, TypeOK, CallsOK
      <3>2. made + 1 # None
        BY DEF made, None, TypeOK, StoreOK
      <3>3. QED BY <3>1, <3>2
    <2>4. ASSUME NEW conns, NEW current, Proceed(c, want'[c], current, conns) PROVE InPlace(c)'
      <3>1. CASE Return(c, "error", None)
        BY <2>1, <3>1
      <3>2. CASE MakeSession(c, Resolved(want'[c]), conns)
        BY <2>3, <3>2
      <3>3. CASE Suspend(c, "tunnel") /\ Resolved(want'[c]) # NoHost
        BY <2>2, <3>3 DEF Resolved
      <3>4. QED BY <2>4, <3>1, <3>2, <3>3 DEF Proceed
    <2>5. ASSUME NEW s, s # None, SendOn(c, s) PROVE InPlace(c)'
      <3>1. CASE Return(c, "raised", None)
        BY <2>1, <3>1
      <3>2. CASE Suspend(c, "sending")
        BY <2>2, <2>5, <3>2 DEF SendOn, TypeOK, CallsOK
      <3>3. QED BY <2>5, <3>1, <3>2 DEF SendOn
    <2>6. CASE \E h : Connect(c, h)
      <3>1. PICK h : Connect(c, h)
        BY <2>6
      <3>2. want'[c] = h
        BY <3>1 DEF Connect, TypeOK, CallsOK
      <3>3. CASE Return(c, "raised", None)
        BY <2>1, <3>3
      <3>4. CASE Suspend(c, "closing") /\ sess' = [sess EXCEPT ![c] = session] /\ session # None
        BY <2>2, <3>4 DEF TypeOK, CallsOK
      <3>5. CASE Proceed(c, h, session, conn)
        BY <2>4, <3>2, <3>5
      <3>6. QED BY <3>1, <3>3, <3>4, <3>5 DEF Connect, HasWriter
    <2>7. CASE Closed(c)
      BY <2>4, <2>7 DEF Closed
    <2>8. CASE TunnelUp(c)
      BY <2>3, <2>8 DEF TunnelUp
    <2>9. CASE TunnelFails(c) \/ ConnectFails(c) \/ Disconnected(c) \/ KeyAnswered(c) \/ Look(c)
      BY <2>1, <2>9 DEF TunnelFails, ConnectFails, Disconnected, KeyAnswered, Look, Respond
    <2>10. CASE TcpUp(c)
      BY <2>2, <2>10 DEF TcpUp, Placed
    <2>11. CASE ConnectDone(c)
      BY <2>1, <2>5, <2>11 DEF ConnectDone, Respond
    <2>12. CASE SendKey(c)
      BY <2>1, <2>5, <2>12 DEF SendKey
    <2>13. CASE Reconnect(c)
      <3>1. CASE last = NeverConnected
        BY <2>1, <2>13, <3>1 DEF Reconnect
      <3>2. CASE last # NeverConnected
        <4>1. want'[c] = last /\ Proceed(c, last, None, conn)
          BY <2>13, <3>2 DEF Reconnect, TypeOK, CallsOK
        <4>2. QED BY <2>4, <4>1
      <3>3. QED BY <3>1, <3>2
    <2>14. CASE Disconnect(c)
      <3>1. CASE \E r : Return(c, r, None)
        BY <2>1, <3>1
      <3>2. CASE Suspend(c, "ending") /\ sess' = [sess EXCEPT ![c] = session] /\ session # None
        BY <2>2, <3>2 DEF TypeOK, CallsOK
      <3>3. QED BY <2>14, <3>1, <3>2 DEF Disconnect, HasWriter
    <2>15. QED
      BY <1>2, <2>6, <2>7, <2>8, <2>9, <2>10, <2>11, <2>12, <2>13, <2>14 DEF Call, Resume
  <1>3. ASSUME NEW s, PeerEof(s) \/ PeerReset(s) PROVE Placed'
    BY <1>3 DEF PeerEof, PeerReset, calls, Placed, Resolved
  <1>4. CASE UNCHANGED vars
    BY <1>4 DEF vars, calls, Placed, Resolved
  <1>5. QED
    BY <1>1, <1>2, <1>3, <1>4, ApartStep DEF Next

\* Initially all is in place.
LEMMA InitOK == Init => TypeOK /\ Placed
  <1> SUFFICES ASSUME Init PROVE TypeOK /\ Placed
    OBVIOUS
  <1>1. made = 0 /\ target \in Seq(Hosts) /\ conn \in Seq(Conns) /\ Len(conn) = 0
    BY DEF Init, made
  <1>2. StoreOK
    <2>1. collided \in BOOLEAN
      BY DEF Init
    <2>2. session \in 0..made /\ last \in Hosts \cup {NoHost, NeverConnected} /\ abandoned = {}
      BY <1>1 DEF Init, None
    <2>3. QED BY <1>1, <2>1, <2>2 DEF StoreOK
  <1>3. CallsOK
    BY <1>1 DEF Init, CallsOK, Pcs, Ops, Results, None
  <1>4. ShownOK /\ Placed
    BY DEF Init, ShownOK, Placed
  <1>5. QED BY <1>2, <1>3, <1>4 DEF TypeOK

\* For any number of overlapping tool calls every variable keeps its type, and a
\* call that returns a screen returns a session's.
THEOREM TypeTheorem == Spec => []TypeOK
  <1>1. TypeOK /\ Placed /\ [Next]_vars => (TypeOK /\ Placed)'
    BY TypeStep, PlacedStep
  <1>2. QED BY InitOK, <1>1, PTL DEF Spec

-----------------------------------------------------------------------------
\* A held session can be re-established.

\* Proceeding, connect() keeps the session it found or makes one and connects it.
LEMMA ProceedSession ==
    ASSUME TypeOK, NEW c \in Callers, NEW h, NEW current, NEW conns,
           Proceed(c, h, current, conns)
    PROVE  \/ session' = current /\ made' = made
           \/ /\ session' = made + 1 /\ made' = made + 1
              /\ pc'[c] = "tcp" /\ sess'[c] = made + 1
  BY DEF Proceed, MakeSession, Suspend, made, TypeOK, StoreOK, CallsOK

\* A call keeps _session, drops it, or replaces it by one that it connects; and it
\* notes how it connected when it has.
LEMMA SessionStep ==
    ASSUME TypeOK, NEW c \in Callers, Call(c) \/ Resume(c)
    PROVE  /\ \/ session' \in {session, None} /\ made' = made
              \/ /\ session' = made + 1 /\ made' = made + 1
                 /\ pc'[c] = "tcp" /\ sess'[c] = made + 1
           /\ last' = last \/ (pc[c] = "up" /\ last' = want[c])
  <1>1. UNCHANGED target => made' = made
    BY DEF made
  <1>2. ASSUME NEW h, Connect(c, h) PROVE
           /\ \/ session' = session /\ made' = made
              \/ Proceed(c, h, session, conn)
           /\ last' = last
    BY <1>1, <1>2 DEF Connect
  <1>3. CASE Closed(c)
    BY <1>3, ProceedSession DEF Closed
  <1>4. CASE TunnelUp(c)
    BY <1>4 DEF TunnelUp, MakeSession, Suspend, made, TypeOK, StoreOK, CallsOK
  <1>5. CASE TunnelFails(c) \/ TcpUp(c) \/ ConnectFails(c) \/ ConnectDone(c)
    BY <1>1, <1>5 DEF TunnelFails, TcpUp, ConnectFails, ConnectDone, globals, sessions
  <1>6. CASE SendKey(c) \/ KeyAnswered(c) \/ Look(c) \/ Disconnect(c) \/ Disconnected(c)
    BY <1>1, <1>6 DEF SendKey, KeyAnswered, Look, Disconnect, Disconnected, globals, sessions
  <1>7. CASE Reconnect(c)
    BY <1>1, <1>7, ProceedSession DEF Reconnect, sessions
  <1>8. QED
    BY <1>2, <1>3, <1>4, <1>5, <1>6, <1>7, ProceedSession DEF Call, Resume

\* Every step keeps a held session recoverable.
LEMMA RecoverableStep == TypeOK /\ Recoverable /\ [Next]_vars => Recoverable'
  <1> SUFFICES ASSUME TypeOK, Recoverable, [Next]_vars, session' # None, last' = NeverConnected
               PROVE  \E d \in Callers : pc'[d] \in {"tcp", "up"} /\ sess'[d] = session'
    BY DEF Recoverable
  <1>1. ASSUME NEW c \in Callers, Call(c) \/ Resume(c)
        PROVE  \E d \in Callers : pc'[d] \in {"tcp", "up"} /\ sess'[d] = session'
    <2>1. CASE session' = made + 1 /\ pc'[c] = "tcp" /\ sess'[c] = made + 1
      BY <2>1
    <2>2. CASE session' = session
      <3>1. last = NeverConnected
        <4>1. want[c] # NeverConnected
          BY HostsType DEF TypeOK, CallsOK
        <4>2. QED BY <1>1, <4>1, SessionStep
      <3>2. PICK d \in Callers : pc[d] \in {"tcp", "up"} /\ sess[d] = session
        BY <2>2, <3>1 DEF Recoverable
      <3>3. CASE d # c
        BY <1>1, <2>2, <3>2, <3>3, ApartStep DEF Apart
      <3>4. CASE d = c
        <4>1. TcpUp(c) \/ ConnectFails(c) \/ ConnectDone(c)
          BY <1>1, <3>2, <3>4 DEF Call, Resume, Connect, SendKey, Look, Disconnect, Closed,
             TunnelUp, TunnelFails, KeyAnswered, Reconnect, Disconnected
        <4>2. TcpUp(c)
          BY <4>1, HostsType DEF ConnectFails, ConnectDone, TypeOK, CallsOK
        <4>3. pc'[c] = "up" /\ sess' = sess
          BY <4>2 DEF TcpUp, Suspend, TypeOK, CallsOK
        <4>4. QED BY <2>2, <3>2, <3>4, <4>3
      <3>5. QED BY <3>3, <3>4
    <2>3. QED BY <1>1, <2>1, <2>2, SessionStep
  <1>2. ASSUME UNCHANGED <<globals, pc, sess>>
        PROVE  \E d \in Callers : pc'[d] \in {"tcp", "up"} /\ sess'[d] = session'
    BY <1>2 DEF Recoverable, globals
  <1>3. ASSUME NEW s, PeerEof(s) \/ PeerReset(s) PROVE UNCHANGED <<globals, pc, sess>>
    BY <1>3 DEF PeerEof, PeerReset, calls
  <1>4. CASE UNCHANGED vars
    BY <1>2, <1>4 DEF vars, calls
  <1>5. QED BY <1>1, <1>2, <1>3, <1>4 DEF Next

\* A session the server holds can be re-established, however calls interleave.
THEOREM RecoverableTheorem == Spec => []Recoverable
  <1>1. Init => Recoverable
    BY DEF Init, Recoverable
  <1>2. TypeOK /\ Placed /\ Recoverable /\ [Next]_vars => (TypeOK /\ Placed /\ Recoverable)'
    BY TypeStep, PlacedStep, RecoverableStep
  <1>3. QED BY InitOK, <1>1, <1>2, PTL DEF Spec

-----------------------------------------------------------------------------
\* A key goes to a session once.

\* A call that has reconnected is a key's, and from there to the second writing of
\* the key the server holds no session as old as the one the key was first
\* written to.
RenewedCall(c) ==
    /\ pc[c] = "sending" => op[c] = "key"
    /\ reconnected[c] /\ pc[c] # "idle" => op[c] = "key"
    /\ reconnected[c] /\ pc[c] \notin {"idle", "sending"} =>
          session = None \/ first[c] < session
    /\ reconnected[c] /\ pc[c] = "sending" => first[c] < sess[c]

Renewed == \A c \in Callers : RenewedCall(c)

\* Every step keeps that.
LEMMA RenewedStep == TypeOK /\ Renewed /\ [Next]_vars => Renewed'
  <1> SUFFICES ASSUME TypeOK, Renewed, [Next]_vars PROVE Renewed'
    OBVIOUS
  <1>1. /\ made \in Nat /\ session \in 0..made
        /\ \A d \in Callers : first[d] \in 0..made
    BY DEF TypeOK, StoreOK, CallsOK, made
  <1>2. ASSUME NEW c \in Callers, Call(c) \/ Resume(c), NEW d \in Callers \ {c}
        PROVE  RenewedCall(d)'
    <2>1. /\ pc'[d] = pc[d] /\ op'[d] = op[d] /\ reconnected'[d] = reconnected[d]
          /\ first'[d] = first[d] /\ sess'[d] = sess[d]
      BY <1>2, ApartStep DEF Apart
    <2>2. session' \in {session, None, made + 1}
      BY <1>2, SessionStep
    <2>3. session' = None \/ session' = session \/ first[d] < session'
      BY <1>1, <2>2
    <2>4. RenewedCall(d)
      BY DEF Renewed
    <2>5. QED BY <2>1, <2>3, <2>4 DEF RenewedCall
  <1>3. ASSUME NEW c \in Callers, Call(c) \/ Resume(c) PROVE RenewedCall(c)'
    <2> RenewedCall(c)
      BY DEF Renewed
    <2>1. ASSUME pc'[c] = "idle" PROVE RenewedCall(c)'
      BY <2>1 DEF RenewedCall
    <2>2. ASSUME ~reconnected'[c], pc'[c] # "sending" PROVE RenewedCall(c)'
      BY <2>2 DEF RenewedCall
    <2>3. ASSUME NEW r, NEW s, Return(c, r, s) PROVE pc'[c] = "idle"
      BY <2>3 DEF Return, TypeOK, CallsOK
    <2>4. ASSUME NEW at, Suspend(c, at) PROVE pc'[c] = at
      BY <2>4 DEF Suspend, TypeOK, CallsOK
    <2>5. ASSUME NEW h, NEW conns, MakeSession(c, h, conns), reconnected'[c] => op'[c] = "key"
          PROVE  RenewedCall(c)'
      <3>1. pc'[c] = "tcp" /\ session' = made + 1
        BY <2>4, <2>5 DEF MakeSession
      <3>2. reconnected'[c] => first'[c] = first[c]
        BY <2>5 DEF MakeSession
      <3>3. first[c] < made + 1
        BY <1>1
      <3>4. QED BY <2>5, <3>1, <3>2, <3>3 DEF RenewedCall
    <2>6. ASSUME NEW h, NEW current, NEW conns, Proceed(c, h, current, conns),
                 reconnected'[c] => op'[c] = "key" /\ (current = None \/ first[c] < current)
          PROVE  RenewedCall(c)'
      <3>1. CASE Return(c, "error", None)
        BY <2>1, <2>3, <3>1
      <3>2. CASE MakeSession(c, Resolved(h), conns)
        BY <2>5, <2>6, <3>2
      <3>3. CASE Suspend(c, "tunnel") /\ session' = current /\ UNCHANGED first
        <4>1. pc'[c] = "tunnel"
          BY <2>4, <3>3
        <4>2. QED BY <2>6, <3>3, <4>1 DEF RenewedCall
      <3>4. QED BY <2>6, <3>1, <3>2, <3>3 DEF Proceed
    <2>7. CASE \E h : Connect(c, h)
      <3>1. PICK h : Connect(c, h)
        BY <2>7
      <3>2. ~reconnected'[c]
        BY <3>1 DEF Connect, TypeOK, CallsOK
      <3>3. CASE Return(c, "raised", None)
        BY <2>1, <2>3, <3>3
      <3>4. CASE Suspend(c, "closing")
        BY <2>2, <2>4, <3>2, <3>4
      <3>5. CASE Proceed(c, h, session, conn)
        BY <2>6, <3>2, <3>5
      <3>6. QED BY <3>1, <3>3, <3>4, <3>5 DEF Connect
    <2>8. CASE Closed(c)
      <3>1. /\ pc[c] = "closing" /\ UNCHANGED <<op, reconnected>>
            /\ \E conns : Proceed(c, want[c], session, conns)
        BY <2>8 DEF Closed
      <3>2. reconnected'[c] => op'[c] = "key" /\ (session = None \/ first[c] < session)
        BY <3>1 DEF RenewedCall
      <3>3. QED BY <2>6, <3>1, <3>2
    <2>9. CASE TunnelUp(c)
      <3>1. /\ pc[c] = "tunnel" /\ UNCHANGED <<op, reconnected>>
            /\ MakeSession(c, Resolved(want[c]), conn)
        BY <2>9 DEF TunnelUp
      <3>2. reconnected'[c] => op'[c] = "key"
        BY <3>1 DEF RenewedCall
      <3>3. QED BY <2>5, <3>1, <3>2
    <2>10. CASE TunnelFails(c) \/ ConnectFails(c) \/ KeyAnswered(c) \/ Look(c) \/ Disconnected(c)
      BY <2>1, <2>3, <2>10 DEF TunnelFails, ConnectFails, KeyAnswered, Look, Disconnected, Respond
    <2>11. CASE TcpUp(c)
      <3>1. /\ pc[c] = "tcp" /\ pc'[c] = "up" /\ UNCHANGED <<session, op, reconnected, first>>
        BY <2>4, <2>11 DEF TcpUp, globals
      <3>2. QED BY <3>1 DEF RenewedCall
    <2>12. CASE ConnectDone(c)
      <3>1. pc[c] = "up" /\ UNCHANGED <<session, op, reconnected, first>>
        BY <2>12 DEF ConnectDone
      <3>2. CASE op[c] = "key" /\ session # None
        <4>1. sess' = [sess EXCEPT ![c] = session] /\ (Suspend(c, "sending") \/ Return(c, "raised", None))
          BY <2>12, <3>2 DEF ConnectDone, SendOn
        <4>2. sess'[c] = session
          BY <4>1 DEF TypeOK, CallsOK
        <4>3. CASE Suspend(c, "sending")
          <5>1. pc'[c] = "sending"
            BY <2>4, <4>3
          <5>2. QED BY <3>1, <3>2, <4>2, <5>1 DEF RenewedCall
        <4>4. CASE Return(c, "raised", None)
          BY <2>1, <2>3, <4>4
        <4>5. QED BY <4>1, <4>3, <4>4
      <3>3. CASE ~(op[c] = "key" /\ session # None)
        BY <2>1, <2>3, <2>12, <3>3 DEF ConnectDone, Respond
      <3>4. QED BY <3>2, <3>3
    <2>13. CASE SendKey(c)
      <3>1. op'[c] = "key" /\ ~reconnected'[c]
        BY <2>13 DEF SendKey, TypeOK, CallsOK
      <3>2. QED BY <3>1 DEF RenewedCall
    <2>14. CASE Reconnect(c)
      <3>1. CASE last = NeverConnected
        BY <2>1, <2>3, <2>14, <3>1 DEF Reconnect
      <3>2. CASE last # NeverConnected
        <4>1. pc[c] = "sending" /\ op' = op /\ Proceed(c, last, None, conn)
          BY <2>14, <3>2 DEF Reconnect
        <4>2. op'[c] = "key"
          BY <4>1 DEF RenewedCall
        <4>3. QED BY <2>6, <4>1, <4>2
      <3>3. QED BY <3>1, <3>2
    <2>15. CASE Disconnect(c)
      <3>1. ~reconnected'[c]
        BY <2>15 DEF Disconnect, TypeOK, CallsOK
      <3>2. Suspend(c, "ending") \/ \E r : Return(c, r, None)
        BY <2>15 DEF Disconnect
      <3>3. QED BY <2>2, <2>3, <2>4, <3>1, <3>2
    <2>16. QED
      BY <1>3, <2>7, <2>8, <2>9, <2>10, <2>11, <2>12, <2>13, <2>14, <2>15 DEF Call, Resume
  <1>4. ASSUME UNCHANGED <<session, calls, first>> PROVE Renewed'
    BY <1>4 DEF calls, Renewed, RenewedCall
  <1>5. ASSUME NEW s, PeerEof(s) \/ PeerReset(s) PROVE Renewed'
    BY <1>4, <1>5 DEF PeerEof, PeerReset, globals, history
  <1>6. CASE UNCHANGED vars
    BY <1>4, <1>6 DEF vars, globals, history
  <1>7. QED
    <2>1. ASSUME NEW c \in Callers, Call(c) \/ Resume(c) PROVE Renewed'
      BY <1>2, <1>3, <2>1 DEF Renewed
    <2>2. QED BY <1>5, <1>6, <2>1 DEF Next

\* However calls interleave, send_key() never writes a key twice to one session.
THEOREM KeyOnceTheorem == Spec => []KeyOncePerSession
  <1>1. Init => Renewed
    BY DEF Init, Renewed, RenewedCall
  <1>2. TypeOK /\ Placed /\ Renewed /\ [Next]_vars => (TypeOK /\ Placed /\ Renewed)'
    BY TypeStep, PlacedStep, RenewedStep
  <1>3. Renewed => KeyOncePerSession
    BY DEF Renewed, RenewedCall, KeyOncePerSession
  <1>4. QED BY InitOK, <1>1, <1>2, <1>3, PTL DEF Spec

-----------------------------------------------------------------------------
\* Calls that do not clash.

\* While no calls clash, those in progress together all wait for the answer to a
\* key, each on the session the server holds; and who waits for the tunnel has
\* left no live session behind.
Orderly ==
    ~collided =>
        /\ \A c, d \in Callers :
              c # d /\ pc[c] # "idle" /\ pc[d] # "idle" => pc[c] = "sending" /\ pc[d] = "sending"
        /\ \A c \in Callers : pc[c] \notin {"idle", "tunnel"} => sess[c] = session
        /\ \A c \in Callers : pc[c] = "tunnel" => ~HasWriter(session)

\* Without a clash a step concerns its call only, or is that of the only call.
LEMMA AloneStep ==
    ASSUME TypeOK, Orderly, NEW c \in Callers, Call(c) \/ Resume(c), ~collided'
    PROVE  /\ ~collided
           /\ \/ /\ UNCHANGED <<session, conn>> /\ pc'[c] \in {"idle", "sending"}
                 /\ pc'[c] = "sending" => \A d \in Callers \ {c} : pc[d] \in {"idle", "sending"}
              \/ \A d \in Callers \ {c} : pc[d] = "idle"
  <1>1. ASSUME NEW r, NEW s, Return(c, r, s) PROVE pc'[c] = "idle"
    BY <1>1 DEF Return, TypeOK, CallsOK
  <1>2. ASSUME NEW at, Suspend(c, at) PROVE pc'[c] = at
    BY <1>2 DEF Suspend, TypeOK, CallsOK
  <1>3. ASSUME NoteClash(c) PROVE ~collided /\ \A d \in Callers \ {c} : pc[d] = "idle"
    BY <1>3 DEF NoteClash, Suspended
  <1>4. ASSUME ~collided, pc[c] \notin {"idle", "sending"}
        PROVE  \A d \in Callers \ {c} : pc[d] = "idle"
    BY <1>4 DEF Orderly
  <1>5. CASE (\E h : Connect(c, h)) \/ Reconnect(c) \/ Disconnect(c)
    BY <1>3, <1>5 DEF Connect, Reconnect, Disconnect
  <1>6. CASE Closed(c) \/ TunnelUp(c) \/ TunnelFails(c) \/ TcpUp(c) \/ ConnectFails(c)
               \/ ConnectDone(c) \/ Disconnected(c)
    <2>1. collided' = collided /\ pc[c] \notin {"idle", "sending"}
      BY <1>6 DEF Closed, TunnelUp, TunnelFails, TcpUp, ConnectFails, ConnectDone, Disconnected
    <2>2. QED BY <1>4, <2>1
  <1>7. CASE SendKey(c)
    <2>1. UNCHANGED <<session, conn>> /\ ~collided /\ \A d \in Suspended : pc[d] = "sending"
      BY <1>7 DEF SendKey, globals, sessions
    <2>2. \A d \in Callers \ {c} : pc[d] \in {"idle", "sending"}
      BY <2>1 DEF Suspended
    <2>3. pc'[c] \in {"idle", "sending"}
      BY <1>1, <1>2, <1>7 DEF SendKey, SendOn
    <2>4. QED BY <2>1, <2>2, <2>3
  <1>8. CASE KeyAnswered(c) \/ Look(c)
    BY <1>1, <1>8 DEF KeyAnswered, Look, Respond, globals, sessions
  <1>9. QED BY <1>5, <1>6, <1>7, <1>8 DEF Call, Resume

\* Where a step leaves its call.
LEMMA OrderlyPlace ==
    ASSUME TypeOK, Placed, Orderly, NEW c \in Callers, Call(c) \/ Resume(c), ~collided'
    PROVE  /\ pc'[c] \notin {"idle", "tunnel"} => sess'[c] = session'
           /\ pc'[c] = "tunnel" => ~HasWriter(session)'
  <1> DEFINE Good == /\ pc'[c] \notin {"idle", "tunnel"} => sess'[c] = session'
                     /\ pc'[c] = "tunnel" => ~HasWriter(session)'
  <1> SUFFICES Good
    OBVIOUS
  <1>1. ASSUME NEW r, NEW s, Return(c, r, s) PROVE Good
    BY <1>1 DEF Return, TypeOK, CallsOK
  <1>2. ASSUME NEW at, Suspend(c, at) PROVE pc'[c] = at
    BY <1>2 DEF Suspend, TypeOK, CallsOK
  <1>3. ASSUME NEW h, NEW conns, MakeSession(c, h, conns) PROVE Good
    BY <1>2, <1>3 DEF MakeSession, TypeOK, CallsOK
  <1>4. ASSUME NEW h, NEW current, NEW conns, Proceed(c, h, current, conns),
               current = None \/ conns[current] \notin Writable
        PROVE  Good
    <2>1. CASE Return(c, "error", None)
      BY <1>1, <2>1
    <2>2. CASE MakeSession(c, Resolved(h), conns)
      BY <1>3, <2>2
    <2>3. CASE Suspend(c, "tunnel") /\ session' = current /\ conn' = conns
      BY <1>2, <1>4, <2>3 DEF HasWriter
    <2>4. QED BY <1>4, <2>1, <2>2, <2>3 DEF Proceed
  <1>5. ASSUME NEW s, SendOn(c, s), session' = s PROVE Good
    <2>1. CASE Return(c, "raised", None)
      BY <1>1, <2>1
    <2>2. CASE Suspend(c, "sending")
      BY <1>2, <1>5, <2>2 DEF SendOn, TypeOK, CallsOK
    <2>3. QED BY <1>5, <2>1, <2>2 DEF SendOn
  <1>6. ~collided
    BY AloneStep
  <1>7. CASE \E h : Connect(c, h)
    <2>1. PICK h : Connect(c, h)
      BY <1>7
    <2>2. CASE Return(c, "raised", None)
      BY <1>1, <2>2
    <2>3. CASE Suspend(c, "closing") /\ sess' = [sess EXCEPT ![c] = session] /\ session' = session
      BY <1>2, <2>3 DEF TypeOK, CallsOK
    <2>4. CASE ~HasWriter(session) /\ Proceed(c, h, session, conn)
      BY <1>4, <2>4 DEF HasWriter
    <2>5. QED BY <2>1, <2>2, <2>3, <2>4 DEF Connect
  <1>8. CASE Closed(c)
    <2>1. sess[c] = session
      BY <1>6, <1>8 DEF Closed, Orderly
    <2> DEFINE conns == [conn EXCEPT ![session] = "closed"]
    <2>2. Proceed(c, want[c], session, conns)
      BY <1>8, <2>1 DEF Closed
    <2>3. session = None \/ conns[session] \notin Writable
      BY DEF TypeOK, StoreOK, None, Writable
    <2>4. QED BY <1>4, <2>2, <2>3
  <1>9. CASE TunnelUp(c)
    BY <1>3, <1>9 DEF TunnelUp
  <1>10. CASE TunnelFails(c) \/ ConnectFails(c) \/ KeyAnswered(c) \/ Look(c) \/ Disconnected(c)
    BY <1>1, <1>10 DEF TunnelFails, ConnectFails, KeyAnswered, Look, Disconnected, Respond
  <1>11. CASE TcpUp(c)
    <2>1. pc[c] = "tcp" /\ pc'[c] = "up" /\ UNCHANGED <<session, sess>>
      BY <1>2, <1>11 DEF TcpUp, globals
    <2>2. QED BY <1>6, <2>1 DEF Orderly
  <1>12. CASE ConnectDone(c)
    BY <1>1, <1>5, <1>12 DEF ConnectDone, Respond
  <1>13. CASE SendKey(c)
    BY <1>1, <1>5, <1>13 DEF SendKey, globals
  <1>14. CASE Reconnect(c)
    BY <1>1, <1>4, <1>14 DEF Reconnect
  <1>15. CASE Disconnect(c)
    <2>1. CASE \E r : Return(c, r, None)
      BY <1>1, <2>1
    <2>2. CASE Suspend(c, "ending") /\ sess' = [sess EXCEPT ![c] = session] /\ session' = session
      BY <1>2, <2>2 DEF TypeOK, CallsOK
    <2>3. QED BY <1>15, <2>1, <2>2 DEF Disconnect
  <1>16. QED
    BY <1>7, <1>8, <1>9, <1>10, <1>11, <1>12, <1>13, <1>14, <1>15 DEF Call, Resume

\* Every step keeps order.
LEMMA OrderlyStep == TypeOK /\ Placed /\ Orderly /\ [Next]_vars => Orderly'
  <1> SUFFICES ASSUME TypeOK, Placed, Orderly, [Next]_vars, ~collided' PROVE Orderly'
    BY DEF Orderly
  <1>1. ASSUME NEW c \in Callers, Call(c) \/ Resume(c) PROVE Orderly'
    <2>1. \A d \in Callers \ {c} : pc'[d] = pc[d] /\ sess'[d] = sess[d]
      BY <1>1, ApartStep DEF Apart
    <2>2. /\ pc'[c] \notin {"idle", "tunnel"} => sess'[c] = session'
          /\ pc'[c] = "tunnel" => ~HasWriter(session)'
      BY <1>1, OrderlyPlace
    <2>3. CASE /\ UNCHANGED <<session, conn>> /\ pc'[c] \in {"idle", "sending"}
               /\ pc'[c] = "sending" => \A d \in Callers \ {c} : pc[d] \in {"idle", "sending"}
      <3>1. HasWriter(session)' = HasWriter(session)
        BY <2>3 DEF HasWriter
      <3>2. ~collided
        BY <1>1, AloneStep
      <3>3. QED BY <2>1, <2>2, <2>3, <3>1, <3>2 DEF Orderly
    <2>4. CASE \A d \in Callers \ {c} : pc[d] = "idle"
      BY <2>1, <2>2, <2>4 DEF Orderly
    <2>5. QED BY <1>1, <2>3, <2>4, AloneStep
  <1>2. ASSUME NEW s \in Sessions, PeerEof(s) \/ PeerReset(s) PROVE Orderly'
    <2>1. UNCHANGED <<session, pc, sess, collided>> /\ conn[s] \in Writable
          /\ \E x : conn' = [conn EXCEPT ![s] = x]
      BY <1>2 DEF PeerEof, PeerReset, globals, calls, history, Writable
    <2>2. ~HasWriter(session) => ~HasWriter(session)'
      BY <2>1 DEF HasWriter, TypeOK, StoreOK
    <2>3. QED BY <2>1, <2>2 DEF Orderly
  <1>3. CASE UNCHANGED vars
    BY <1>3 DEF vars, globals, sessions, calls, history, Orderly, HasWriter
  <1>4. QED BY <1>1, <1>2, <1>3 DEF Next

\* No live connection is lost sight of.
LEMMA NoLeakStep == TypeOK /\ Placed /\ Orderly /\ NoLeak /\ [Next]_vars => NoLeak'
  <1> SUFFICES ASSUME TypeOK, Placed, Orderly, NoLeak, [Next]_vars, ~collided',
                      NEW s \in Sessions', conn'[s] = "open"
               PROVE  s = session' \/ s \in abandoned'
    BY DEF NoLeak
  <1>1. /\ conn \in Seq(Conns) /\ Len(conn) = made /\ made \in Nat /\ session \in 0..made
        /\ sess \in [Callers -> 0..made]
    BY DEF TypeOK, StoreOK, CallsOK, made
  <1>2. ASSUME s \in Sessions, conn[s] = "open", ~collided PROVE s = session \/ s \in abandoned
    BY <1>2 DEF NoLeak
  <1>3. ASSUME NEW c \in Callers, Call(c) \/ Resume(c) PROVE s = session' \/ s \in abandoned'
    <2>1. ~collided
      BY <1>3, AloneStep
    <2>2. pc[c] \notin {"idle", "tunnel"} => sess[c] = session /\ session \in 1..made
      BY <1>1, <2>1 DEF Orderly, Placed, None
    <2>3. ASSUME NEW h, NEW conns \in Seq(Conns), Len(conns) = made, MakeSession(c, h, conns)
          PROVE  s = session' \/ (s \in Sessions /\ conns[s] = "open")
      BY <1>1, <2>3 DEF MakeSession, Sessions, made
    <2>4. ASSUME NEW h, NEW current, NEW conns \in Seq(Conns), Len(conns) = made,
                 Proceed(c, h, current, conns)
          PROVE  s = session' \/ (s \in Sessions /\ conns[s] = "open")
      <3>1. CASE MakeSession(c, Resolved(h), conns)
        BY <2>3, <2>4, <3>1
      <3>2. CASE conn' = conns /\ UNCHANGED target
        BY <3>2 DEF Sessions, made
      <3>3. QED BY <2>4, <3>1, <3>2 DEF Proceed
    <2>5. CASE \E h : Connect(c, h)
      <3>1. PICK h : Connect(c, h)
        BY <2>5
      <3>2. abandoned' = abandoned
        BY <3>1 DEF Connect
      <3>3. CASE HasWriter(session)
        <4>1. /\ UNCHANGED <<session, target>>
              /\ conn' = conn \/ conn' = [conn EXCEPT ![session] = "closing"]
          BY <3>1, <3>3 DEF Connect
        <4>2. s \in Sessions /\ (s = session \/ conn[s] = "open")
          BY <1>1, <4>1 DEF Sessions, made
        <4>3. QED BY <1>2, <2>1, <3>2, <4>1, <4>2
      <3>4. CASE ~HasWriter(session)
        <4>1. s = session' \/ (s \in Sessions /\ conn[s] = "open")
          BY <1>1, <2>4, <3>1, <3>4 DEF Connect
        <4>2. ASSUME s \in Sessions, conn[s] = "open" PROVE s # session
          BY <3>4, <4>2 DEF HasWriter, Writable, None, Sessions
        <4>3. QED BY <1>2, <2>1, <3>2, <4>1, <4>2
      <3>5. QED BY <3>3, <3>4
    <2>6. CASE Closed(c)
      <3> DEFINE conns == [conn EXCEPT ![session] = "closed"]
      <3>1. session \in 1..made /\ Proceed(c, want[c], session, conns) /\ abandoned' = abandoned
        BY <2>2, <2>6 DEF Closed
      <3>2. conns \in Seq(Conns) /\ Len(conns) = made /\ conns[session] = "closed"
            /\ \A t \in Sessions : t # session => conns[t] = conn[t]
        BY <1>1, <3>1 DEF Conns, Sessions
      <3> HIDE DEF conns
      <3>3. s = session' \/ (s \in Sessions /\ conns[s] = "open")
        BY <2>4, <3>1, <3>2
      <3>4. QED BY <1>2, <2>1, <3>1, <3>2, <3>3
    <2>7. CASE TunnelUp(c)
      <3>1. /\ MakeSession(c, Resolved(want[c]), conn) /\ ~HasWriter(session)
            /\ abandoned' = abandoned
        BY <2>1, <2>7 DEF TunnelUp, Orderly
      <3>2. s = session' \/ (s \in Sessions /\ conn[s] = "open")
        BY <1>1, <2>3, <3>1
      <3>3. ASSUME s \in Sessions, conn[s] = "open" PROVE s # session
        BY <3>1, <3>3 DEF HasWriter, Writable, None, Sessions
      <3>4. QED BY <1>2, <2>1, <3>1, <3>2, <3>3
    <2>8. CASE TunnelFails(c) \/ SendKey(c) \/ KeyAnswered(c) \/ Look(c) \/ ConnectDone(c)
      <3>1. UNCHANGED <<session, target, conn, abandoned>>
        BY <2>8 DEF TunnelFails, SendKey, KeyAnswered, Look, ConnectDone, globals, sessions
      <3>2. QED BY <1>2, <2>1, <3>1 DEF Sessions, made
    <2>9. CASE ConnectFails(c)
      <3>1. /\ UNCHANGED <<target, conn>> /\ abandoned' = abandoned \cup {sess[c]}
            /\ pc[c] \in {"tcp", "up"}
        BY <2>9 DEF ConnectFails, sessions
      <3>2. QED BY <1>2, <2>1, <2>2, <3>1 DEF Sessions, made
    <2>10. CASE TcpUp(c)
      <3>1. /\ UNCHANGED <<session, target, abandoned>> /\ session \in 1..made
            /\ conn' = [conn EXCEPT ![session] = "open"]
        BY <2>2, <2>10 DEF TcpUp, globals
      <3>2. s \in Sessions /\ (s = session \/ conn[s] = "open")
        BY <1>1, <3>1 DEF Sessions, made
      <3>3. QED BY <1>2, <2>1, <3>1, <3>2
    <2>11. CASE Disconnected(c)
      <3>1. /\ UNCHANGED <<target, abandoned>> /\ session \in 1..made
            /\ conn' = [conn EXCEPT ![session] = "closed"]
        BY <2>2, <2>11 DEF Disconnected
      <3>2. s \in Sessions /\ s # session /\ conn[s] = "open"
        BY <1>1, <3>1 DEF Sessions, made
      <3>3. QED BY <1>2, <2>1, <3>1, <3>2
    <2>12. CASE Disconnect(c)
      <3>1. UNCHANGED <<target, abandoned>>
        BY <2>12 DEF Disconnect
      <3>2. CASE HasWriter(session)
        <4>1. session' = session /\ (conn' = conn \/ conn' = [conn EXCEPT ![session] = "closing"])
          BY <2>12, <3>2 DEF Disconnect
        <4>2. s \in Sessions /\ (s = session \/ conn[s] = "open")
          BY <1>1, <3>1, <4>1 DEF Sessions, made
        <4>3. QED BY <1>2, <2>1, <3>1, <4>1, <4>2
      <3>3. CASE ~HasWriter(session)
        <4>1. conn' = conn /\ s \in Sessions
          BY <2>12, <3>1, <3>3 DEF Disconnect, Sessions, made
        <4>2. s # session
          BY <3>3, <4>1 DEF HasWriter, Writable, None, Sessions
        <4>3. QED BY <1>2, <2>1, <3>1, <4>1, <4>2
      <3>4. QED BY <3>2, <3>3
    <2>13. CASE Reconnect(c)
      <3>1. /\ pc[c] = "sending" /\ "oserror" \in KeyOutcomes(conn[sess[c]])
            /\ abandoned' = abandoned
        BY <2>13 DEF Reconnect
      <3>2. conn[session] # "open"
        BY <2>2, <3>1 DEF KeyOutcomes
      <3>3. CASE last = NeverConnected
        <4>1. UNCHANGED <<session, target, conn>>
          BY <2>13, <3>3 DEF Reconnect, sessions
        <4>2. QED BY <1>2, <2>1, <3>1, <4>1 DEF Sessions, made
      <3>4. CASE last # NeverConnected
        <4>1. Proceed(c, last, None, conn)
          BY <2>13, <3>4 DEF Reconnect
        <4>2. QED BY <1>1, <1>2, <2>1, <2>4, <3>1, <3>2, <4>1
      <3>5. QED BY <3>3, <3>4
    <2>14. QED
      BY <1>3, <2>5, <2>6, <2>7, <2>8, <2>9, <2>10, <2>11, <2>12, <2>13 DEF Call, Resume
  <1>4. ASSUME NEW t \in Sessions, PeerEof(t) \/ PeerReset(t) PROVE s = session' \/ s \in abandoned'
    <2>1. /\ UNCHANGED <<session, target, abandoned, collided>>
          /\ \E x \in {"eof", "reset"} : conn' = [conn EXCEPT ![t] = x]
      BY <1>4 DEF PeerEof, PeerReset, globals, history
    <2>2. s \in Sessions /\ conn[s] = "open"
      BY <1>1, <2>1 DEF Sessions, made
    <2>3. QED BY <1>2, <2>1, <2>2
  <1>5. CASE UNCHANGED vars
    BY <1>2, <1>5 DEF vars, globals, sessions, history, Sessions, made
  <1>6. QED BY <1>3, <1>4, <1>5 DEF Next

\* While no calls clash the server holds every live connection it opened, but for
\* those of a connect() that failed.
THEOREM NoLeakTheorem == Spec => []NoLeak
  <1>1. Init => Orderly /\ NoLeak
    BY DEF Init, Orderly, NoLeak, Sessions, made
  <1>2. TypeOK /\ Placed /\ Orderly /\ NoLeak /\ [Next]_vars => (TypeOK /\ Placed /\ Orderly /\ NoLeak)'
    BY TypeStep, PlacedStep, OrderlyStep, NoLeakStep
  <1>3. QED BY InitOK, <1>1, <1>2, PTL DEF Spec

-----------------------------------------------------------------------------
\* A lost session is re-established with its host.

\* A call that connects has made its session for the host it was to connect to.
Aimed == \A c \in Callers : pc[c] \in {"tcp", "up"} => target[sess[c]] = Resolved(want[c])

\* Proceeding, connect() makes a session for its host, or none.
LEMMA ProceedTarget ==
    ASSUME TypeOK, NEW c \in Callers, NEW h, NEW current, NEW conns,
           Proceed(c, h, current, conns)
    PROVE  \/ target' = target /\ pc'[c] \in {"idle", "tunnel"}
           \/ target' = Append(target, Resolved(h)) /\ pc'[c] = "tcp" /\ sess'[c] = made + 1
  BY DEF Proceed, MakeSession, Suspend, Return, TypeOK, CallsOK

\* A call makes a session for the host it connects to, or none.
LEMMA TargetStep ==
    ASSUME TypeOK, NEW c \in Callers, Call(c) \/ Resume(c)
    PROVE  \/ /\ target' = target
              /\ pc'[c] \in {"tcp", "up"} => pc[c] = "tcp" /\ UNCHANGED <<sess, want>>
           \/ target' = Append(target, Resolved(want'[c])) /\ pc'[c] = "tcp" /\ sess'[c] = made + 1
  <1>1. ASSUME NEW r, NEW s, Return(c, r, s) PROVE pc'[c] = "idle"
    BY <1>1 DEF Return, TypeOK, CallsOK
  <1>2. ASSUME NEW at, Suspend(c, at) PROVE pc'[c] = at
    BY <1>2 DEF Suspend, TypeOK, CallsOK
  <1>3. CASE \E h : Connect(c, h)
    <2>1. PICK h : Connect(c, h)
      BY <1>3
    <2>2. CASE UNCHANGED target /\ (Return(c, "raised", None) \/ Suspend(c, "closing"))
      BY <1>1, <1>2, <2>2
    <2>3. CASE Proceed(c, h, session, conn)
      <3>1. want'[c] = h
        BY <2>1 DEF Connect, TypeOK, CallsOK
      <3>2. QED BY <2>3, <3>1, ProceedTarget
    <2>4. QED BY <2>1, <2>2, <2>3 DEF Connect
  <1>4. CASE Closed(c)
    BY <1>4, ProceedTarget DEF Closed
  <1>5. CASE TunnelUp(c)
    <2>1. MakeSession(c, Resolved(want[c]), conn) /\ want' = want
      BY <1>5 DEF TunnelUp
    <2>2. pc'[c] = "tcp" /\ sess'[c] = made + 1 /\ target' = Append(target, Resolved(want[c]))
      BY <1>2, <2>1 DEF MakeSession, TypeOK, CallsOK
    <2>3. QED BY <2>1, <2>2
  <1>6. CASE TcpUp(c)
    BY <1>6 DEF TcpUp
  <1>7. CASE TunnelFails(c) \/ ConnectFails(c) \/ KeyAnswered(c) \/ Look(c) \/ Disconnected(c)
    BY <1>1, <1>7 DEF TunnelFails, ConnectFails, KeyAnswered, Look, Disconnected, Respond, sessions
  <1>8. CASE ConnectDone(c) \/ SendKey(c) \/ Disconnect(c)
    <2>1. target' = target
      BY <1>8 DEF ConnectDone, SendKey, Disconnect, sessions
    <2>2. pc'[c] \in {"idle", "sending", "ending"}
      BY <1>1, <1>2, <1>8 DEF ConnectDone, SendKey, Disconnect, SendOn, Respond
    <2>3. QED BY <2>1, <2>2
  <1>9. CASE Reconnect(c)
    <2>1. CASE last = NeverConnected
      BY <1>1, <1>9, <2>1 DEF Reconnect, sessions
    <2>2. CASE last # NeverConnected
      <3>1. Proceed(c, last, None, conn) /\ want'[c] = last
        BY <1>9, <2>2 DEF Reconnect, TypeOK, CallsOK
      <3>2. QED BY <3>1, ProceedTarget
    <2>3. QED BY <2>1, <2>2
  <1>10. QED BY <1>3, <1>4, <1>5, <1>6, <1>7, <1>8, <1>9 DEF Call, Resume

\* Every step keeps the aim.
LEMMA AimedStep == TypeOK /\ Placed /\ Aimed /\ [Next]_vars => Aimed'
  <1> SUFFICES ASSUME TypeOK, Placed, Aimed, [Next]_vars PROVE Aimed'
    OBVIOUS
  <1>1. /\ target \in Seq(Hosts) /\ Len(target) = made /\ made \in Nat
        /\ \A d \in Callers : sess[d] \in 0..made
    BY DEF TypeOK, StoreOK, CallsOK, made
  <1>2. ASSUME NEW c \in Callers, Call(c) \/ Resume(c) PROVE Aimed'
    <2> SUFFICES ASSUME NEW d \in Callers, pc'[d] \in {"tcp", "up"}
                 PROVE  target'[sess'[d]] = Resolved(want'[d])
      BY DEF Aimed
    <2>1. CASE d # c
      <3>1. /\ pc'[d] = pc[d] /\ sess'[d] = sess[d] /\ want'[d] = want[d]
        BY <1>2, <2>1, ApartStep DEF Apart
      <3>2. sess[d] \in 1..made /\ target[sess[d]] = Resolved(want[d])
        BY <1>1, <3>1 DEF Aimed, Placed, None
      <3>3. \A h : Append(target, h)[sess[d]] = target[sess[d]]
        BY <1>1, <3>2
      <3>4. QED BY <1>2, <3>1, <3>2, <3>3, TargetStep DEF Resolved
    <2>2. CASE d = c
      <3>1. \A h : Append(target, h)[made + 1] = h
        BY <1>1
      <3>2. QED BY <1>2, <2>2, <3>1, TargetStep DEF Aimed, Resolved
    <2>3. QED BY <2>1, <2>2
  <1>3. ASSUME UNCHANGED <<target, calls>> PROVE Aimed'
    BY <1>3 DEF Aimed, calls, Resolved
  <1>4. ASSUME NEW s, PeerEof(s) \/ PeerReset(s) PROVE Aimed'
    BY <1>3, <1>4 DEF PeerEof, PeerReset
  <1>5. CASE UNCHANGED vars
    BY <1>3, <1>5 DEF vars, sessions
  <1>6. QED BY <1>2, <1>4, <1>5 DEF Next

\* A call that is connecting goes on with its session, or drops it, or notes the host.
LEMMA ConnectingStep ==
    ASSUME TypeOK, NEW c \in Callers, Call(c) \/ Resume(c), pc[c] \in {"tcp", "up"}
    PROVE  \/ pc'[c] = "up" /\ sess' = sess
           \/ session' = None
           \/ pc[c] = "up" /\ last' = want[c]
  BY DEF Call, Resume, Connect, SendKey, Look, Disconnect, Closed, TunnelUp, TunnelFails, TcpUp,
         ConnectFails, ConnectDone, KeyAnswered, Reconnect, Disconnected, Suspend, TypeOK, CallsOK

\* Every step keeps the host that a reconnect goes to.
LEMMA SameHostStep ==
    TypeOK /\ Placed /\ Orderly /\ Aimed /\ SameHost /\ [Next]_vars => SameHost'
  <1> SUFFICES ASSUME TypeOK, Placed, Orderly, Aimed, SameHost, [Next]_vars,
                      ~collided', session' # None, last' # NeverConnected
               PROVE  \/ target'[session'] = Resolved(last')
                      \/ \E c \in Callers : pc'[c] \in {"tcp", "up"} /\ sess'[c] = session'
    BY DEF SameHost, Resolved
  <1>1. /\ target \in Seq(Hosts) /\ Len(target) = made /\ made \in Nat
    BY DEF TypeOK, StoreOK, made
  <1>2. ASSUME NEW c \in Callers, Call(c) \/ Resume(c)
        PROVE  \/ target'[session'] = Resolved(last')
               \/ \E d \in Callers : pc'[d] \in {"tcp", "up"} /\ sess'[d] = session'
    <2>1. ~collided
      BY <1>2, AloneStep
    <2>2. CASE session' = made + 1 /\ pc'[c] = "tcp" /\ sess'[c] = made + 1
      BY <2>2
    <2>3. CASE session' = session /\ made' = made
      <3>1. target' = target
        BY <1>1, <1>2, <2>3, TargetStep DEF made
      <3>2. ASSUME pc[c] = "up", last' = want[c] PROVE target'[session'] = Resolved(last')
        BY <2>1, <2>3, <3>1, <3>2 DEF Orderly, Aimed
      <3>3. CASE last' = last
        <4>1. CASE target[session] = Resolved(last)
          BY <2>3, <3>1, <3>3, <4>1
        <4>2. ASSUME NEW d \in Callers, pc[d] \in {"tcp", "up"}, sess[d] = session
              PROVE  \/ target'[session'] = Resolved(last')
                     \/ \E e \in Callers : pc'[e] \in {"tcp", "up"} /\ sess'[e] = session'
          <5>1. CASE d # c
            BY <1>2, <2>3, <4>2, <5>1, ApartStep DEF Apart
          <5>2. CASE d = c
            BY <1>2, <2>3, <3>2, <4>2, <5>2, ConnectingStep
          <5>3. QED BY <5>1, <5>2
        <4>3. QED BY <2>1, <2>3, <3>3, <4>1, <4>2 DEF SameHost
      <3>4. QED BY <1>2, <3>2, <3>3, SessionStep
    <2>4. QED BY <1>2, <2>2, <2>3, SessionStep
  <1>3. ASSUME UNCHANGED <<session, last, target, pc, sess, collided>>
        PROVE  \/ target'[session'] = Resolved(last')
               \/ \E c \in Callers : pc'[c] \in {"tcp", "up"} /\ sess'[c] = session'
    BY <1>3 DEF SameHost
  <1>4. ASSUME NEW s, PeerEof(s) \/ PeerReset(s)
        PROVE  UNCHANGED <<session, last, target, pc, sess, collided>>
    BY <1>4 DEF PeerEof, PeerReset, globals, calls, history
  <1>5. CASE UNCHANGED vars
    BY <1>3, <1>5 DEF vars, globals, sessions, calls, history
  <1>6. QED BY <1>2, <1>3, <1>4, <1>5 DEF Next

\* While no calls clash, a lost session is re-established with the host it was
\* connected to.
THEOREM SameHostTheorem == Spec => []SameHost
  <1>1. Init => Orderly /\ Aimed /\ SameHost
    BY DEF Init, Orderly, Aimed, SameHost
  <1>2. TypeOK /\ Placed /\ Orderly /\ Aimed /\ SameHost /\ [Next]_vars
          => (TypeOK /\ Placed /\ Orderly /\ Aimed /\ SameHost)'
    BY TypeStep, PlacedStep, OrderlyStep, AimedStep, SameHostStep
  <1>3. QED BY InitOK, <1>1, <1>2, PTL DEF Spec

-----------------------------------------------------------------------------
\* A call shows the session it works on.

\* A call that has not reconnected connects for connect() only, and works on the
\* session it began with or made.
BegunCall(c) ==
    /\ pc[c] \in {"closing", "tunnel", "tcp", "up"} /\ ~reconnected[c] => op[c] = "connect"
    /\ pc[c] \in {"tcp", "up", "sending"} /\ ~reconnected[c] => first[c] = sess[c]

Begun == \A c \in Callers : BegunCall(c)

\* Every step keeps that.
LEMMA BegunStep == TypeOK /\ Begun /\ [Next]_vars => Begun'
  <1> SUFFICES ASSUME TypeOK, Begun, [Next]_vars PROVE Begun'
    OBVIOUS
  <1>1. ASSUME NEW c \in Callers, Call(c) \/ Resume(c), NEW d \in Callers \ {c}
        PROVE  BegunCall(d)'
    BY <1>1, ApartStep DEF Apart, Begun, BegunCall
  <1>2. ASSUME NEW c \in Callers, Call(c) \/ Resume(c) PROVE BegunCall(c)'
    <2> BegunCall(c)
      BY DEF Begun
    <2>1. ASSUME pc'[c] \in {"idle", "ending"} \/ reconnected'[c] PROVE BegunCall(c)'
      BY <2>1 DEF BegunCall
    <2>2. ASSUME NEW r, NEW s, Return(c, r, s) PROVE pc'[c] = "idle"
      BY <2>2 DEF Return, TypeOK, CallsOK
    <2>3. ASSUME NEW at, Suspend(c, at) PROVE pc'[c] = at
      BY <2>3 DEF Suspend, TypeOK, CallsOK
    <2>4. ASSUME NEW h, NEW conns, MakeSession(c, h, conns), op'[c] = "connect"
          PROVE  BegunCall(c)'
      <3>1. first'[c] = made + 1 /\ sess'[c] = made + 1
        BY <2>4 DEF MakeSession, TypeOK, CallsOK
      <3>2. QED BY <2>4, <3>1 DEF BegunCall
    <2>5. ASSUME NEW h, NEW current, NEW conns, Proceed(c, h, current, conns),
                 op'[c] = "connect"
          PROVE  BegunCall(c)'
      <3>1. CASE Return(c, "error", None)
        BY <2>1, <2>2, <3>1
      <3>2. CASE MakeSession(c, Resolved(h), conns)
        BY <2>4, <2>5, <3>2
      <3>3. CASE Suspend(c, "tunnel")
        <4>1. pc'[c] = "tunnel"
          BY <2>3, <3>3
        <4>2. QED BY <2>5, <4>1 DEF BegunCall
      <3>4. QED BY <2>5, <3>1, <3>2, <3>3 DEF Proceed
    <2>6. CASE \E h : Connect(c, h)
      <3>1. PICK h : Connect(c, h)
        BY <2>6
      <3>2. op'[c] = "connect"
        BY <3>1 DEF Connect, TypeOK, CallsOK
      <3>3. CASE Return(c, "raised", None)
        BY <2>1, <2>2, <3>3
      <3>4. CASE Suspend(c, "closing")
        <4>1. pc'[c] = "closing"
          BY <2>3, <3>4
        <4>2. QED BY <3>2, <4>1 DEF BegunCall
      <3>5. CASE Proceed(c, h, session, conn)
        BY <2>5, <3>2, <3>5
      <3>6. QED BY <3>1, <3>3, <3>4, <3>5 DEF Connect
    <2>7. CASE Closed(c) \/ TunnelUp(c)
      <3>1. /\ pc[c] \in {"closing", "tunnel"} /\ UNCHANGED <<op, reconnected>>
            /\ \/ MakeSession(c, Resolved(want[c]), conn)
               \/ \E conns : Proceed(c, want[c], session, conns)
        BY <2>7 DEF Closed, TunnelUp
      <3>2. op'[c] = "connect" \/ reconnected'[c]
        BY <3>1 DEF BegunCall
      <3>3. QED BY <2>1, <2>4, <2>5, <3>1, <3>2
    <2>8. CASE TunnelFails(c) \/ ConnectFails(c) \/ KeyAnswered(c) \/ Look(c) \/ Disconnected(c)
      BY <2>1, <2>2, <2>8 DEF TunnelFails, ConnectFails, KeyAnswered, Look, Disconnected, Respond
    <2>9. CASE TcpUp(c)
      <3>1. /\ pc[c] = "tcp" /\ pc'[c] = "up" /\ UNCHANGED <<op, reconnected, first, sess>>
        BY <2>3, <2>9 DEF TcpUp
      <3>2. QED BY <3>1 DEF BegunCall
    <2>10. CASE ConnectDone(c)
      <3>1. pc[c] = "up" /\ UNCHANGED reconnected /\ (op[c] = "key" \/ Respond(c))
        BY <2>10 DEF ConnectDone
      <3>2. reconnected'[c] \/ Respond(c)
        BY <3>1 DEF BegunCall
      <3>3. QED BY <2>1, <2>2, <3>2 DEF Respond
    <2>11. CASE SendKey(c)
      <3>1. Return(c, "error", None) \/ SendOn(c, session)
        BY <2>11 DEF SendKey
      <3>2. CASE \E r, s : Return(c, r, s)
        BY <2>1, <2>2, <3>2
      <3>3. CASE Suspend(c, "sending") /\ sess' = [sess EXCEPT ![c] = session]
        <4>1. pc'[c] = "sending" /\ sess'[c] = session /\ first'[c] = session
          BY <2>3, <2>11, <3>3 DEF SendKey, TypeOK, CallsOK
        <4>2. QED BY <4>1 DEF BegunCall
      <3>4. QED BY <3>1, <3>2, <3>3 DEF SendOn
    <2>12. CASE Reconnect(c)
      <3>1. reconnected'[c] \/ Return(c, "error", None)
        BY <2>12 DEF Reconnect, TypeOK, CallsOK
      <3>2. QED BY <2>1, <2>2, <3>1
    <2>13. CASE Disconnect(c)
      <3>1. Suspend(c, "ending") \/ \E r : Return(c, r, None)
        BY <2>13 DEF Disconnect
      <3>2. QED BY <2>1, <2>2, <2>3, <3>1
    <2>14. QED
      BY <1>2, <2>6, <2>7, <2>8, <2>9, <2>10, <2>11, <2>12, <2>13 DEF Call, Resume
  <1>3. ASSUME UNCHANGED <<calls, first>> PROVE Begun'
    BY <1>3 DEF calls, Begun, BegunCall
  <1>4. ASSUME NEW s, PeerEof(s) \/ PeerReset(s) PROVE Begun'
    BY <1>3, <1>4 DEF PeerEof, PeerReset, history
  <1>5. CASE UNCHANGED vars
    BY <1>3, <1>5 DEF vars, history
  <1>6. QED
    <2>1. ASSUME NEW c \in Callers, Call(c) \/ Resume(c) PROVE Begun'
      BY <1>1, <1>2, <2>1 DEF Begun
    <2>2. QED BY <1>4, <1>5, <2>1 DEF Next

\* Where screens come from: a look at the current session, or the end of a key or
\* of a connect().
LEMMA ScreenStep ==
    ASSUME TypeOK, NEW c \in Callers, Call(c) \/ Resume(c), result'[c] \in {"screen", "warned"}
    PROVE  /\ shown'[c] = session
           /\ \/ first'[c] = session /\ result'[c] = "screen"
              \/ /\ pc[c] = "sending" \/ (pc[c] = "up" /\ (op[c] # "key" \/ session = None))
                 /\ first' = first /\ result'[c] = IF reconnected[c] THEN "warned" ELSE "screen"
  <1>1. ASSUME NEW r, NEW s, Return(c, r, s) PROVE result'[c] = r /\ shown'[c] = s
    BY <1>1 DEF Return, TypeOK, CallsOK
  <1>2. ASSUME (\E at : Suspend(c, at)) \/ \E r \in {"raised", "error", "closed"} : Return(c, r, None)
        PROVE  FALSE
    BY <1>2 DEF Suspend, Return, TypeOK, CallsOK
  <1>3. ASSUME Respond(c)
        PROVE  shown'[c] = session /\ result'[c] = IF reconnected[c] THEN "warned" ELSE "screen"
    BY <1>1, <1>2, <1>3 DEF Respond
  <1>4. ASSUME NEW h, NEW current, NEW conns, Proceed(c, h, current, conns) PROVE FALSE
    BY <1>2, <1>4 DEF Proceed, MakeSession
  <1>5. CASE (\E h : Connect(c, h)) \/ Closed(c) \/ TunnelUp(c) \/ TunnelFails(c) \/ TcpUp(c)
               \/ ConnectFails(c) \/ Reconnect(c) \/ Disconnect(c) \/ Disconnected(c) \/ SendKey(c)
    BY <1>2, <1>4, <1>5 DEF Connect, Closed, TunnelUp, TunnelFails, TcpUp, ConnectFails, Reconnect,
                            Disconnect, Disconnected, SendKey, SendOn, MakeSession
  <1>6. CASE Look(c)
    <2>1. Return(c, IF session = None THEN "error" ELSE "screen", session) /\ first'[c] = session
      BY <1>6 DEF Look, TypeOK, CallsOK
    <2>2. QED BY <1>1, <2>1
  <1>7. CASE ConnectDone(c)
    <2>1. /\ pc[c] = "up" /\ first' = first
          /\ SendOn(c, session) \/ (Respond(c) /\ (op[c] # "key" \/ session = None))
      BY <1>7 DEF ConnectDone
    <2>2. QED BY <1>2, <1>3, <2>1 DEF SendOn
  <1>8. CASE KeyAnswered(c)
    <2>1. pc[c] = "sending" /\ first' = first /\ (Respond(c) \/ Return(c, "raised", None))
      BY <1>8 DEF KeyAnswered
    <2>2. QED BY <1>2, <1>3, <2>1
  <1>9. QED BY <1>5, <1>6, <1>7, <1>8 DEF Call, Resume

\* Every screen is the caller's own.
LEMMA ScreenIsOwnStep ==
    TypeOK /\ Placed /\ Renewed /\ Orderly /\ Begun /\ ScreenIsOwn /\ [Next]_vars => ScreenIsOwn'
  <1> SUFFICES ASSUME TypeOK, Placed, Renewed, Orderly, Begun, ScreenIsOwn, [Next]_vars,
                      ~collided', NEW d \in Callers
               PROVE  /\ result'[d] = "screen" => shown'[d] = first'[d]
                      /\ result'[d] = "warned" => shown'[d] > first'[d]
    BY DEF ScreenIsOwn
  <1>1. ASSUME NEW c \in Callers, Call(c) \/ Resume(c)
        PROVE  /\ result'[d] = "screen" => shown'[d] = first'[d]
               /\ result'[d] = "warned" => shown'[d] > first'[d]
    <2>1. ~collided
      BY <1>1, AloneStep
    <2>2. CASE d # c
      BY <1>1, <2>1, <2>2, ApartStep DEF Apart, ScreenIsOwn
    <2>3. CASE d = c
      <3>1. pc[c] \in {"up", "sending"} => sess[c] = session /\ session # None
        BY <2>1 DEF Orderly, Placed
      <3>2. RenewedCall(c) /\ BegunCall(c)
        BY DEF Renewed, Begun
      <3>3. first[c] \in Int /\ sess[c] \in Int
        BY DEF TypeOK, CallsOK, StoreOK, made
      <3>4. QED BY <1>1, <2>3, <3>1, <3>2, <3>3, ScreenStep DEF RenewedCall, BegunCall
    <2>4. QED BY <2>2, <2>3
  <1>2. ASSUME UNCHANGED <<result, shown, first, collided>>
        PROVE  /\ result'[d] = "screen" => shown'[d] = first'[d]
               /\ result'[d] = "warned" => shown'[d] > first'[d]
    BY <1>2 DEF ScreenIsOwn
  <1>3. ASSUME NEW s, PeerEof(s) \/ PeerReset(s) PROVE UNCHANGED <<result, shown, first, collided>>
    BY <1>3 DEF PeerEof, PeerReset, calls, history
  <1>4. CASE UNCHANGED vars
    BY <1>2, <1>4 DEF vars, calls, history
  <1>5. QED BY <1>1, <1>2, <1>3, <1>4 DEF Next

\* While no calls clash, a call answers with the screen of the session it began
\* with or made, and says so when it has been replaced.
THEOREM ScreenTheorem == Spec => []ScreenIsOwn
  <1>1. Init => Renewed /\ Orderly /\ Begun /\ ScreenIsOwn
    BY DEF Init, Renewed, RenewedCall, Orderly, Begun, BegunCall, ScreenIsOwn
  <1>2. TypeOK /\ Placed /\ Renewed /\ Orderly /\ Begun /\ ScreenIsOwn /\ [Next]_vars
          => (TypeOK /\ Placed /\ Renewed /\ Orderly /\ Begun /\ ScreenIsOwn)'
    BY TypeStep, PlacedStep, RenewedStep, OrderlyStep, BegunStep, ScreenIsOwnStep
  <1>3. QED BY InitOK, <1>1, <1>2, PTL DEF Spec

=============================================================================
