---------------------------- MODULE SessionProofs ----------------------------
(***************************************************************************)
(* Theorems about Session, for any number of concurrent tool calls.        *)
(***************************************************************************)
EXTENDS Session, FiniteSetTheorems, SequenceTheorems, TLAPS

-----------------------------------------------------------------------------
\* The type invariant, the Boolean variables apart from the others.

\* The part of the data that the end of a call may change.
CallDataOK ==
    /\ screen \in Screens
    /\ pc \in [Callers -> Pcs] /\ call \in [Callers -> Calls]
    /\ buf \in [Callers -> Int] /\ result \in [Callers -> Results]
    /\ sent \in Nat /\ astray \in Nat /\ credsAt \in Int

\* An exception keeps the types of the callers' variables.
LEMMA RaiseData ==
    ASSUME DataOK, NEW c \in Callers, NEW e \in {"error", "oserror"}, Raise(c, e)
    PROVE  /\ pc' \in [Callers -> Pcs] /\ call' \in [Callers -> Calls]
           /\ buf' \in [Callers -> Int] /\ result' \in [Callers -> Results]
  BY DEF DataOK, Raise, Pcs, Calls, Results

\* The flag that the server keeps stays a flag when a call raises.
LEMMA RaiseFlags == ASSUME NEW c, NEW e, Raise(c, e) PROVE held' \in BOOLEAN
  BY DEF Raise

\* Leaving the loop keeps the types of what it changes.
LEMMA LeaveData ==
    ASSUME DataOK, answered' \in Nat, NEW c \in Callers, NEW to, NEW scr \in Screens,
           NEW own, Leave(c, to, scr, own)
    PROVE  CallDataOK'
  <1>1. screen' \in Screens /\ astray' \in Nat
    BY DEF DataOK, Leave
  <1>2. CASE SignsOn(c, scr) /\ HasWriter
    <2>1. /\ pc' = [pc EXCEPT ![c] = "drain"] /\ call' = [call EXCEPT ![c] = "signon"]
          /\ buf' = [buf EXCEPT ![c] = 0] /\ result' = result
          /\ sent' = sent + 1 /\ credsAt' = answered'
      BY <1>2 DEF Leave
    <2>2. QED BY <1>1, <2>1 DEF DataOK, CallDataOK, Pcs, Calls
  <1>3. CASE SignsOn(c, scr) /\ ~HasWriter
    <2>1. Raise(c, "error") /\ sent' = sent /\ credsAt' = credsAt
      BY <1>3 DEF Leave
    <2>2. QED BY <1>1, <2>1, RaiseData DEF DataOK, CallDataOK
  <1>4. CASE ~(SignsOn(c, scr))
    <2>1. /\ pc' = [pc EXCEPT ![c] = "idle"] /\ call' = [call EXCEPT ![c] = "none"]
          /\ buf' = [buf EXCEPT ![c] = 0]
          /\ \E r \in Results : result' = [result EXCEPT ![c] = r]
          /\ sent' = sent /\ credsAt' = credsAt
      BY <1>4 DEF Leave, Results
    <2>2. QED BY <1>1, <2>1 DEF DataOK, CallDataOK, Pcs, Calls
  <1>5. QED BY <1>2, <1>3, <1>4

\* Leaving the loop leaves the flags it sets flags.
LEMMA LeaveFlags ==
    ASSUME FlagsOK, NEW c, NEW to \in BOOLEAN, NEW scr, NEW own, Leave(c, to, scr, own)
    PROVE  locked' \in BOOLEAN /\ timedOut' \in BOOLEAN /\ signedIn' \in BOOLEAN /\ held' \in BOOLEAN
  BY RaiseFlags DEF FlagsOK, Leave

\* The test of the loop: the same two facts.
LEMMA LoopTopData ==
    ASSUME DataOK, answered' \in Nat, NEW c \in Callers, NEW lk, NEW to,
           NEW scr \in Screens, NEW own, LoopTop(c, lk, to, scr, own)
    PROVE  CallDataOK'
  <1>1. CASE lk
    BY <1>1 DEF DataOK, CallDataOK, LoopTop, Pcs
  <1>2. CASE ~lk
    BY <1>2, LeaveData DEF LoopTop
  <1>3. QED BY <1>1, <1>2

\* The test of the loop leaves them flags as well.
LEMMA LoopTopFlags ==
    ASSUME FlagsOK, NEW c, NEW lk, NEW to \in BOOLEAN, NEW scr, NEW own,
           LoopTop(c, lk, to, scr, own)
    PROVE  locked' \in BOOLEAN /\ timedOut' \in BOOLEAN /\ signedIn' \in BOOLEAN /\ held' \in BOOLEAN
  <1>1. CASE lk
    BY <1>1 DEF FlagsOK, LoopTop
  <1>2. CASE ~lk
    BY <1>2, LeaveFlags DEF LoopTop
  <1>3. QED BY <1>1, <1>2

\* An endless drawing stops the reader where it is; a query makes it reply; after
\* any other frame the loop goes on.
LEMMA DispatchCases ==
    ASSUME NEW c, NEW m, NEW own, Dispatch(c, m, own)
    PROVE  \/ /\ m.draws = "endless" /\ pc' = [pc EXCEPT ![c] = "parsing"]
              /\ buf' = [buf EXCEPT ![c] = 0]
              /\ UNCHANGED <<locked, screen, awaiting, call, result, held, signedIn,
                             timedOut, sent, astray, credsAt>>
           \/ /\ m.draws # "endless" /\ pc' = [pc EXCEPT ![c] = "reply"]
              /\ buf' = [buf EXCEPT ![c] = 0]
              /\ locked' = LockAfter(m) /\ screen' = ScreenAfter(m)
              /\ awaiting' = (awaiting /\ conn # "open")
              /\ QueryAfter(m)
              /\ UNCHANGED <<call, result, held, signedIn, timedOut, sent, astray, credsAt>>
           \/ /\ m.draws # "endless" /\ ~QueryAfter(m) /\ awaiting' = awaiting
              /\ LoopTop(c, LockAfter(m), timedOut, ScreenAfter(m), own)
  BY DEF Dispatch

\* What a frame says leaves the flags flags.
LEMMA DispatchFlags ==
    ASSUME FlagsOK, NEW c, NEW m, NEW own, Dispatch(c, m, own)
    PROVE  /\ locked' \in BOOLEAN /\ timedOut' \in BOOLEAN /\ signedIn' \in BOOLEAN
           /\ held' \in BOOLEAN /\ pendingQuery' \in BOOLEAN /\ light' \in BOOLEAN
           /\ awaiting' \in BOOLEAN
  <1>1. pendingQuery' \in BOOLEAN /\ light' \in BOOLEAN
    BY DEF Dispatch, QueryAfter, LightAfter
  <1>2. CASE UNCHANGED <<locked, timedOut, signedIn, held, awaiting>>
    BY <1>1, <1>2 DEF FlagsOK
  <1>3. CASE /\ locked' = LockAfter(m) /\ awaiting' = (awaiting /\ conn # "open")
             /\ UNCHANGED <<timedOut, signedIn, held>>
    BY <1>1, <1>3 DEF FlagsOK, LockAfter
  <1>4. CASE LoopTop(c, LockAfter(m), timedOut, ScreenAfter(m), own) /\ awaiting' = awaiting
    <2>1. timedOut \in BOOLEAN /\ awaiting \in BOOLEAN
      BY DEF FlagsOK
    <2>2. QED BY <1>1, <1>4, <2>1, LoopTopFlags
  <1>5. QED BY <1>2, <1>3, <1>4, DispatchCases

\* Every step keeps the types of the Boolean variables.
LEMMA FlagsStep == FlagsOK /\ [Next]_vars => FlagsOK'
  <1> SUFFICES ASSUME FlagsOK, [Next]_vars PROVE FlagsOK'
    OBVIOUS
  <1>1. ASSUME NEW c \in Callers, Connect(c) PROVE FlagsOK'
    BY <1>1 DEF FlagsOK, Connect, object, host, history
  <1>2. ASSUME NEW c \in Callers, SendKey(c) PROVE FlagsOK'
    BY <1>2 DEF FlagsOK, SendKey, host
  <1>3. ASSUME NEW c \in Callers, Disconnect(c) PROVE FlagsOK'
    BY <1>3 DEF FlagsOK, Disconnect, host, history
  <1>4. ASSUME NEW c \in Callers, TcpUp(c) PROVE FlagsOK'
    BY <1>4 DEF FlagsOK, TcpUp, host
  <1>5. ASSUME NEW c \in Callers, TcpFails(c) PROVE FlagsOK'
    BY <1>5, RaiseFlags DEF FlagsOK, TcpFails, object, host, history
  <1>6. ASSUME NEW c \in Callers, Negotiated(c) PROVE FlagsOK'
    BY <1>6, LoopTopFlags DEF FlagsOK, Negotiated, host
  <1>7. ASSUME NEW c \in Callers, Drain(c) PROVE FlagsOK'
    BY <1>7, LoopTopFlags, RaiseFlags DEF FlagsOK, Drain, host
  <1>8. ASSUME NEW c \in Callers, Park(c) PROVE FlagsOK'
    BY <1>8, RaiseFlags DEF FlagsOK, Park, object, host
  <1>9. ASSUME NEW c \in Callers, ReadHead(c) PROVE FlagsOK'
    BY <1>9 DEF FlagsOK, ReadHead, object, host, history
  <1>10. ASSUME NEW c \in Callers, ReadFrame(c) \/ Split(c) PROVE FlagsOK'
    <2>1. PICK m, own : Dispatch(c, m, own)
      BY <1>10 DEF ReadFrame, Split
    <2>2. tore' \in BOOLEAN
      BY <1>10 DEF ReadFrame, Split
    <2>3. QED BY <2>1, <2>2, DispatchFlags DEF FlagsOK
  <1>11. ASSUME NEW c \in Callers, DrainReply(c) PROVE FlagsOK'
    BY <1>11, LoopTopFlags, RaiseFlags DEF FlagsOK, DrainReply, host
  <1>12. ASSUME NEW c \in Callers, Timeout(c) PROVE FlagsOK'
    BY <1>12, LeaveFlags DEF FlagsOK, Timeout, host
  <1>13. ASSUME NEW c \in Callers, ReadFails(c) PROVE FlagsOK'
    BY <1>13, RaiseFlags DEF FlagsOK, ReadFails, object, host
  <1>14. ASSUME NEW c \in Callers, CloseDone(c) PROVE FlagsOK'
    BY <1>14 DEF FlagsOK, CloseDone, host, history
  <1>15. CASE HostSends
    BY <1>15 DEF FlagsOK, HostSends, object, history, Messages
  <1>15a. ASSUME NEW c \in Callers, Swallow(c) PROVE FlagsOK'
    BY <1>15a DEF FlagsOK, Swallow, object, host
  <1>16. CASE HostSendsRest
    BY <1>16 DEF FlagsOK, HostSendsRest, object, host, history
  <1>17. CASE PeerEof
    BY <1>17 DEF FlagsOK, PeerEof, object, host, history
  <1>18. CASE PeerReset
    BY <1>18 DEF FlagsOK, PeerReset, object, host, history
  <1>19. CASE UNCHANGED vars
    BY <1>19 DEF FlagsOK, vars, object, host, history
  <1>20. QED
    BY <1>1, <1>2, <1>3, <1>4, <1>5, <1>6, <1>7, <1>8, <1>9, <1>10, <1>11, <1>12,
       <1>13, <1>14, <1>15, <1>15a, <1>16, <1>17, <1>18, <1>19 DEF Next, Progress

\* What a frame says keeps the types of what it changes.
LEMMA DispatchData ==
    ASSUME DataOK, answered' \in Nat, NEW c \in Callers, NEW m \in Messages \cup {Nothing},
           NEW own, Dispatch(c, m, own)
    PROVE  CallDataOK'
  <1>1. m.draws # "endless" => ScreenAfter(m) \in Screens
    BY DEF DataOK, ScreenAfter, Messages, Drawings, Nothing, Screens
  <1>2. ASSUME NEW p \in {"parsing", "reply"}, pc' = [pc EXCEPT ![c] = p],
               buf' = [buf EXCEPT ![c] = 0], screen' \in Screens,
               UNCHANGED <<call, result, sent, astray, credsAt>>
        PROVE  CallDataOK'
    BY <1>2 DEF DataOK, CallDataOK, Pcs
  <1>3. screen \in Screens
    BY DEF DataOK
  <1>4. QED BY <1>1, <1>2, <1>3, DispatchCases, LoopTopData

\* Cutting the first chunk leaves a chunk with the same message and answer.
LEMMA ScrapProperties ==
    ASSUME DataOK, net # <<>>, Head(net).part = "tail", net' = [net EXCEPT ![1].part = "scrap"]
    PROVE  /\ net' \in Seq(Chunks) /\ Len(net') = Len(net)
           /\ \A i \in 1..Len(net) : /\ net'[i].answers = net[i].answers
                                     /\ net'[i].msg = net[i].msg
                                     /\ net'[i].part # "head" <=> net[i].part # "head"
  <1>1. net \in Seq(Chunks) /\ Len(net) \in Nat /\ Len(net) > 0
    BY DEF DataOK
  <1>2. net[1] \in Chunks /\ net[1].part = "tail"
    BY <1>1
  <1> DEFINE x == [net[1] EXCEPT !.part = "scrap"]
  <1>3. x \in Chunks /\ x.part = "scrap" /\ x.answers = net[1].answers /\ x.msg = net[1].msg
    BY <1>2 DEF Chunks
  <1>4. net' = [net EXCEPT ![1] = x]
    OBVIOUS
  <1> HIDE DEF x
  <1>5. QED BY <1>1, <1>2, <1>3, <1>4

\* Every step keeps the types of the data.
LEMMA DataStep == TypeOK /\ [Next]_vars => DataOK'
  <1> SUFFICES ASSUME DataOK, [Next]_vars PROVE DataOK'
    BY DEF TypeOK
  <1>1. ASSUME NEW c \in Callers, Connect(c) PROVE DataOK'
    BY <1>1 DEF DataOK, Connect, object, host, history, Pcs, Calls, Results
  <1>2. ASSUME NEW c \in Callers, SendKey(c) PROVE DataOK'
    <2>1. CASE HasWriter
      <3>1. /\ pc' = [pc EXCEPT ![c] = "drain"] /\ call' = [call EXCEPT ![c] = "key"]
            /\ result' = [result EXCEPT ![c] = "none"] /\ sent' = sent + 1
        BY <1>2, <2>1 DEF SendKey
      <3>2. QED BY <1>2, <3>1 DEF DataOK, SendKey, wire, host, Pcs, Calls, Results
    <2>2. CASE ~HasWriter
      <3>1. /\ result' = [result EXCEPT ![c] = "error"]
            /\ pc' = pc /\ call' = call /\ sent' = sent
        BY <1>2, <2>2 DEF SendKey
      <3>2. QED BY <1>2, <3>1 DEF DataOK, SendKey, wire, host, Results
    <2>3. QED BY <2>1, <2>2
  <1>3. ASSUME NEW c \in Callers, Disconnect(c) PROVE DataOK'
    BY <1>3 DEF DataOK, Disconnect, Closed, host, history, Screens, Pcs, Results
  <1>4. ASSUME NEW c \in Callers, TcpUp(c) PROVE DataOK'
    BY <1>4 DEF DataOK, TcpUp, host, Pcs
  <1>5. ASSUME NEW c \in Callers, TcpFails(c) PROVE DataOK'
    BY <1>5, RaiseData DEF DataOK, TcpFails, object, host, history
  <1>6. ASSUME NEW c \in Callers, Negotiated(c) PROVE DataOK'
    BY <1>6, LoopTopData DEF DataOK, CallDataOK, Negotiated, wire, host
  <1>7. ASSUME NEW c \in Callers, Drain(c) PROVE DataOK'
    <2>1. CASE conn \in {"open", "eof"}
      <3>1. CallDataOK'
        <4>1. screen \in Screens /\ answered' \in Nat
          BY <1>7 DEF DataOK, Drain
        <4>2. \E to : LoopTop(c, locked, to, screen, FALSE)
          BY <1>7, <2>1 DEF Drain
        <4>3. QED BY <4>1, <4>2, LoopTopData
      <3>2. QED BY <1>7, <3>1 DEF DataOK, CallDataOK, Drain, wire, host
    <2>2. CASE conn \notin {"open", "eof"}
      <3>1. /\ Raise(c, "oserror") /\ astray' = astray + 1
            /\ screen' = screen /\ sent' = sent /\ credsAt' = credsAt
        BY <1>7, <2>2 DEF Drain
      <3>2. QED BY <1>7, <3>1, RaiseData DEF DataOK, Drain, wire, host
    <2>3. QED BY <2>1, <2>2
  <1>8. ASSUME NEW c \in Callers, Park(c) PROVE DataOK'
    BY <1>8, RaiseData, SMTT(30) DEF DataOK, Park, object, host, Pcs
  <1>9. ASSUME NEW c \in Callers, ReadHead(c) PROVE DataOK'
    <2>1. Head(net) \in Chunks /\ net' \in Seq(Chunks)
      BY <1>9 DEF DataOK, ReadHead
    <2>2. \E n \in Int : buf' = [buf EXCEPT ![c] = n]
      <3> DEFINE n == IF buf[c] = 0 THEN Head(net).id ELSE -1
      <3>1. n \in Int
        BY <2>1 DEF Chunks
      <3>2. buf' = [buf EXCEPT ![c] = n]
        BY <1>9 DEF ReadHead
      <3>3. QED BY <3>1, <3>2
    <2>3. QED BY <1>9, <2>1, <2>2 DEF DataOK, ReadHead, object, host, history
  <1>10. ASSUME NEW c \in Callers, ReadFrame(c) PROVE DataOK'
    <2>1. Head(net) \in Chunks /\ net' \in Seq(Chunks)
      BY <1>10 DEF DataOK, ReadFrame
    <2>2. answered' \in Nat
      BY <1>10, <2>1 DEF DataOK, ReadFrame, Chunks
    <2>3. PICK m \in Messages \cup {Nothing} : \E own : Dispatch(c, m, own)
      BY <1>10, <2>1 DEF ReadFrame, Heard, Chunks
    <2>4. CallDataOK'
      BY <2>2, <2>3, DispatchData
    <2>5. QED BY <1>10, <2>1, <2>2, <2>4 DEF DataOK, CallDataOK, ReadFrame
  <1>10a. ASSUME NEW c \in Callers, Swallow(c) PROVE DataOK'
    <2>1. Head(net) \in Chunks /\ net' \in Seq(Chunks)
      BY <1>10a DEF DataOK, Swallow
    <2>2. answered' \in Nat
      BY <1>10a, <2>1 DEF DataOK, Swallow, Chunks
    <2>3. QED BY <1>10a, <2>1, <2>2 DEF DataOK, Swallow, object, host
  <1>10b. ASSUME NEW c \in Callers, Split(c) PROVE DataOK'
    <2>1. net' \in Seq(Chunks) /\ answered' \in Nat
      BY <1>10b, ScrapProperties DEF DataOK, Split
    <2>2. PICK m \in Messages \cup {Nothing} : \E own : Dispatch(c, m, own)
      BY <1>10b DEF Split
    <2>3. CallDataOK'
      BY <2>1, <2>2, DispatchData
    <2>4. QED BY <1>10b, <2>1, <2>3 DEF DataOK, CallDataOK, Split
  <1>11. ASSUME NEW c \in Callers, DrainReply(c) PROVE DataOK'
    <2>1. CASE conn \in {"open", "eof"}
      <3>1. CallDataOK'
        <4>1. screen \in Screens /\ answered' \in Nat
          BY <1>11 DEF DataOK, DrainReply
        <4>2. \E to : LoopTop(c, locked, to, screen, FALSE)
          BY <1>11, <2>1 DEF DrainReply
        <4>3. QED BY <4>1, <4>2, LoopTopData
      <3>2. QED BY <1>11, <3>1 DEF DataOK, CallDataOK, DrainReply, wire, host
    <2>2. CASE conn \notin {"open", "eof"}
      <3>1. /\ Raise(c, "oserror") /\ astray' = astray + 1
            /\ screen' = screen /\ sent' = sent /\ credsAt' = credsAt
        BY <1>11, <2>2 DEF DrainReply
      <3>2. QED BY <1>11, <3>1, RaiseData DEF DataOK, DrainReply, wire, host
    <2>3. QED BY <2>1, <2>2
  <1>12. ASSUME NEW c \in Callers, Timeout(c) PROVE DataOK'
    <2>1. CallDataOK'
      <3>1. screen \in Screens /\ answered' \in Nat
        BY <1>12 DEF DataOK, Timeout
      <3>2. Leave(c, TRUE, screen, FALSE)
        BY <1>12 DEF Timeout
      <3>3. QED BY <3>1, <3>2, LeaveData
    <2>2. reader' \in Callers \cup {NoCaller} /\ expired' \in Nat
      BY <1>12 DEF DataOK, Timeout
    <2>3. QED BY <1>12, <2>1, <2>2 DEF DataOK, CallDataOK, Timeout, host
  <1>13. ASSUME NEW c \in Callers, ReadFails(c) PROVE DataOK'
    BY <1>13, RaiseData DEF DataOK, ReadFails, object, wire, host
  <1>14. ASSUME NEW c \in Callers, CloseDone(c) PROVE DataOK'
    BY <1>14 DEF DataOK, CloseDone, Closed, host, history, Screens, Pcs, Results
  <1>15. CASE HostSends
    <2>1. PICK m \in Messages, whole \in BOOLEAN :
            /\ net' = Append(net, NewChunk(m, whole))
            /\ rest' = IF whole THEN <<>> ELSE <<[NewChunk(m, whole) EXCEPT !.part = "tail"]>>
            /\ hostAt' = IF Inviting(m) THEN hostAt + 1 ELSE hostAt
      BY <1>15 DEF HostSends
    <2>2. NewChunk(m, whole) \in Chunks
      BY DEF DataOK, NewChunk, Chunks
    <2>3. [NewChunk(m, whole) EXCEPT !.part = "tail"] \in Chunks
      BY <2>2 DEF Chunks
    <2>4. net' \in Seq(Chunks) /\ rest' \in Seq(Chunks) /\ Len(rest') <= 1
      BY <2>1, <2>2, <2>3 DEF DataOK
    <2>5. hostAt' \in Nat
      BY <2>1 DEF DataOK
    <2>6. QED BY <1>15, <2>4, <2>5 DEF DataOK, HostSends, object, callers, history
  <1>16. CASE HostSendsRest
    <2>1. rest[1] \in Chunks
      BY <1>16 DEF DataOK, HostSendsRest
    <2>2. [rest[1] EXCEPT !.part = "whole"] \in Chunks
      BY <2>1 DEF Chunks
    <2>3. CASE Len(net) > 0 /\ net[Len(net)].part = "head"
      <3>1. net' = [net EXCEPT ![Len(net)] = [rest[1] EXCEPT !.part = "whole"]]
        BY <1>16, <2>3 DEF HostSendsRest
      <3>2. net' \in Seq(Chunks)
        BY <2>2, <2>3, <3>1 DEF DataOK
      <3>3. QED BY <1>16, <3>2 DEF DataOK, HostSendsRest, object, callers, host, history
    <2>4. CASE ~(Len(net) > 0 /\ net[Len(net)].part = "head")
      <3>1. net' = Append(net, rest[1])
        BY <1>16, <2>4 DEF HostSendsRest
      <3>2. QED BY <1>16, <2>1, <3>1 DEF DataOK, HostSendsRest, object, callers, host, history
    <2>5. QED BY <2>3, <2>4
  <1>17. CASE PeerEof
    BY <1>17 DEF DataOK, PeerEof, object, callers, host, history
  <1>18. CASE PeerReset
    BY <1>18 DEF DataOK, PeerReset, object, callers, host, history
  <1>19. CASE UNCHANGED vars
    BY <1>19 DEF DataOK, vars, object, callers, wire, host, history
  <1>20. QED
    BY <1>1, <1>2, <1>3, <1>4, <1>5, <1>6, <1>7, <1>8, <1>9, <1>10, <1>11, <1>12,
       <1>13, <1>14, <1>15, <1>10a, <1>10b, <1>16, <1>17, <1>18, <1>19 DEF Next, Progress

\* A session just made has every variable in its type.
LEMMA InitType == Init => TypeOK
  <1>1. Init => FlagsOK
    BY DEF Init, FlagsOK
  <1>2. Init => DataOK
    BY DEF Init, DataOK, Screens, Pcs, Calls, Results
  <1>3. QED BY <1>1, <1>2 DEF TypeOK

\* Every variable has its type in every reachable state of the session.
THEOREM TypeCorrect == Spec => []TypeOK
  <1>1. TypeOK /\ [Next]_vars => TypeOK'
    BY FlagsStep, DataStep DEF TypeOK
  <1>2. QED BY InitType, <1>1, PTL DEF Spec

-----------------------------------------------------------------------------
\* The lag.

\* The chunk, once read to its end, is the answer to a request.
IsAnswer(x) == x.part # "head" /\ x.answers > 0

\* Answers still to be read are newer than those read and arrive in order; so
\* each one read brings answered closer to sent by one at least.
InOrder ==
    /\ \A i \in 1..Len(net) :
          IsAnswer(net[i]) => answered < net[i].answers /\ net[i].answers <= hostAt
    /\ \A i, j \in 1..Len(net) :
          i < j /\ IsAnswer(net[i]) /\ IsAnswer(net[j]) => net[i].answers < net[j].answers
    /\ \A k \in 1..Len(rest) :
          rest[k].answers > 0 =>
             /\ answered < rest[k].answers /\ rest[k].answers <= hostAt
             /\ \A i \in 1..Len(net) : IsAnswer(net[i]) => net[i].answers < rest[k].answers
    /\ answered <= hostAt

\* The number of the request a chunk answers is a natural number.
LEMMA NetAnswers == ASSUME DataOK PROVE \A i \in 1..Len(net) : net[i].answers \in Nat
  <1>1. \A i \in 1..Len(net) : net[i] \in Chunks
    BY DEF DataOK
  <1>2. \A x \in Chunks : x.answers \in Nat
    BY DEF Chunks
  <1>3. QED BY <1>1, <1>2

\* Taking the first chunk off the buffer keeps the order.
LEMMA InOrderTail ==
    ASSUME DataOK, InOrder, net # <<>>, net' = Tail(net), rest' = rest, hostAt' = hostAt,
           answered' = answered \/ (IsAnswer(net[1]) /\ answered' = net[1].answers)
    PROVE  InOrder'
  <1>1. /\ Len(net) \in Nat /\ Len(net) > 0 /\ Len(net') = Len(net) - 1
        /\ \A i \in 1..Len(net') : net'[i] = net[i + 1] /\ i + 1 \in 1..Len(net)
    BY DEF DataOK
  <1>2. 1 \in 1..Len(net)
    BY <1>1
  <1>3. \A i \in 1..Len(net) : net[i].answers \in Nat
    BY NetAnswers
  <1>4. \A i \in 1..Len(net') :
           IsAnswer(net'[i]) => answered' < net'[i].answers /\ net'[i].answers <= hostAt'
    BY <1>1, <1>2, <1>3 DEF DataOK, InOrder
  <1>5. \A i, j \in 1..Len(net') :
           i < j /\ IsAnswer(net'[i]) /\ IsAnswer(net'[j]) => net'[i].answers < net'[j].answers
    BY <1>1 DEF InOrder
  <1>6. \A k \in 1..Len(rest') :
           rest'[k].answers > 0 =>
              /\ answered' < rest'[k].answers /\ rest'[k].answers <= hostAt'
              /\ \A i \in 1..Len(net') : IsAnswer(net'[i]) => net'[i].answers < rest'[k].answers
    BY <1>1, <1>2 DEF InOrder
  <1>7. answered' <= hostAt'
    BY <1>2 DEF InOrder
  <1>8. QED BY <1>4, <1>5, <1>6, <1>7 DEF InOrder

\* So does a new last chunk that is older than no answer, or is none.
LEMMA InOrderAppend ==
    ASSUME DataOK, InOrder, NEW x \in Chunks, net' = Append(net, x), answered' = answered,
           hostAt' \in Nat, hostAt' >= hostAt,
           IsAnswer(x) =>
              /\ answered < x.answers /\ x.answers <= hostAt'
              /\ \A i \in 1..Len(net) : IsAnswer(net[i]) => net[i].answers < x.answers
    PROVE  /\ \A i \in 1..Len(net') :
                 IsAnswer(net'[i]) => answered' < net'[i].answers /\ net'[i].answers <= hostAt'
           /\ \A i, j \in 1..Len(net') :
                 i < j /\ IsAnswer(net'[i]) /\ IsAnswer(net'[j]) => net'[i].answers < net'[j].answers
           /\ answered' <= hostAt'
  <1>1. /\ Len(net) \in Nat /\ Len(net') = Len(net) + 1 /\ net'[Len(net) + 1] = x
        /\ \A i \in 1..Len(net) : net'[i] = net[i]
    BY DEF DataOK
  <1>2. \A i \in 1..Len(net') : i \in 1..Len(net) \/ i = Len(net) + 1
    BY <1>1
  <1>3. \A i \in 1..Len(net) : net[i].answers \in Nat
    BY NetAnswers
  <1>4. \A i \in 1..Len(net') :
           IsAnswer(net'[i]) => answered' < net'[i].answers /\ net'[i].answers <= hostAt'
    BY <1>1, <1>2, <1>3 DEF DataOK, InOrder
  <1>5. ASSUME NEW i \in 1..Len(net'), NEW j \in 1..Len(net'), i < j,
               IsAnswer(net'[i]), IsAnswer(net'[j])
        PROVE  net'[i].answers < net'[j].answers
    <2>1. i \in 1..Len(net)
      BY <1>1, <1>5
    <2>2. CASE j \in 1..Len(net)
      BY <1>1, <1>5, <2>1, <2>2 DEF InOrder
    <2>3. CASE j = Len(net) + 1
      BY <1>1, <1>5, <2>1, <2>3
    <2>4. QED BY <1>2, <2>2, <2>3
  <1>6. answered' <= hostAt'
    BY DEF DataOK, InOrder
  <1>7. QED BY <1>4, <1>5, <1>6

\* Only reading and sending disturb the order.
LEMMA InOrderStep == TypeOK /\ InOrder /\ [Next]_vars => InOrder'
  <1> SUFFICES ASSUME DataOK, InOrder, [Next]_vars PROVE InOrder'
    BY DEF TypeOK
  <1>1. ASSUME net' = net, rest' = rest, answered' = answered, hostAt' = hostAt PROVE InOrder'
    BY <1>1 DEF InOrder
  <1>2. ASSUME net' \in {<<>>, net}, rest' = <<>>, answered' = answered, hostAt' = hostAt
        PROVE  InOrder'
    BY <1>2 DEF InOrder
  <1>3. ASSUME NEW c \in Callers, ReadHead(c) PROVE InOrder'
    BY <1>3, InOrderTail DEF ReadHead, host, history
  <1>4. ASSUME NEW c \in Callers, ReadFrame(c) \/ Swallow(c) PROVE InOrder'
    <2>1. /\ net # <<>> /\ net' = Tail(net) /\ rest' = rest /\ hostAt' = hostAt
          /\ net[1].part # "head"
          /\ answered' = IF net[1].answers > answered THEN net[1].answers ELSE answered
      BY <1>4 DEF DataOK, ReadFrame, Swallow, host
    <2>2. answered' = answered \/ (IsAnswer(net[1]) /\ answered' = net[1].answers)
      <3>1. 1 \in 1..Len(net)
        BY <2>1 DEF DataOK
      <3>2. net[1].answers \in Nat
        BY <3>1, NetAnswers
      <3>3. QED BY <2>1, <3>2 DEF DataOK, IsAnswer
    <2>3. QED BY <2>1, <2>2, InOrderTail
  <1>4a. ASSUME NEW c \in Callers, Split(c) PROVE InOrder'
    <2>1. /\ net # <<>> /\ Head(net).part = "tail" /\ net' = [net EXCEPT ![1].part = "scrap"]
          /\ rest' = rest /\ hostAt' = hostAt /\ answered' = answered
      BY <1>4a DEF Split
    <2>2. /\ Len(net') = Len(net)
          /\ \A i \in 1..Len(net) : /\ net'[i].answers = net[i].answers
                                    /\ IsAnswer(net'[i]) <=> IsAnswer(net[i])
      BY <2>1, ScrapProperties DEF IsAnswer
    <2>3. QED BY <2>1, <2>2 DEF InOrder
  <1>5. CASE HostSends
    <2>1. PICK m \in Messages, whole \in BOOLEAN :
            /\ net' = Append(net, NewChunk(m, whole))
            /\ rest' = IF whole THEN <<>> ELSE <<[NewChunk(m, whole) EXCEPT !.part = "tail"]>>
            /\ hostAt' = IF Inviting(m) THEN hostAt + 1 ELSE hostAt
      BY <1>5 DEF HostSends
    <2> DEFINE x == NewChunk(m, whole)
    <2>2. x \in Chunks
      BY DEF DataOK, NewChunk, Chunks
    <2>3. /\ hostAt' \in Nat /\ hostAt' >= hostAt
          /\ x.answers > 0 => x.answers = hostAt' /\ hostAt' = hostAt + 1
      BY <2>1 DEF DataOK, NewChunk
    <2>4. answered' = answered
      BY <1>5 DEF HostSends, history
    <2>5. x.answers > 0 =>
            /\ answered < x.answers /\ x.answers <= hostAt'
            /\ \A i \in 1..Len(net) : IsAnswer(net[i]) => net[i].answers < x.answers
      BY <2>3, NetAnswers DEF DataOK, InOrder
    <2> HIDE DEF x
    <2>6. IsAnswer(x) => x.answers > 0
      BY DEF IsAnswer
    <2>7. /\ \A i \in 1..Len(net') :
                IsAnswer(net'[i]) => answered' < net'[i].answers /\ net'[i].answers <= hostAt'
          /\ \A i, j \in 1..Len(net') :
                i < j /\ IsAnswer(net'[i]) /\ IsAnswer(net'[j]) => net'[i].answers < net'[j].answers
          /\ answered' <= hostAt'
      <3>1. net' = Append(net, x)
        BY <2>1 DEF x
      <3>2. QED BY <2>2, <2>3, <2>4, <2>5, <2>6, <3>1, InOrderAppend
    <2>8. CASE whole
      <3>1. Len(rest') = 0
        BY <2>1, <2>8
      <3>2. QED BY <2>7, <3>1 DEF InOrder
    <2>9. CASE ~whole
      <3>1. rest' = <<[x EXCEPT !.part = "tail"]>>
        BY <2>1, <2>9 DEF x
      <3>2. Len(rest') = 1 /\ rest'[1].answers = x.answers
        BY <2>2, <3>1 DEF Chunks
      <3>3. x.part = "head"
        BY <2>9 DEF x, NewChunk
      <3>4. /\ Len(net) \in Nat /\ Len(net') = Len(net) + 1 /\ net'[Len(net) + 1] = x
            /\ \A i \in 1..Len(net) : net'[i] = net[i]
        BY <2>1, <2>2 DEF DataOK, x
      <3>5. \A i \in 1..Len(net') : IsAnswer(net'[i]) => i \in 1..Len(net)
        BY <3>3, <3>4 DEF IsAnswer
      <3>6. QED BY <2>4, <2>5, <2>7, <3>2, <3>4, <3>5 DEF InOrder
    <2>10. QED BY <2>8, <2>9
  <1>6. CASE HostSendsRest
    <2>1. /\ rest # <<>> /\ Len(rest) = 1 /\ rest' = <<>>
          /\ answered' = answered /\ hostAt' = hostAt
      <3>1. rest # <<>> /\ rest' = <<>> /\ answered' = answered /\ hostAt' = hostAt
        BY <1>6 DEF HostSendsRest, host, history
      <3>2. rest \in Seq(Chunks) /\ Len(rest) <= 1
        BY DEF DataOK
      <3>3. Len(rest) = 1
        <4> DEFINE n == Len(rest)
        <4>1. n \in Nat
          BY <3>2, LenProperties
        <4>2. n # 0 /\ n <= 1
          BY <3>1, <3>2, EmptySeq
        <4> HIDE DEF n
        <4>3. n = 1
          BY <4>1, <4>2
        <4>4. QED BY <4>3 DEF n
      <3>4. QED BY <3>1, <3>3
    <2>2. rest[1] \in Chunks /\ rest[1].answers \in Nat
      <3>1. rest[1] \in Chunks
        BY <2>1 DEF DataOK
      <3>2. QED BY <3>1 DEF Chunks
    <2>3. rest[1].answers > 0 =>
            /\ answered < rest[1].answers /\ rest[1].answers <= hostAt
            /\ \A i \in 1..Len(net) : IsAnswer(net[i]) => net[i].answers < rest[1].answers
      BY <2>1 DEF InOrder
    <2>4. CASE Len(net) > 0 /\ net[Len(net)].part = "head"
      <3> DEFINE y == [rest[1] EXCEPT !.part = "whole"]
      <3>1. net' = [net EXCEPT ![Len(net)] = y]
        BY <1>6, <2>4 DEF HostSendsRest
      <3>2. y.answers = rest[1].answers
        BY <2>2 DEF Chunks
      <3> HIDE DEF y
      <3>3. /\ Len(net) \in Nat /\ Len(net') = Len(net) /\ net'[Len(net)] = y
            /\ \A i \in 1..Len(net) : i # Len(net) => net'[i] = net[i]
        BY <2>4, <3>1 DEF DataOK
      <3>4. IsAnswer(y) => rest[1].answers > 0
        BY <3>2 DEF IsAnswer
      <3>5. Len(rest') = 0
        BY <2>1
      <3>6. ASSUME NEW i \in 1..Len(net), IsAnswer(net'[i])
            PROVE  answered < net'[i].answers /\ net'[i].answers <= hostAt
        BY <2>3, <3>2, <3>3, <3>4, <3>6 DEF InOrder
      <3>7. ASSUME NEW i \in 1..Len(net), NEW j \in 1..Len(net), i < j,
                   IsAnswer(net'[i]), IsAnswer(net'[j])
            PROVE  net'[i].answers < net'[j].answers
        <4>1. net'[i] = net[i]
          BY <3>3, <3>7
        <4>2. CASE j = Len(net)
          BY <2>3, <3>2, <3>3, <3>4, <3>7, <4>1, <4>2
        <4>3. CASE j # Len(net)
          BY <3>3, <3>7, <4>1, <4>3 DEF InOrder
        <4>4. QED BY <4>2, <4>3
      <3>8. QED BY <2>1, <3>3, <3>5, <3>6, <3>7 DEF InOrder
    <2>5. CASE ~(Len(net) > 0 /\ net[Len(net)].part = "head")
      <3>1. net' = Append(net, rest[1])
        BY <1>6, <2>5 DEF HostSendsRest
      <3>2. IsAnswer(rest[1]) => rest[1].answers > 0
        BY DEF IsAnswer
      <3>3. hostAt' \in Nat /\ hostAt' >= hostAt /\ Len(rest') = 0
        BY <2>1 DEF DataOK
      <3>4. QED BY <2>1, <2>2, <2>3, <3>1, <3>2, <3>3, InOrderAppend DEF InOrder
    <2>6. QED BY <2>4, <2>5
  <1>7. CASE PeerEof \/ PeerReset
    BY <1>2, <1>7 DEF PeerEof, PeerReset, host, history
  <1>8. ASSUME NEW c \in Callers,
               Connect(c) \/ SendKey(c) \/ Disconnect(c) \/ TcpUp(c) \/ TcpFails(c)
                 \/ Negotiated(c) \/ Drain(c) \/ Park(c) \/ DrainReply(c) \/ Timeout(c)
                 \/ ReadFails(c) \/ CloseDone(c)
        PROVE  InOrder'
    <2>1. net' = net /\ rest' = rest /\ answered' = answered /\ hostAt' = hostAt
      BY <1>8 DEF Connect, SendKey, Disconnect, TcpUp, TcpFails, Negotiated, Drain, Park,
                  DrainReply, Timeout, ReadFails, CloseDone, wire, host, history
    <2>2. QED BY <1>1, <2>1
  <1>9. CASE UNCHANGED vars
    BY <1>1, <1>9 DEF vars, wire, host, history
  <1>10. QED
    BY <1>3, <1>4, <1>4a, <1>5, <1>6, <1>7, <1>8, <1>9 DEF Next, Progress

\* Every invitation on its way is marked as the answer to a request.
Marked ==
    /\ \A i \in 1..Len(net) : Inviting(net[i].msg) => net[i].answers > 0
    /\ \A k \in 1..Len(rest) : Inviting(rest[k].msg) => rest[k].answers > 0

\* The host marks what it sends, and a tail keeps the mark of its head.
LEMMA MarkedStep == TypeOK /\ Marked /\ [Next]_vars => Marked'
  <1> SUFFICES ASSUME DataOK, Marked, [Next]_vars PROVE Marked'
    BY DEF TypeOK
  <1>1. ASSUME net' = net, rest' = rest PROVE Marked'
    BY <1>1 DEF Marked, Inviting
  <1>2. ASSUME net' \in {<<>>, net}, rest' = <<>> PROVE Marked'
    BY <1>2 DEF Marked, Inviting
  <1>3. ASSUME net # <<>>, net' = Tail(net), rest' = rest PROVE Marked'
    <2>1. /\ Len(net) \in Nat /\ Len(net') = Len(net) - 1
          /\ \A i \in 1..Len(net') : net'[i] = net[i + 1] /\ i + 1 \in 1..Len(net)
      BY <1>3 DEF DataOK
    <2>2. QED BY <1>3, <2>1 DEF Marked, Inviting
  <1>4. ASSUME NEW x \in Chunks, Inviting(x.msg) => x.answers > 0, net' = Append(net, x)
        PROVE  \A i \in 1..Len(net') : Inviting(net'[i].msg) => net'[i].answers > 0
    <2>1. /\ Len(net) \in Nat /\ Len(net') = Len(net) + 1 /\ net'[Len(net) + 1] = x
          /\ \A i \in 1..Len(net) : net'[i] = net[i]
      BY <1>4 DEF DataOK
    <2>2. QED BY <1>4, <2>1 DEF Marked, Inviting
  <1>5. CASE HostSends
    <2>1. PICK m \in Messages, whole \in BOOLEAN :
            /\ net' = Append(net, NewChunk(m, whole))
            /\ rest' = IF whole THEN <<>> ELSE <<[NewChunk(m, whole) EXCEPT !.part = "tail"]>>
      BY <1>5 DEF HostSends
    <2> DEFINE x == NewChunk(m, whole)
    <2>2. x \in Chunks /\ x.msg = m /\ (Inviting(m) => x.answers > 0)
      BY DEF DataOK, NewChunk, Chunks
    <2> HIDE DEF x
    <2>3. net' = Append(net, x) /\ rest' = IF whole THEN <<>> ELSE <<[x EXCEPT !.part = "tail"]>>
      BY <2>1 DEF x
    <2>4. \A i \in 1..Len(net') : Inviting(net'[i].msg) => net'[i].answers > 0
      BY <1>4, <2>2, <2>3
    <2>5. \A k \in 1..Len(rest') : rest'[k].msg = m /\ rest'[k].answers = x.answers
      BY <2>2, <2>3 DEF Chunks
    <2>6. QED BY <2>2, <2>4, <2>5 DEF Marked, Inviting
  <1>6. CASE HostSendsRest
    <2>1. rest # <<>> /\ rest' = <<>> /\ Len(rest') = 0
      BY <1>6 DEF HostSendsRest
    <2>2. rest[1] \in Chunks /\ (Inviting(rest[1].msg) => rest[1].answers > 0)
      <3>1. Len(rest) \in Nat /\ Len(rest) # 0
        BY <2>1, LenProperties, EmptySeq DEF DataOK
      <3>2. 1 \in 1..Len(rest)
        BY <3>1
      <3>3. QED BY <3>2 DEF DataOK, Marked
    <2>3. CASE Len(net) > 0 /\ net[Len(net)].part = "head"
      <3> DEFINE y == [rest[1] EXCEPT !.part = "whole"]
      <3>1. net' = [net EXCEPT ![Len(net)] = y]
        BY <1>6, <2>3 DEF HostSendsRest
      <3>2. y.answers = rest[1].answers /\ y.msg = rest[1].msg
        BY <2>2 DEF Chunks
      <3> HIDE DEF y
      <3>3. /\ Len(net') = Len(net) /\ net'[Len(net)] = y
            /\ \A i \in 1..Len(net) : i # Len(net) => net'[i] = net[i]
        BY <2>3, <3>1 DEF DataOK
      <3>4. QED BY <2>1, <2>2, <3>2, <3>3 DEF Marked, Inviting
    <2>4. CASE ~(Len(net) > 0 /\ net[Len(net)].part = "head")
      <3>1. net' = Append(net, rest[1])
        BY <1>6, <2>4 DEF HostSendsRest
      <3>2. QED BY <1>4, <2>1, <2>2, <3>1 DEF Marked
    <2>5. QED BY <2>3, <2>4
  <1>7. CASE PeerEof \/ PeerReset
    BY <1>2, <1>7 DEF PeerEof, PeerReset
  <1>8. ASSUME NEW c \in Callers, ReadHead(c) \/ ReadFrame(c) \/ Swallow(c) PROVE Marked'
    BY <1>3, <1>8 DEF ReadHead, ReadFrame, Swallow
  <1>8a. ASSUME NEW c \in Callers, Split(c) PROVE Marked'
    <2>1. /\ net # <<>> /\ Head(net).part = "tail" /\ net' = [net EXCEPT ![1].part = "scrap"]
          /\ rest' = rest
      BY <1>8a DEF Split
    <2>2. /\ Len(net') = Len(net)
          /\ \A i \in 1..Len(net) : net'[i].answers = net[i].answers /\ net'[i].msg = net[i].msg
      BY <2>1, ScrapProperties
    <2>3. QED BY <2>1, <2>2 DEF Marked, Inviting
  <1>9. ASSUME NEW c \in Callers,
               Connect(c) \/ SendKey(c) \/ Disconnect(c) \/ TcpUp(c) \/ TcpFails(c)
                 \/ Negotiated(c) \/ Drain(c) \/ Park(c) \/ DrainReply(c) \/ Timeout(c)
                 \/ ReadFails(c) \/ CloseDone(c)
        PROVE  Marked'
    <2>1. net' = net /\ rest' = rest
      BY <1>9 DEF Connect, SendKey, Disconnect, TcpUp, TcpFails, Negotiated, Drain, Park,
                  DrainReply, Timeout, ReadFails, CloseDone, wire
    <2>2. QED BY <1>1, <2>1
  <1>10. CASE UNCHANGED vars
    BY <1>1, <1>10 DEF vars, wire
  <1>11. QED
    BY <1>5, <1>6, <1>7, <1>8, <1>8a, <1>9, <1>10 DEF Next, Progress

\* The calls in progress can be counted, and a step of c moves only c.
LEMMA BusyFinite == IsFiniteSet(Busy) /\ Cardinality(Busy) \in Nat
  <1>1. Busy \subseteq Callers
    BY DEF Busy
  <1>2. IsFiniteSet(Busy)
    BY <1>1, CallersFinite, FS_Subset
  <1>3. QED BY <1>2, FS_CardinalityType

\* A caller that goes on stays among the busy ones, one that returns leaves them.
LEMMA BusyMoves ==
    ASSUME DataOK, NEW c \in Callers, NEW p \in Pcs, pc' = [pc EXCEPT ![c] = p]
    PROVE  /\ (pc[c] \in BusyPcs <=> p \in BusyPcs) => Cardinality(Busy') = Cardinality(Busy)
           /\ pc[c] \in BusyPcs /\ p \notin BusyPcs => Cardinality(Busy') = Cardinality(Busy) - 1
           /\ pc[c] \notin BusyPcs /\ p \in BusyPcs => Cardinality(Busy') = Cardinality(Busy) + 1
  <1>1. ASSUME NEW d \in Callers PROVE pc'[d] = IF d = c THEN p ELSE pc[d]
    BY <1>1 DEF DataOK
  <1>2. CASE pc[c] \in BusyPcs <=> p \in BusyPcs
    <2>1. Busy' = Busy
      BY <1>1, <1>2 DEF Busy
    <2>2. QED BY <1>2, <2>1
  <1>3. CASE pc[c] \in BusyPcs /\ p \notin BusyPcs
    <2>1. c \in Busy /\ Busy' = Busy \ {c}
      BY <1>1, <1>3 DEF Busy
    <2>2. QED BY <1>3, <2>1, BusyFinite, FS_RemoveElement
  <1>4. CASE pc[c] \notin BusyPcs /\ p \in BusyPcs
    <2>1. c \notin Busy /\ Busy' = Busy \cup {c}
      BY <1>1, <1>4 DEF Busy
    <2>2. QED BY <1>4, <2>1, BusyFinite, FS_AddElement
  <1>5. QED BY <1>2, <1>3, <1>4

\* What the calls in progress and the calls that went astray leave over.
Slack == astray + Cardinality(Busy) - sent

\* The slack is an integer.
LEMMA SlackType == DataOK => Slack \in Int
  BY BusyFinite DEF DataOK, Slack

\* A call that raises moves from the calls in progress to those gone astray.
LEMMA RaiseSlack ==
    ASSUME DataOK, NEW c \in Callers, pc[c] \in BusyPcs, NEW e, Raise(c, e),
           astray' = astray + 1, sent' = sent
    PROVE  Slack' = Slack
  <1>1. pc' = [pc EXCEPT ![c] = "idle"]
    BY DEF Raise
  <1>2. Cardinality(Busy') = Cardinality(Busy) - 1
    BY <1>1, BusyMoves DEF Pcs, BusyPcs
  <1>3. astray \in Nat /\ sent \in Nat /\ Cardinality(Busy) \in Nat
    BY BusyFinite DEF DataOK
  <1>4. QED BY <1>2, <1>3 DEF Slack

\* A call that leaves the loop uses one up only if it has its own answer.
LEMMA LeaveSlack ==
    ASSUME DataOK, NEW c \in Callers, pc[c] \in BusyPcs,
           NEW to, NEW scr, NEW own, Leave(c, to, scr, own)
    PROVE  /\ Slack' >= Slack - 1
           /\ ~own => Slack' >= Slack
  <1>1. /\ own => astray' = astray
        /\ ~own => astray' = astray + 1
    BY DEF Leave
  <1>2. CASE SignsOn(c, scr) /\ HasWriter
    <2>1. pc' = [pc EXCEPT ![c] = "drain"] /\ sent' = sent + 1
      BY <1>2 DEF Leave
    <2>2. Cardinality(Busy') = Cardinality(Busy)
      BY <2>1, BusyMoves DEF Pcs, BusyPcs
    <2>3. QED BY <1>1, <2>1, <2>2, BusyFinite DEF Slack, DataOK
  <1>3. CASE ~(SignsOn(c, scr) /\ HasWriter)
    <2>1. pc' = [pc EXCEPT ![c] = "idle"] /\ sent' = sent
      BY <1>3 DEF Leave, Raise
    <2>2. Cardinality(Busy') = Cardinality(Busy) - 1
      BY <2>1, BusyMoves DEF Pcs, BusyPcs
    <2>3. QED BY <1>1, <2>1, <2>2, BusyFinite DEF Slack, DataOK
  <1>4. QED BY <1>2, <1>3

\* At the top of the loop only a call with an answer of its own uses slack up.
LEMMA LoopTopSlack ==
    ASSUME DataOK, NEW c \in Callers, pc[c] \in BusyPcs,
           NEW lk, NEW to, NEW scr, NEW own, LoopTop(c, lk, to, scr, own)
    PROVE  /\ Slack' >= Slack - 1
           /\ lk \/ ~own => Slack' >= Slack
  <1>1. CASE lk
    <2>1. pc' = [pc EXCEPT ![c] = "wait"] /\ sent' = sent /\ astray' = astray
      BY <1>1 DEF LoopTop
    <2>2. Cardinality(Busy') = Cardinality(Busy)
      BY <2>1, BusyMoves DEF Pcs, BusyPcs
    <2>3. QED BY <2>1, <2>2, BusyFinite DEF Slack, DataOK
  <1>2. CASE ~lk
    BY <1>2, LeaveSlack DEF LoopTop
  <1>3. QED BY <1>1, <1>2

\* The arithmetic of a step: an answer may cost the slack one, nothing else may.
LEMMA KeepUp ==
    ASSUME NEW s \in Int, NEW a \in Nat, s + a >= 0,
           NEW t \in Int, NEW b \in Nat, t >= s, b >= a
    PROVE  t + b >= 0
  OBVIOUS

\* A step that costs the slack one has read an answer that makes up for it.
LEMMA CatchUp ==
    ASSUME NEW s \in Int, NEW a \in Nat, s + a >= 0,
           NEW t \in Int, NEW b \in Nat, t >= s - 1, b >= a + 1
    PROVE  t + b >= 0
  OBVIOUS

\* No step lets the answers fall further behind than the calls account for.
LEMMA LagStep == TypeOK /\ InOrder /\ Marked /\ LagBounded /\ [Next]_vars => LagBounded'
  <1> SUFFICES ASSUME DataOK, DataOK', InOrder, Marked, LagBounded, [Next]_vars PROVE LagBounded'
    BY DataStep DEF TypeOK
  <1>1. Slack \in Int /\ answered \in Nat /\ Slack + answered >= 0
    <2>1. Cardinality(Busy) \in Nat
      BY BusyFinite
    <2>2. sent \in Nat /\ answered \in Nat /\ astray \in Nat
      BY DEF DataOK
    <2>3. QED BY <2>1, <2>2 DEF LagBounded, Slack
  <1>2. ASSUME Slack' + answered' >= 0 PROVE LagBounded'
    <2>1. Cardinality(Busy') \in Nat
      <3>1. Busy' \subseteq Callers
        BY DEF Busy
      <3>2. QED BY <3>1, CallersFinite, FS_Subset, FS_CardinalityType
    <2>2. sent' \in Nat /\ answered' \in Nat /\ astray' \in Nat
      BY DEF DataOK
    <2>3. QED BY <1>2, <2>1, <2>2 DEF LagBounded, Slack
  <1>3. Slack' \in Int /\ answered' \in Nat
    <2>1. Cardinality(Busy') \in Nat
      <3>1. Busy' \subseteq Callers
        BY DEF Busy
      <3>2. QED BY <3>1, CallersFinite, FS_Subset, FS_CardinalityType
    <2>2. QED BY <2>1 DEF DataOK, Slack
  <1>4. ASSUME Slack' >= Slack, answered' = answered PROVE LagBounded'
    <2>1. Slack' + answered' >= 0
      <3>1. answered' >= answered
        BY <1>1, <1>4
      <3>2. QED BY <1>1, <1>3, <1>4, <3>1, KeepUp
    <2>2. QED BY <1>2, <2>1
  <1>5. ASSUME pc' = pc, astray' = astray, sent' = sent, answered' = answered PROVE LagBounded'
    BY <1>5 DEF LagBounded, Busy
  <1>6. ASSUME NEW c \in Callers, NEW p \in Pcs, pc' = [pc EXCEPT ![c] = p],
               pc[c] \in BusyPcs <=> p \in BusyPcs,
               astray' = astray, sent' = sent, answered' = answered
        PROVE  LagBounded'
    <2>1. Cardinality(Busy') = Cardinality(Busy)
      BY <1>6, BusyMoves
    <2>2. QED BY <1>6, <2>1 DEF LagBounded
  <1>7. ASSUME NEW c \in Callers, NEW p \in BusyPcs, pc' = [pc EXCEPT ![c] = p],
               pc[c] \notin BusyPcs, astray' = astray, sent' = sent + 1, answered' = answered
        PROVE  LagBounded'
    <2>1. p \in Pcs
      BY DEF BusyPcs, Pcs
    <2>2. Cardinality(Busy') = Cardinality(Busy) + 1
      BY <1>7, <2>1, BusyMoves
    <2>3. Cardinality(Busy) \in Nat
      BY BusyFinite
    <2>4. QED BY <1>7, <2>2, <2>3 DEF LagBounded, DataOK
  <1>8. ASSUME NEW c \in Callers, Connect(c) PROVE LagBounded'
    BY <1>8, <1>6 DEF Connect, history, Pcs, BusyPcs
  <1>9. ASSUME NEW c \in Callers, TcpUp(c) PROVE LagBounded'
    BY <1>9, <1>7 DEF TcpUp, BusyPcs
  <1>10. ASSUME NEW c \in Callers, TcpFails(c) PROVE LagBounded'
    BY <1>10, <1>6 DEF TcpFails, Raise, history, Pcs, BusyPcs
  <1>11. ASSUME NEW c \in Callers, SendKey(c) PROVE LagBounded'
    <2>1. CASE HasWriter
      BY <1>11, <2>1, <1>7 DEF SendKey, BusyPcs
    <2>2. CASE ~HasWriter
      BY <1>11, <2>2, <1>5 DEF SendKey
    <2>3. QED BY <2>1, <2>2
  <1>12. ASSUME NEW c \in Callers, Disconnect(c) PROVE LagBounded'
    <2>1. astray' = astray /\ sent' = sent /\ answered' = answered
      BY <1>12 DEF Disconnect, history
    <2>2. \E p \in {"idle", "closing"} : pc' = [pc EXCEPT ![c] = p]
      BY <1>12 DEF Disconnect, Closed
    <2>3. pc[c] = "idle"
      BY <1>12 DEF Disconnect
    <2>4. QED BY <1>6, <2>1, <2>2, <2>3 DEF Pcs, BusyPcs
  <1>13. ASSUME NEW c \in Callers, CloseDone(c) PROVE LagBounded'
    BY <1>13, <1>6 DEF CloseDone, Closed, history, Pcs, BusyPcs
  <1>14. ASSUME NEW c \in Callers, Negotiated(c) PROVE LagBounded'
    <2>1. /\ pc[c] \in BusyPcs /\ answered' = answered
          /\ LoopTop(c, locked, FALSE, screen, FALSE)
      BY <1>14 DEF Negotiated, BusyPcs
    <2>2. QED BY <1>4, <2>1, LoopTopSlack
  <1>15. ASSUME NEW c \in Callers, Drain(c) PROVE LagBounded'
    <2>1. pc[c] \in BusyPcs /\ answered' = answered
      BY <1>15 DEF Drain, BusyPcs
    <2>2. CASE conn \in {"open", "eof"}
      <3>1. LoopTop(c, locked, FALSE, screen, FALSE)
        BY <1>15, <2>2 DEF Drain
      <3>2. QED BY <1>4, <2>1, <3>1, LoopTopSlack
    <2>3. CASE conn \notin {"open", "eof"}
      <3>1. Raise(c, "oserror") /\ astray' = astray + 1 /\ sent' = sent
        BY <1>15, <2>3 DEF Drain
      <3>2. QED BY <1>1, <1>4, <2>1, <3>1, RaiseSlack
    <2>4. QED BY <2>2, <2>3
  <1>16. ASSUME NEW c \in Callers, DrainReply(c) PROVE LagBounded'
    <2>1. pc[c] \in BusyPcs /\ answered' = answered
      BY <1>16 DEF DrainReply, BusyPcs
    <2>2. CASE conn \in {"open", "eof"}
      <3>1. LoopTop(c, locked, timedOut, screen, FALSE)
        BY <1>16, <2>2 DEF DrainReply
      <3>2. QED BY <1>4, <2>1, <3>1, LoopTopSlack
    <2>3. CASE conn \notin {"open", "eof"}
      <3>1. Raise(c, "oserror") /\ astray' = astray + 1 /\ sent' = sent
        BY <1>16, <2>3 DEF DrainReply
      <3>2. QED BY <1>1, <1>4, <2>1, <3>1, RaiseSlack
    <2>4. QED BY <2>2, <2>3
  <1>17. ASSUME NEW c \in Callers, Park(c) PROVE LagBounded'
    <2>1. /\ pc[c] \in {"negotiate", "wait", "parked"} /\ pc[c] \in BusyPcs
          /\ answered' = answered /\ sent' = sent
      BY <1>17 DEF Park, Reading, BusyPcs
    <2>2. CASE reader = NoCaller
      <3>1. pc' = [pc EXCEPT ![c] = IF pc[c] = "wait" THEN "parked" ELSE pc[c]] /\ astray' = astray
        BY <1>17, <2>2 DEF Park
      <3>2. (IF pc[c] = "wait" THEN "parked" ELSE pc[c]) \in Pcs \cap BusyPcs
        BY <2>1 DEF Pcs, BusyPcs
      <3>3. QED BY <1>6, <2>1, <3>1, <3>2
    <2>3. CASE reader # NoCaller
      <3>1. Raise(c, "error") /\ astray' = astray + 1
        BY <1>17, <2>3 DEF Park
      <3>2. QED BY <1>1, <1>4, <2>1, <3>1, RaiseSlack
    <2>4. QED BY <2>2, <2>3
  <1>18. ASSUME NEW c \in Callers, ReadFails(c) PROVE LagBounded'
    <2>1. /\ pc[c] \in BusyPcs /\ answered' = answered /\ sent' = sent /\ astray' = astray + 1
          /\ \E e : Raise(c, e)
      BY <1>18 DEF ReadFails, Reading, BusyPcs
    <2>2. QED BY <1>1, <1>4, <2>1, RaiseSlack
  <1>19. ASSUME NEW c \in Callers, Timeout(c) PROVE LagBounded'
    <2>1. pc[c] \in BusyPcs /\ answered' = answered /\ Leave(c, TRUE, screen, FALSE)
      BY <1>19 DEF Timeout, BusyPcs
    <2>2. QED BY <1>4, <2>1, LeaveSlack
  <1>20. ASSUME NEW c \in Callers, ReadFrame(c) PROVE LagBounded'
    <2> DEFINE own == locked /\ Intact(c, Head(net))
    <2>1. /\ pc[c] \in BusyPcs /\ net # <<>> /\ Head(net).part # "head"
          /\ answered' = IF Head(net).answers > answered THEN Head(net).answers ELSE answered
          /\ \E m \in Heard(c, Head(net)) : Dispatch(c, m, own)
      BY <1>20 DEF ReadFrame, Reading, BusyPcs
    <2>2. /\ Head(net) = net[1] /\ 1 \in 1..Len(net)
          /\ net[1].answers \in Nat /\ net[1].msg \in Messages
      <3>1. Head(net) = net[1] /\ 1 \in 1..Len(net) /\ net[1] \in Chunks
        BY <2>1 DEF DataOK
      <3>2. QED BY <3>1 DEF Chunks
    <2>3. answered' >= answered
      BY <2>1, <2>2, <1>1
    <2>4. PICK m \in Heard(c, Head(net)) : Dispatch(c, m, own)
      BY <2>1
    <2>5. ASSUME NEW p \in {"parsing", "reply"}, pc' = [pc EXCEPT ![c] = p],
                 sent' = sent, astray' = astray
          PROVE  LagBounded'
      <3>1. sent' = sent /\ astray' = astray
        BY <2>5
      <3>2. Cardinality(Busy') = Cardinality(Busy)
        BY <2>1, <2>5, BusyMoves DEF Pcs, BusyPcs
      <3>3. Slack' = Slack
        BY <3>1, <3>2 DEF Slack
      <3>4. Slack' >= Slack
        BY <1>1, <3>3
      <3>5. Slack' + answered' >= 0
        BY <1>1, <1>3, <2>3, <3>4, KeepUp
      <3>6. QED BY <1>2, <3>5
    <2>6. CASE ~QueryAfter(m) /\ LoopTop(c, LockAfter(m), timedOut, ScreenAfter(m), own)
      <3>1. LoopTop(c, LockAfter(m), timedOut, ScreenAfter(m), own)
        BY <2>6
      <3>2. /\ Slack' >= Slack - 1
            /\ LockAfter(m) \/ ~own => Slack' >= Slack
        BY <2>1, <3>1, LoopTopSlack
      <3>3. CASE LockAfter(m) \/ ~own
        <4>1. Slack' >= Slack
          BY <3>2, <3>3
        <4>2. Slack' + answered' >= 0
          BY <1>1, <1>3, <2>3, <4>1, KeepUp
        <4>3. QED BY <1>2, <4>2
      <3>4. CASE ~(LockAfter(m) \/ ~own)
        <4>1. m = net[1].msg
          BY <2>2, <2>4, <3>4 DEF Heard
        <4>2. Inviting(net[1].msg)
          BY <2>6, <3>4, <4>1 DEF LockAfter, QueryAfter, Inviting
        <4>3. answered < net[1].answers
          BY <2>1, <2>2, <4>2 DEF InOrder, IsAnswer, Marked
        <4>4. answered' >= answered + 1
          BY <1>1, <2>1, <2>2, <4>3
        <4>5. Slack' + answered' >= 0
          BY <1>1, <1>3, <3>2, <4>4, CatchUp
        <4>6. QED BY <1>2, <4>5
      <3>5. QED BY <3>3, <3>4
    <2>7. QED BY <2>4, <2>5, <2>6, DispatchCases
  <1>20a. ASSUME NEW c \in Callers, Swallow(c) PROVE LagBounded'
    <2>1. /\ pc' = pc /\ sent' = sent /\ astray' = astray /\ net # <<>>
          /\ answered' = IF Head(net).answers > answered THEN Head(net).answers ELSE answered
      BY <1>20a DEF Swallow
    <2>2. Head(net) = net[1] /\ 1 \in 1..Len(net)
      BY <2>1 DEF DataOK
    <2>3. net[1].answers \in Nat
      BY <2>2, NetAnswers
    <2>4. answered' >= answered
      BY <1>1, <2>1, <2>2, <2>3
    <2>5. Slack' = Slack
      BY <2>1 DEF Slack, Busy
    <2>6. Slack' >= Slack
      BY <1>1, <2>5
    <2>7. Slack' + answered' >= 0
      BY <1>1, <1>3, <2>4, <2>6, KeepUp
    <2>8. QED BY <1>2, <2>7
  <1>20b. ASSUME NEW c \in Callers, Split(c) PROVE LagBounded'
    <2>1. pc[c] \in BusyPcs /\ answered' = answered
      BY <1>20b DEF Split, Reading, BusyPcs
    <2>2. PICK m : Dispatch(c, m, FALSE)
      BY <1>20b DEF Split
    <2>3. ASSUME NEW p \in {"parsing", "reply"}, pc' = [pc EXCEPT ![c] = p],
                 sent' = sent, astray' = astray
          PROVE  LagBounded'
      BY <1>6, <2>1, <2>3 DEF Pcs, BusyPcs
    <2>4. CASE LoopTop(c, LockAfter(m), timedOut, ScreenAfter(m), FALSE)
      BY <1>4, <2>1, <2>4, LoopTopSlack
    <2>5. QED BY <2>2, <2>3, <2>4, DispatchCases
  <1>21. ASSUME NEW c \in Callers, ReadHead(c) PROVE LagBounded'
    BY <1>21, <1>5 DEF ReadHead, history
  <1>22. CASE HostSends \/ HostSendsRest \/ PeerEof \/ PeerReset
    BY <1>22, <1>5 DEF HostSends, HostSendsRest, PeerEof, PeerReset, callers, history
  <1>23. CASE UNCHANGED vars
    BY <1>23, <1>5 DEF vars, callers, history
  <1>24. QED
    BY <1>8, <1>9, <1>10, <1>11, <1>12, <1>13, <1>14, <1>15, <1>16, <1>17, <1>18, <1>19,
       <1>20, <1>20a, <1>20b, <1>21, <1>22, <1>23 DEF Next, Progress

\* However many calls overlap, and whatever times out, fails or tears: the
\* screen lags by no more requests than are in progress or ended without an
\* answer of their own.
THEOREM LagTheorem == Spec => []LagBounded
  <1>1. Init => TypeOK
    BY InitType
  <1>2. Init => InOrder
    BY DEF Init, InOrder
  <1>3. Init => LagBounded
    <2>1. Init => sent = 0 /\ answered = 0 /\ astray = 0
      BY DEF Init
    <2>2. QED BY <2>1, BusyFinite DEF LagBounded
  <1>4. Init => Marked
    BY DEF Init, Marked
  <1>5. TypeOK /\ InOrder /\ Marked /\ LagBounded /\ [Next]_vars
          => (TypeOK /\ InOrder /\ Marked /\ LagBounded)'
    BY FlagsStep, DataStep, InOrderStep, MarkedStep, LagStep DEF TypeOK
  <1>6. QED BY <1>1, <1>2, <1>3, <1>4, <1>5, PTL DEF Spec

-----------------------------------------------------------------------------
\* Where a step leaves its caller.

\* Whoever leaves the loop returns, or drains the credentials; with the keyboard
\* locked on a live connection only the latter.
LEMMA LeaveMoves ==
    ASSUME DataOK, NEW c \in Callers, NEW to, NEW scr, NEW own, Leave(c, to, scr, own)
    PROVE  \E p \in {"drain", "idle"} :
              /\ pc' = [pc EXCEPT ![c] = p]
              /\ locked' /\ conn = "open" => p = "drain"
  <1>1. CASE SignsOn(c, scr)
    BY <1>1 DEF Leave, Raise, HasWriter, Writable
  <1>2. CASE ~(SignsOn(c, scr))
    BY <1>2 DEF Leave
  <1>3. QED BY <1>1, <1>2

\* The same at the top of the loop, which may also go on.
LEMMA LoopTopMoves ==
    ASSUME DataOK, NEW c \in Callers, NEW lk, NEW to, NEW scr, NEW own,
           LoopTop(c, lk, to, scr, own)
    PROVE  \E p \in {"wait", "drain", "idle"} :
              /\ pc' = [pc EXCEPT ![c] = p]
              /\ locked' /\ conn = "open" => p # "idle"
  <1>1. CASE lk
    BY <1>1 DEF LoopTop
  <1>2. CASE ~lk
    BY <1>2, LeaveMoves DEF LoopTop
  <1>3. QED BY <1>1, <1>2

\* And after a frame, which may have to be replied to, or never be done with.
LEMMA DispatchMoves ==
    ASSUME DataOK, NEW c \in Callers, NEW m, NEW own, Dispatch(c, m, own)
    PROVE  \E p \in {"parsing", "reply", "wait", "drain", "idle"} :
              /\ pc' = [pc EXCEPT ![c] = p]
              /\ locked' /\ conn = "open" => p # "idle"
  <1>1. CASE LoopTop(c, LockAfter(m), timedOut, ScreenAfter(m), own)
    BY <1>1, LoopTopMoves
  <1>2. QED BY <1>1, DispatchCases

\* The callers' places and the connection fit: one caller at most opens it, none
\* waits for its closing before it is closed, and the StreamReader's sleeper is in
\* the middle of a read.
Places ==
    /\ \A c \in Callers : pc[c] = "tcp" => conn = "connecting"
    /\ \A c, d \in Callers : pc[c] = "tcp" /\ pc[d] = "tcp" => c = d
    /\ \A c \in Callers : pc[c] = "closing" => conn \in {"closing", "closed"}
    /\ reader \in Callers => pc[reader] \in {"negotiate", "parked"}
    /\ conn \in {"none", "connecting"} => ~awaiting

\* A step of c that neither opens nor closes keeps the places.
LEMMA PlacesMove ==
    ASSUME DataOK, Places, NEW c \in Callers, NEW p \in BusyPcs \cup {"idle"},
           pc' = [pc EXCEPT ![c] = p], conn' = conn, awaiting' => awaiting,
           \/ reader' = reader /\ (reader = c => p \in {"negotiate", "parked"})
           \/ reader' = NoCaller
           \/ reader' = c /\ p \in {"negotiate", "parked"}
    PROVE  Places'
  <1>1. ASSUME NEW d \in Callers PROVE pc'[d] = IF d = c THEN p ELSE pc[d]
    BY <1>1 DEF DataOK
  <1>2. p # "tcp" /\ p # "closing"
    BY DEF BusyPcs
  <1>3. \A d \in Callers : pc'[d] \in {"tcp", "closing"} => pc[d] = pc'[d]
    BY <1>1, <1>2
  <1>4. reader' \in Callers => pc'[reader'] \in {"negotiate", "parked"}
    BY <1>1, NoCallerOutside DEF Places
  <1>5. QED BY <1>3, <1>4 DEF Places

\* Every step keeps the places.
LEMMA PlacesStep == TypeOK /\ Places /\ [Next]_vars => Places'
  <1> SUFFICES ASSUME DataOK, Places, [Next]_vars PROVE Places'
    BY DEF TypeOK
  <1>1. ASSUME UNCHANGED <<pc, conn, awaiting>>, reader' \in {reader, NoCaller} PROVE Places'
    BY <1>1, NoCallerOutside DEF Places
  <1>2. ASSUME NEW c \in Callers, Connect(c) PROVE Places'
    <2>1. /\ pc[c] = "idle" /\ conn = "none" /\ pc' = [pc EXCEPT ![c] = "tcp"]
          /\ conn' = "connecting" /\ reader' = reader /\ awaiting' = awaiting
      BY <1>2 DEF Connect, host
    <2>2. \A d \in Callers : pc'[d] = IF d = c THEN "tcp" ELSE pc[d]
      BY <2>1 DEF DataOK
    <2>3. \A d \in Callers : pc[d] # "tcp" /\ pc[d] # "closing"
      BY <2>1 DEF Places
    <2>4. QED BY <2>1, <2>2, <2>3 DEF Places
  <1>3. ASSUME NEW c \in Callers, TcpUp(c) \/ TcpFails(c) PROVE Places'
    <2>1. PICK p \in {"negotiate", "idle"} : pc' = [pc EXCEPT ![c] = p]
      BY <1>3 DEF TcpUp, TcpFails, Raise
    <2>2. /\ pc[c] = "tcp" /\ conn = "connecting" /\ conn' \in {"open", "failed"}
          /\ reader' = reader /\ awaiting' = awaiting
      BY <1>3 DEF TcpUp, TcpFails, host, Places
    <2>3. \A d \in Callers : pc'[d] = IF d = c THEN p ELSE pc[d]
      BY <2>1 DEF DataOK
    <2>4. \A d \in Callers : pc'[d] # "tcp" /\ pc'[d] # "closing"
      BY <2>1, <2>2, <2>3 DEF Places
    <2>5. reader # c
      BY <2>2 DEF Places
    <2>6. QED BY <2>2, <2>3, <2>4, <2>5 DEF Places
  <1>4. ASSUME NEW c \in Callers, Disconnect(c) PROVE Places'
    <2>1. CASE conn \notin {"open", "eof", "closing"}
      <3>1. /\ pc[c] = "idle" /\ pc' = [pc EXCEPT ![c] = "idle"]
            /\ UNCHANGED <<conn, reader, awaiting>>
        BY <1>4, <2>1 DEF Disconnect, Closed, host
      <3>2. reader # c
        BY <3>1 DEF Places
      <3>3. QED BY <3>1, <3>2, PlacesMove
    <2>2. CASE conn \in {"open", "eof", "closing"}
      <3>1. /\ pc' = [pc EXCEPT ![c] = "closing"] /\ conn' = "closing" /\ reader' = NoCaller
            /\ awaiting' = awaiting
        BY <1>4, <2>2 DEF Disconnect, HasWriter, Writable, host
      <3>2. \A d \in Callers : pc[d] # "tcp"
        BY <2>2 DEF Places
      <3>3. \A d \in Callers : pc'[d] = IF d = c THEN "closing" ELSE pc[d]
        BY <3>1 DEF DataOK
      <3>4. QED BY <3>1, <3>2, <3>3, NoCallerOutside DEF Places
    <2>3. QED BY <2>1, <2>2
  <1>5. ASSUME NEW c \in Callers, CloseDone(c) PROVE Places'
    <2>1. /\ pc[c] = "closing" /\ pc' = [pc EXCEPT ![c] = "idle"] /\ conn' = "closed"
          /\ reader' = reader /\ awaiting' = awaiting
      BY <1>5 DEF CloseDone, Closed, host
    <2>2. \A d \in Callers : pc[d] # "tcp"
      BY <2>1 DEF Places
    <2>3. \A d \in Callers : pc'[d] = IF d = c THEN "idle" ELSE pc[d]
      BY <2>1 DEF DataOK
    <2>4. QED BY <2>1, <2>2, <2>3 DEF Places
  <1>6. ASSUME NEW c \in Callers, Negotiated(c) \/ Drain(c) \/ DrainReply(c) PROVE Places'
    <2>1. /\ UNCHANGED wire /\ UNCHANGED host /\ reader # c
      BY <1>6 DEF Negotiated, Drain, DrainReply, Places
    <2>2. \E p \in {"wait", "drain", "idle"} : pc' = [pc EXCEPT ![c] = p]
      BY <1>6, LoopTopMoves DEF Negotiated, Drain, DrainReply, Raise
    <2>3. QED BY <2>1, <2>2, PlacesMove DEF wire, host, BusyPcs
  <1>7. ASSUME NEW c \in Callers, SendKey(c) PROVE Places'
    <2>1. UNCHANGED wire /\ UNCHANGED host /\ reader # c
      BY <1>7 DEF SendKey, Places
    <2>2. pc' = [pc EXCEPT ![c] = "drain"] \/ pc' = pc
      BY <1>7 DEF SendKey
    <2>3. QED BY <1>1, <2>1, <2>2, PlacesMove DEF wire, host, BusyPcs
  <1>8. ASSUME NEW c \in Callers, Park(c) PROVE Places'
    <2>1. UNCHANGED <<conn, awaiting>> /\ reader # c /\ pc[c] \in {"negotiate", "wait", "parked"}
      BY <1>8 DEF Park, Reading, host
    <2>2. CASE reader = NoCaller
      BY <1>8, <2>1, <2>2, PlacesMove DEF Park, BusyPcs
    <2>3. CASE reader # NoCaller
      BY <1>8, <2>1, <2>3, PlacesMove DEF Park, Raise, BusyPcs
    <2>4. QED BY <2>2, <2>3
  <1>9. ASSUME NEW c \in Callers, ReadHead(c) \/ Swallow(c) PROVE Places'
    BY <1>1, <1>9 DEF ReadHead, Swallow, host
  <1>10. ASSUME NEW c \in Callers, ReadFrame(c) \/ Split(c) PROVE Places'
    <2>1. UNCHANGED <<conn, reader>> /\ reader # c
      BY <1>10 DEF ReadFrame, Split, Reading
    <2>2. PICK m, own : Dispatch(c, m, own)
      BY <1>10 DEF ReadFrame, Split
    <2>3. awaiting' => awaiting
      BY <2>2 DEF Dispatch
    <2>4. \E p \in {"parsing", "reply", "wait", "drain", "idle"} :
             pc' = [pc EXCEPT ![c] = p]
      BY <2>2, DispatchMoves
    <2>5. QED BY <2>1, <2>3, <2>4, PlacesMove DEF BusyPcs
  <1>11. ASSUME NEW c \in Callers, Timeout(c) PROVE Places'
    <2>1. /\ UNCHANGED <<conn, awaiting>> /\ Leave(c, TRUE, screen, FALSE)
          /\ reader' = IF reader = c THEN NoCaller ELSE reader
      BY <1>11 DEF Timeout, host
    <2>2. \E p \in {"drain", "idle"} : pc' = [pc EXCEPT ![c] = p]
      BY <2>1, LeaveMoves
    <2>3. QED BY <2>1, <2>2, PlacesMove DEF BusyPcs
  <1>12. ASSUME NEW c \in Callers, ReadFails(c) PROVE Places'
    BY <1>12, PlacesMove DEF ReadFails, Raise, Reading, wire, host, BusyPcs
  <1>13. CASE HostSends
    BY <1>13, NoCallerOutside DEF HostSends, Places, callers
  <1>14. CASE HostSendsRest
    BY <1>14, NoCallerOutside DEF HostSendsRest, Places, callers, host
  <1>15. CASE PeerEof \/ PeerReset
    <2>1. /\ pc' = pc /\ awaiting' = awaiting /\ reader' = NoCaller
          /\ conn \in {"open", "eof"} /\ conn' \in {"eof", "reset"}
      BY <1>15 DEF PeerEof, PeerReset, callers, host
    <2>2. QED BY <2>1, NoCallerOutside DEF Places
  <1>16. CASE UNCHANGED vars
    BY <1>1, <1>16 DEF vars, callers, wire, host
  <1>17. QED
    BY <1>2, <1>3, <1>4, <1>5, <1>6, <1>7, <1>8, <1>9, <1>10, <1>11, <1>12, <1>13, <1>14,
       <1>15, <1>16 DEF Next, Progress

-----------------------------------------------------------------------------
\* Somebody reads.

\* A locked keyboard on a live connection keeps a coroutine at work.
LEMMA ReadsStep == TypeOK /\ Places /\ SomeoneReads /\ [Next]_vars => SomeoneReads'
  <1> SUFFICES ASSUME DataOK, Places, SomeoneReads, [Next]_vars PROVE SomeoneReads'
    BY DEF TypeOK
  <1>1. ASSUME pc' = pc, state' = state, locked' => locked, conn' = "open" => conn = "open"
        PROVE  SomeoneReads'
    BY <1>1 DEF SomeoneReads, Busy
  <1>2. ASSUME NEW c \in Callers, NEW p,
               pc' = [pc EXCEPT ![c] = p], locked' /\ conn' = "open" => p \in BusyPcs
        PROVE  SomeoneReads'
    <2>1. pc'[c] = p
      BY <1>2 DEF DataOK
    <2>2. QED BY <1>2, <2>1 DEF SomeoneReads, Busy
  <1>3. ASSUME NEW c \in Callers, Connect(c) \/ TcpUp(c) \/ TcpFails(c) \/ CloseDone(c)
        PROVE  SomeoneReads'
    BY <1>3 DEF Connect, TcpUp, TcpFails, CloseDone, SomeoneReads
  <1>4. ASSUME NEW c \in Callers, SendKey(c) PROVE SomeoneReads'
    <2>1. CASE HasWriter
      BY <1>2, <1>4, <2>1 DEF SendKey, BusyPcs
    <2>2. CASE ~HasWriter
      BY <1>4, <2>2 DEF SendKey, HasWriter, Writable, SomeoneReads, wire
    <2>3. QED BY <2>1, <2>2
  <1>5. ASSUME NEW c \in Callers, Disconnect(c) PROVE SomeoneReads'
    BY <1>5 DEF Disconnect, HasWriter, Writable, SomeoneReads
  <1>6. ASSUME NEW c \in Callers, Negotiated(c) PROVE SomeoneReads'
    <2>1. LoopTop(c, locked, FALSE, screen, FALSE) /\ conn' = conn
      BY <1>6 DEF Negotiated, wire
    <2>2. QED BY <1>2, <2>1, LoopTopMoves DEF BusyPcs
  <1>7. ASSUME NEW c \in Callers, Drain(c) \/ DrainReply(c) PROVE SomeoneReads'
    <2>1. conn' = conn
      BY <1>7 DEF Drain, DrainReply, wire
    <2>2. CASE conn \in {"open", "eof"}
      <3>1. \E to : LoopTop(c, locked, to, screen, FALSE)
        BY <1>7, <2>2 DEF Drain, DrainReply
      <3>2. QED BY <1>2, <2>1, <3>1, LoopTopMoves DEF BusyPcs
    <2>3. CASE conn \notin {"open", "eof"}
      BY <2>1, <2>3 DEF SomeoneReads
    <2>4. QED BY <2>2, <2>3
  <1>8. ASSUME NEW c \in Callers, Park(c) PROVE SomeoneReads'
    <2>1. pc[c] \in {"negotiate", "wait", "parked"} /\ reader # c
      BY <1>8 DEF Park, Reading
    <2>2. CASE reader = NoCaller
      BY <1>2, <1>8, <2>1, <2>2 DEF Park, BusyPcs
    <2>3. CASE reader # NoCaller
      <3>1. reader \in Callers /\ pc' = [pc EXCEPT ![c] = "idle"]
        BY <1>8, <2>3 DEF Park, Raise, DataOK
      <3>2. pc'[reader] = pc[reader] /\ pc[reader] \in {"negotiate", "parked"}
        BY <2>1, <3>1 DEF DataOK, Places
      <3>3. QED BY <3>1, <3>2 DEF SomeoneReads, Busy, BusyPcs
    <2>4. QED BY <2>2, <2>3
  <1>9. ASSUME NEW c \in Callers, ReadHead(c) \/ Swallow(c) PROVE SomeoneReads'
    BY <1>1, <1>9 DEF ReadHead, Swallow, object
  <1>10. ASSUME NEW c \in Callers, ReadFrame(c) \/ Split(c) PROVE SomeoneReads'
    <2>1. PICK m, own : Dispatch(c, m, own)
      BY <1>10 DEF ReadFrame, Split
    <2>2. conn' = conn
      BY <1>10 DEF ReadFrame, Split
    <2>3. QED BY <1>2, <2>1, <2>2, DispatchMoves DEF BusyPcs
  <1>11. ASSUME NEW c \in Callers, Timeout(c) PROVE SomeoneReads'
    <2>1. Leave(c, TRUE, screen, FALSE) /\ conn' = conn
      BY <1>11 DEF Timeout
    <2>2. QED BY <1>2, <2>1, LeaveMoves DEF BusyPcs
  <1>12. ASSUME NEW c \in Callers, ReadFails(c) PROVE SomeoneReads'
    BY <1>12 DEF ReadFails, SomeoneReads, wire
  <1>13. CASE HostSends \/ HostSendsRest \/ PeerEof \/ PeerReset
    BY <1>1, <1>13 DEF HostSends, HostSendsRest, PeerEof, PeerReset, object, callers
  <1>14. CASE UNCHANGED vars
    BY <1>1, <1>14 DEF vars, object, callers, wire
  <1>15. QED
    BY <1>3, <1>4, <1>5, <1>6, <1>7, <1>8, <1>9, <1>10, <1>11, <1>12, <1>13, <1>14
       DEF Next, Progress

\* However many calls overlap and however they end: a locked keyboard on a live
\* connection has a coroutine at work that will unlock it.
THEOREM ReadsTheorem == Spec => []SomeoneReads
  <1>1. Init => Places /\ SomeoneReads
    BY NoCallerOutside DEF Init, Places, SomeoneReads
  <1>2. TypeOK /\ Places /\ SomeoneReads /\ [Next]_vars => (TypeOK /\ Places /\ SomeoneReads)'
    BY FlagsStep, DataStep, PlacesStep, ReadsStep DEF TypeOK
  <1>3. QED BY InitType, <1>1, <1>2, PTL DEF Spec

-----------------------------------------------------------------------------
\* Host and session do not wait for each other.

\* The query whose reply the host awaits is on its way to its end.
QueryOnItsWay ==
    awaiting /\ conn = "open" /\ ~tore =>
        \/ rest # <<>> /\ rest[1].msg.query /\ rest[1].part # "head"
        \/ rest = <<>> /\ net # <<>> /\ net[Len(net)].msg.query /\ net[Len(net)].part # "head"

\* Taking a chunk off the buffer leaves the last one where it is.
LEMMA LastOfTail ==
    ASSUME DataOK, net # <<>>, Len(net) # 1
    PROVE  Tail(net) # <<>> /\ Tail(net)[Len(Tail(net))] = net[Len(net)]
  <1> DEFINE n == Len(net)
             t == Tail(net)
  <1>1. net \in Seq(Chunks)
    BY DEF DataOK
  <1>2. n \in Nat /\ n # 0
    BY <1>1, LenProperties, EmptySeq
  <1>3. t \in Seq(Chunks) /\ Len(t) = n - 1 /\ \A i \in 1..Len(t) : t[i] = net[i + 1]
    BY <1>1, HeadTailProperties
  <1> HIDE DEF n, t
  <1>4. n - 1 \in 1..Len(t) /\ (n - 1) + 1 = n
    BY <1>2, <1>3 DEF n
  <1>5. t # <<>> /\ t[Len(t)] = net[n]
    BY <1>3, <1>4
  <1>6. QED BY <1>5 DEF n, t

\* Only the end of the query takes it off the wire, and that is answered unless the
\* frame goes on to block the event loop.
LEMMA QueryStep ==
    TypeOK /\ Places /\ (QueryOnItsWay \/ Blocked) /\ [Next]_vars
      => (QueryOnItsWay \/ Blocked)'
  <1>0. Blocked /\ [Next]_vars => Blocked'
    BY DEF Next, Blocked, vars, callers
  <1> SUFFICES ASSUME DataOK, Places, QueryOnItsWay, [Next]_vars, ~Blocked' PROVE QueryOnItsWay'
    BY <1>0 DEF TypeOK
  <1>1. ASSUME UNCHANGED <<net, rest, tore>>, awaiting' => awaiting, conn' = "open" => conn = "open"
        PROVE  QueryOnItsWay'
    BY <1>1 DEF QueryOnItsWay
  <1>2. ASSUME NEW c \in Callers, TcpUp(c) PROVE QueryOnItsWay'
    BY <1>2 DEF TcpUp, QueryOnItsWay, Places, host
  <1>3. ASSUME NEW c \in Callers, ReadHead(c) PROVE QueryOnItsWay'
    <2>1. /\ UNCHANGED <<conn, rest, awaiting, tore>> /\ net # <<>> /\ net' = Tail(net)
          /\ net[1].part = "head"
      BY <1>3 DEF ReadHead, host, history, DataOK
    <2>2. CASE Len(net) = 1
      BY <2>1, <2>2 DEF QueryOnItsWay
    <2>3. CASE Len(net) # 1
      BY <2>1, <2>3, LastOfTail DEF QueryOnItsWay
    <2>4. QED BY <2>2, <2>3
  <1>4. ASSUME NEW c \in Callers, ReadFrame(c) PROVE QueryOnItsWay'
    <2>1. /\ UNCHANGED <<conn, rest>> /\ net # <<>> /\ net' = Tail(net) /\ net[1] = Head(net)
          /\ tore' = (tore \/ ~Intact(c, Head(net)))
      BY <1>4 DEF ReadFrame, DataOK
    <2>2. PICK m \in Heard(c, Head(net)) : Dispatch(c, m, locked /\ Intact(c, Head(net)))
      BY <1>4 DEF ReadFrame
    <2>3. awaiting' => awaiting
      BY <2>2 DEF Dispatch
    <2>4. CASE Len(net) = 1 /\ Intact(c, Head(net))
      <3>1. m = net[1].msg
        BY <2>1, <2>2, <2>4 DEF Heard
      <3>2. pc' # [pc EXCEPT ![c] = "parsing"]
        BY DEF Blocked, DataOK
      <3>3. m.query /\ conn = "open" => ~awaiting'
        BY <2>2, <3>2, DispatchCases DEF QueryAfter
      <3>4. QED BY <2>1, <2>3, <2>4, <3>1, <3>3 DEF QueryOnItsWay
    <2>5. CASE Len(net) # 1
      BY <2>1, <2>3, <2>5, LastOfTail DEF QueryOnItsWay
    <2>6. CASE ~Intact(c, Head(net))
      BY <2>1, <2>6 DEF QueryOnItsWay
    <2>7. QED BY <2>4, <2>5, <2>6
  <1>5. ASSUME NEW c \in Callers, Swallow(c) \/ Split(c) PROVE QueryOnItsWay'
    BY <1>5 DEF Swallow, Split, QueryOnItsWay
  <1>6. CASE HostSends
    <2>1. PICK m \in Messages, whole \in BOOLEAN :
            /\ net' = Append(net, NewChunk(m, whole))
            /\ rest' = IF whole THEN <<>> ELSE <<[NewChunk(m, whole) EXCEPT !.part = "tail"]>>
            /\ awaiting' = m.query
      BY <1>6 DEF HostSends
    <2> DEFINE x == NewChunk(m, whole)
    <2>2. x \in Chunks /\ x.msg = m /\ (whole => x.part = "whole")
      BY DEF DataOK, NewChunk, Chunks
    <2> HIDE DEF x
    <2>3. net' = Append(net, x) /\ rest' = IF whole THEN <<>> ELSE <<[x EXCEPT !.part = "tail"]>>
      BY <2>1 DEF x
    <2>4. net' # <<>> /\ net'[Len(net')] = x
      BY <2>2, <2>3 DEF DataOK
    <2>5. CASE whole
      BY <2>1, <2>2, <2>4, <2>5 DEF QueryOnItsWay
    <2>6. CASE ~whole
      <3>1. rest' # <<>> /\ rest'[1].msg = m /\ rest'[1].part # "head"
        BY <2>2, <2>3, <2>6 DEF Chunks
      <3>2. QED BY <2>1, <3>1 DEF QueryOnItsWay
    <2>7. QED BY <2>5, <2>6
  <1>7. CASE HostSendsRest
    <2>1. /\ rest # <<>> /\ rest \in Seq(Chunks) /\ rest[1] \in Chunks
          /\ rest' = <<>> /\ UNCHANGED <<conn, awaiting, tore>>
      BY <1>7 DEF HostSendsRest, DataOK, host, history
    <2>2. CASE Len(net) > 0 /\ net[Len(net)].part = "head"
      <3> DEFINE y == [rest[1] EXCEPT !.part = "whole"]
      <3>1. net' = [net EXCEPT ![Len(net)] = y]
        BY <1>7, <2>2 DEF HostSendsRest
      <3>2. y.msg = rest[1].msg /\ y.part = "whole"
        BY <2>1 DEF Chunks
      <3> HIDE DEF y
      <3>3. net' # <<>> /\ net'[Len(net')] = y
        BY <2>2, <3>1 DEF DataOK
      <3>4. QED BY <2>1, <2>2, <3>2, <3>3 DEF QueryOnItsWay
    <2>3. CASE ~(Len(net) > 0 /\ net[Len(net)].part = "head")
      <3>1. net' = Append(net, rest[1])
        BY <1>7, <2>3 DEF HostSendsRest
      <3>2. net' # <<>> /\ net'[Len(net')] = rest[1]
        BY <2>1, <3>1 DEF DataOK
      <3>3. QED BY <2>1, <3>2 DEF QueryOnItsWay
    <2>4. QED BY <2>2, <2>3
  <1>8. CASE PeerEof \/ PeerReset
    BY <1>8 DEF PeerEof, PeerReset, QueryOnItsWay
  <1>9. ASSUME NEW c \in Callers,
               Connect(c) \/ SendKey(c) \/ Disconnect(c) \/ TcpFails(c)
                 \/ Negotiated(c) \/ Drain(c) \/ Park(c) \/ DrainReply(c) \/ Timeout(c)
                 \/ ReadFails(c) \/ CloseDone(c)
        PROVE  QueryOnItsWay'
    <2>1. UNCHANGED <<net, rest, tore, awaiting>> /\ (conn' = "open" => conn = "open")
      BY <1>9 DEF Connect, SendKey, Disconnect, TcpFails, Negotiated, Drain, Park,
                  DrainReply, Timeout, ReadFails, CloseDone, wire, host, history
    <2>2. QED BY <1>1, <2>1
  <1>10. CASE UNCHANGED vars
    BY <1>1, <1>10 DEF vars, wire, host, history
  <1>11. QED
    BY <1>2, <1>3, <1>4, <1>5, <1>6, <1>7, <1>8, <1>9, <1>10 DEF Next, Progress

\* Host and session never wait for each other, unless a cancelled read tore the query
\* or the event loop is blocked.
THEOREM NoMutualWaitTheorem == Spec => []NoMutualWait
  <1>1. Init => Places /\ QueryOnItsWay
    BY NoCallerOutside DEF Init, Places, QueryOnItsWay
  <1>2. TypeOK /\ Places /\ (QueryOnItsWay \/ Blocked) /\ [Next]_vars
          => (TypeOK /\ Places /\ (QueryOnItsWay \/ Blocked))'
    BY FlagsStep, DataStep, PlacesStep, QueryStep DEF TypeOK
  <1>3. QueryOnItsWay \/ Blocked => NoMutualWait
    BY DEF QueryOnItsWay, NoMutualWait
  <1>4. QED BY InitType, <1>1, <1>2, <1>3, PTL DEF Spec

-----------------------------------------------------------------------------
\* What a session promises about a key.

\* A call at work has had a connection, now open or lost.
Linked == \A c \in Callers : pc[c] \in BusyPcs => conn \in Writable \cup {"closed"}

\* Every step keeps that.
LEMMA LinkedStep == TypeOK /\ Places /\ Linked /\ [Next]_vars => Linked'
  <1> SUFFICES ASSUME DataOK, Places, Linked, [Next]_vars PROVE Linked'
    BY DEF TypeOK
  <1>1. ASSUME NEW c \in Callers, NEW p, pc' = [pc EXCEPT ![c] = p],
               conn' = conn, pc[c] \in BusyPcs \/ p \notin BusyPcs
        PROVE  Linked'
    BY <1>1 DEF Linked, DataOK
  <1>2. ASSUME pc' = pc, conn' = conn \/ conn' \in Writable PROVE Linked'
    BY <1>2 DEF Linked
  <1>3. ASSUME NEW c \in Callers, Connect(c) PROVE Linked'
    BY <1>3 DEF Connect, Linked, DataOK, Writable, BusyPcs
  <1>4. ASSUME NEW c \in Callers, TcpUp(c) PROVE Linked'
    BY <1>4 DEF TcpUp, Linked, Writable
  <1>5. ASSUME NEW c \in Callers, TcpFails(c) PROVE Linked'
    <2>1. conn = "connecting" /\ pc' = [pc EXCEPT ![c] = "idle"]
      BY <1>5 DEF TcpFails, Raise, Places
    <2>2. QED BY <2>1 DEF Linked, DataOK, Writable, BusyPcs
  <1>6. ASSUME NEW c \in Callers, Negotiated(c) \/ Drain(c) \/ DrainReply(c) PROVE Linked'
    <2>1. conn' = conn /\ pc[c] \in BusyPcs
      BY <1>6 DEF Negotiated, Drain, DrainReply, wire, BusyPcs
    <2>2. \E p : pc' = [pc EXCEPT ![c] = p]
      BY <1>6, LoopTopMoves DEF Negotiated, Drain, DrainReply, Raise
    <2>3. QED BY <1>1, <2>1, <2>2
  <1>7. ASSUME NEW c \in Callers, SendKey(c) PROVE Linked'
    BY <1>7 DEF SendKey, Linked, DataOK, HasWriter, wire
  <1>8. ASSUME NEW c \in Callers, Park(c) \/ ReadFails(c) PROVE Linked'
    <2>1. conn' = conn /\ pc[c] \in BusyPcs
      BY <1>8 DEF Park, ReadFails, Reading, wire, BusyPcs
    <2>2. \E p : pc' = [pc EXCEPT ![c] = p]
      BY <1>8 DEF Park, ReadFails, Raise
    <2>3. QED BY <1>1, <2>1, <2>2
  <1>9. ASSUME NEW c \in Callers, ReadHead(c) \/ Swallow(c) PROVE Linked'
    BY <1>2, <1>9 DEF ReadHead, Swallow
  <1>10. ASSUME NEW c \in Callers, ReadFrame(c) \/ Split(c) PROVE Linked'
    <2>1. conn' = conn /\ pc[c] \in BusyPcs
      BY <1>10 DEF ReadFrame, Split, Reading, BusyPcs
    <2>2. PICK m, own : Dispatch(c, m, own)
      BY <1>10 DEF ReadFrame, Split
    <2>3. \E p : pc' = [pc EXCEPT ![c] = p]
      BY <2>2, DispatchMoves
    <2>4. QED BY <1>1, <2>1, <2>3
  <1>11. ASSUME NEW c \in Callers, Timeout(c) PROVE Linked'
    <2>1. conn' = conn /\ pc[c] \in BusyPcs /\ Leave(c, TRUE, screen, FALSE)
      BY <1>11 DEF Timeout, BusyPcs
    <2>2. QED BY <1>1, <2>1, LeaveMoves
  <1>12. ASSUME NEW c \in Callers, Disconnect(c) PROVE Linked'
    <2>1. CASE conn \in {"open", "eof", "closing"}
      BY <1>12, <2>1 DEF Disconnect, HasWriter, Writable, Linked
    <2>2. CASE conn \notin {"open", "eof", "closing"}
      BY <1>1, <1>12, <2>2 DEF Disconnect, Closed, BusyPcs
    <2>3. QED BY <2>1, <2>2
  <1>13. ASSUME NEW c \in Callers, CloseDone(c) PROVE Linked'
    BY <1>13 DEF CloseDone, Linked
  <1>14. CASE HostSends \/ HostSendsRest \/ PeerEof \/ PeerReset
    BY <1>2, <1>14 DEF HostSends, HostSendsRest, PeerEof, PeerReset, callers, Writable
  <1>15. CASE UNCHANGED vars
    BY <1>2, <1>15 DEF vars, callers, wire
  <1>16. QED
    BY <1>3, <1>4, <1>5, <1>6, <1>7, <1>8, <1>9, <1>10, <1>11, <1>12, <1>13, <1>14, <1>15
       DEF Next, Progress

\* A key that leaves the loop returns a screen, with a warning after a timeout.
LEMMA KeyLeaves ==
    ASSUME DataOK, NEW c \in Callers, call[c] = "key",
           NEW to, NEW scr, NEW own, Leave(c, to, scr, own)
    PROVE  \E r \in {"screen", "timeout"} :
              /\ pc' = [pc EXCEPT ![c] = "idle"]
              /\ result' = [result EXCEPT ![c] = r]
              /\ to => r = "timeout"
  BY DEF Leave, SignsOn

\* At the top of the loop it may also go on.
LEMMA KeyAtLoopTop ==
    ASSUME DataOK, NEW c \in Callers, call[c] = "key",
           NEW lk, NEW to, NEW scr, NEW own, LoopTop(c, lk, to, scr, own)
    PROVE  \/ pc' = [pc EXCEPT ![c] = "wait"]
           \/ \E r \in {"screen", "timeout"} :
                 pc' = [pc EXCEPT ![c] = "idle"] /\ result' = [result EXCEPT ![c] = r]
  <1>1. CASE lk
    BY <1>1 DEF LoopTop
  <1>2. CASE ~lk
    BY <1>2, KeyLeaves DEF LoopTop
  <1>3. QED BY <1>1, <1>2

\* Each step keeps the promise to each caller.
LEMMA PromiseStep ==
    ASSUME TypeOK, Places, Linked, [Next]_vars, NEW d \in Callers,
           call[d] = "key", pc[d] \in BusyPcs \ {"negotiate"}, pc'[d] = "idle"
    PROVE  result'[d] \in KeyOutcomes(conn)
  <1> DataOK
    BY DEF TypeOK
  <1>1. conn \in Writable \cup {"closed"} /\ pc[d] \notin {"idle", "negotiate", "tcp", "closing"}
    BY DEF Linked, BusyPcs
  <1>2. ASSUME NEW c \in Callers, NEW p, pc' = [pc EXCEPT ![c] = p] PROVE c = d /\ p = "idle"
    BY <1>1, <1>2 DEF DataOK
  <1>3. ASSUME NEW r, result' = [result EXCEPT ![d] = r], r \in KeyOutcomes(conn)
        PROVE  result'[d] \in KeyOutcomes(conn)
    BY <1>3 DEF DataOK
  <1>4. conn # "reset" => "error" \in KeyOutcomes(conn)
    BY <1>1 DEF KeyOutcomes, Writable
  <1>5. conn \in {"open", "eof", "closing"} => {"screen", "timeout"} \subseteq KeyOutcomes(conn)
    BY DEF KeyOutcomes
  <1>6. "timeout" \in KeyOutcomes(conn)
    BY <1>1 DEF KeyOutcomes, Writable
  <1>7. conn \notin {"open", "eof"} => "oserror" \in KeyOutcomes(conn)
    BY <1>1 DEF KeyOutcomes, Writable
  <1>8. ASSUME UNCHANGED pc PROVE FALSE
    BY <1>1, <1>8
  <1>9. ASSUME NEW c \in Callers, Connect(c) \/ SendKey(c) \/ TcpUp(c) PROVE FALSE
    <2>1. pc' = pc \/ \E p \in {"tcp", "drain", "negotiate"} : pc' = [pc EXCEPT ![c] = p]
      BY <1>9 DEF Connect, SendKey, TcpUp
    <2>2. QED BY <1>2, <1>8, <2>1
  <1>10. ASSUME NEW c \in Callers,
                TcpFails(c) \/ CloseDone(c) \/ Disconnect(c) \/ Negotiated(c)
         PROVE  FALSE
    <2>1. pc[c] \in {"idle", "tcp", "closing", "negotiate"}
      BY <1>10 DEF TcpFails, CloseDone, Disconnect, Negotiated
    <2>2. \E p : pc' = [pc EXCEPT ![c] = p]
      BY <1>10, LoopTopMoves DEF TcpFails, CloseDone, Disconnect, Negotiated, Closed, Raise
    <2>3. QED BY <1>1, <1>2, <2>1, <2>2
  <1>11. ASSUME NEW c \in Callers, Drain(c) \/ DrainReply(c)
         PROVE  result'[d] \in KeyOutcomes(conn)
    <2>1. c = d
      BY <1>2, <1>11, LoopTopMoves DEF Drain, DrainReply, Raise
    <2>2. CASE conn \in {"open", "eof"}
      <3>1. PICK to : LoopTop(d, locked, to, screen, FALSE)
        BY <1>11, <2>1, <2>2 DEF Drain, DrainReply
      <3>2. QED BY <1>2, <1>3, <1>5, <2>2, <3>1, KeyAtLoopTop
    <2>3. CASE conn \notin {"open", "eof"}
      BY <1>3, <1>7, <1>11, <2>1, <2>3 DEF Drain, DrainReply, Raise
    <2>4. QED BY <2>2, <2>3
  <1>12. ASSUME NEW c \in Callers, Park(c) PROVE result'[d] \in KeyOutcomes(conn)
    <2>1. CASE reader = NoCaller
      <3>1. pc' = [pc EXCEPT ![c] = IF @ = "wait" THEN "parked" ELSE @] /\ pc[c] # "idle"
        BY <1>12, <2>1 DEF Park, Reading
      <3>2. QED BY <1>1, <3>1 DEF DataOK
    <2>2. CASE reader # NoCaller
      BY <1>2, <1>3, <1>4, <1>12, <2>2 DEF Park, Raise
    <2>3. QED BY <2>1, <2>2
  <1>13. ASSUME NEW c \in Callers, ReadHead(c) \/ Swallow(c) PROVE FALSE
    BY <1>8, <1>13 DEF ReadHead, Swallow
  <1>14. ASSUME NEW c \in Callers, ReadFrame(c) \/ Split(c)
         PROVE  result'[d] \in KeyOutcomes(conn)
    <2>1. conn \in {"open", "eof", "closing"}
      BY <1>14 DEF ReadFrame, Split
    <2>2. PICK m, own : Dispatch(c, m, own)
      BY <1>14 DEF ReadFrame, Split
    <2>3. c = d
      BY <1>2, <2>2, DispatchMoves
    <2>4. ASSUME NEW p \in {"parsing", "reply"}, pc' = [pc EXCEPT ![c] = p] PROVE FALSE
      BY <1>2, <2>4
    <2>5. LoopTop(d, LockAfter(m), timedOut, ScreenAfter(m), own)
      BY <2>2, <2>3, <2>4, DispatchCases
    <2>6. QED BY <1>2, <1>3, <1>5, <2>1, <2>5, KeyAtLoopTop
  <1>15. ASSUME NEW c \in Callers, Timeout(c) PROVE result'[d] \in KeyOutcomes(conn)
    <2>1. Leave(c, TRUE, screen, FALSE)
      BY <1>15 DEF Timeout
    <2>2. c = d
      BY <1>2, <2>1, LeaveMoves
    <2>3. QED BY <1>3, <1>6, <2>1, <2>2, KeyLeaves
  <1>16. ASSUME NEW c \in Callers, ReadFails(c) PROVE result'[d] \in KeyOutcomes(conn)
    <2>1. Raise(c, IF conn = "reset" THEN "oserror" ELSE "error")
      BY <1>16 DEF ReadFails
    <2>2. QED BY <1>2, <1>3, <1>4, <1>7, <2>1 DEF Raise
  <1>17. ASSUME HostSends \/ HostSendsRest \/ PeerEof \/ PeerReset PROVE FALSE
    BY <1>8, <1>17 DEF HostSends, HostSendsRest, PeerEof, PeerReset, callers
  <1>18. ASSUME UNCHANGED vars PROVE FALSE
    BY <1>8, <1>18 DEF vars, callers
  <1>19. QED
    BY <1>9, <1>10, <1>11, <1>12, <1>13, <1>14, <1>15, <1>16, <1>17, <1>18 DEF Next, Progress

\* However many calls overlap, a key ends as the server may expect of the state
\* of the connection: what module Server takes for granted.
THEOREM PromiseTheorem == Spec => CallsPromise
  <1>1. Init => Places /\ Linked
    BY NoCallerOutside DEF Init, Places, Linked, BusyPcs
  <1>2. TypeOK /\ Places /\ Linked /\ [Next]_vars => (TypeOK /\ Places /\ Linked)'
    BY FlagsStep, DataStep, PlacesStep, LinkedStep DEF TypeOK
  <1> DEFINE Promise == \A c \in Callers :
          call[c] = "key" /\ pc[c] \in BusyPcs \ {"negotiate"} /\ pc'[c] = "idle" =>
            result'[c] \in KeyOutcomes(conn)
  <1>3. TypeOK /\ Places /\ Linked /\ [Next]_vars => [Promise]_vars
    BY PromiseStep
  <1>4. QED BY InitType, <1>1, <1>2, <1>3, PTL DEF Spec, CallsPromise
=============================================================================
