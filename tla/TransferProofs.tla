---------------------------- MODULE TransferProofs ----------------------------
(***************************************************************************)
(* Theorems about Transfer, for any number of tool calls and any bounds.   *)
(***************************************************************************)
EXTENDS Transfer, TLAPS

-----------------------------------------------------------------------------
\* What the steps are made of.

\* The step moves the call c: to the await p, with the answer a, awaiting the
\* connection k, on the transport t, at attempt n, the first one on f.
Moves(c, p, a, k, t, n, f) ==
    /\ pc' = [pc EXCEPT ![c] = p] /\ answer' = [answer EXCEPT ![c] = a]
    /\ using' = [using EXCEPT ![c] = k] /\ self' = [self EXCEPT ![c] = t]
    /\ tries' = [tries EXCEPT ![c] = n] /\ firstUsing' = [firstUsing EXCEPT ![c] = f]

\* What a call keeps may be written as a change to the same.
LEMMA Kept ==
    ASSUME TypeOK, NEW c \in Callers
    PROVE  /\ using = [using EXCEPT ![c] = using[c]] /\ self = [self EXCEPT ![c] = self[c]]
           /\ tries = [tries EXCEPT ![c] = tries[c]]
           /\ firstUsing = [firstUsing EXCEPT ![c] = firstUsing[c]]
  BY DEF TypeOK, CallsOK

\* A call that answers.
LEMMA AnswerMoves ==
    ASSUME TypeOK, NEW c \in Callers, NEW a, Answer(c, a), UNCHANGED <<self, tries, firstUsing>>
    PROVE  Moves(c, "idle", a, using[c], self[c], tries[c], firstUsing[c])
  BY Kept DEF Answer, Moves

\* One that is suspended.
LEMMA SuspendMoves ==
    ASSUME TypeOK, NEW c \in Callers, NEW at, NEW k, Suspend(c, at, k),
           UNCHANGED <<self, firstUsing>>, NEW n, tries' = [tries EXCEPT ![c] = n]
    PROVE  Moves(c, at, "none", k, self[c], n, firstUsing[c])
  BY Kept DEF Suspend, Moves

\* One that tries a transfer.
LEMMA TryMoves ==
    ASSUME TypeOK, NEW c \in Callers, NEW t, NEW n, NEW sftps, Try(c, t, n, sftps),
           NEW f, f = IF n = 1 THEN sftps[t] ELSE firstUsing[c]
    PROVE  IF sftps[t] = None
           THEN Moves(c, "idle", "nothing", using[c], t, n, f)
           ELSE Moves(c, "put", "none", sftps[t], t, n, f)
  BY Kept DEF Try, Answer, Suspend, Moves

\* One that asks for a listener.
LEMMA ForwardMoves ==
    ASSUME TypeOK, NEW c \in Callers, NEW t, Forward(c, t)
    PROVE  IF link[t] = None
           THEN Moves(c, "idle", "error", using[c], t, tries[c], firstUsing[c])
           ELSE Moves(c, "forward", "none", link[t], t, tries[c], firstUsing[c])
  BY Kept DEF Forward, Answer, Suspend, Moves

\* What a call does with the transport it got: it answers, tries a transfer, or
\* asks for a listener after it has closed the old one.
LEMMA UseMoves ==
    ASSUME TypeOK, NEW c \in Callers, NEW tool, NEW sftps, UseTransport(c, tool, sftps)
    PROVE  \/ /\ UNCHANGED shut
              /\ \E a \in {"error", "nothing"} :
                    /\ a = "nothing" => transport = None
                    /\ Moves(c, "idle", a, using[c], self[c], tries[c], firstUsing[c])
           \/ /\ UNCHANGED shut /\ transport # None /\ sftps[transport] = None
              /\ Moves(c, "idle", "nothing", using[c], transport, 1, None)
           \/ /\ UNCHANGED shut /\ transport # None /\ sftps[transport] # None
              /\ Moves(c, "put", "none", sftps[transport], transport, 1, sftps[transport])
           \/ /\ transport # None /\ shut' = shut \cup ({listener[transport]} \ {None})
              /\ tool = "tunnel" /\ link[transport] = None
              /\ Moves(c, "idle", "error", using[c], transport, tries[c], firstUsing[c])
           \/ /\ transport # None /\ shut' = shut \cup ({listener[transport]} \ {None})
              /\ tool = "tunnel" /\ link[transport] # None
              /\ Moves(c, "forward", "none", link[transport], transport, tries[c], firstUsing[c])
  <1>1. CASE transport = None /\ Answer(c, IF tool = "tunnel" THEN "error" ELSE "nothing")
              /\ UNCHANGED <<self, tries, firstUsing, shut>>
    <2>1. CASE tool = "tunnel"
      BY <1>1, <2>1, AnswerMoves
    <2>2. CASE tool # "tunnel"
      BY <1>1, <2>2, AnswerMoves
    <2>3. QED BY <2>1, <2>2
  <1>2. CASE transport # None /\ Answer(c, "error") /\ UNCHANGED <<self, tries, firstUsing, shut>>
    BY <1>2, AnswerMoves
  <1>3. CASE transport # None /\ Try(c, transport, 1, sftps) /\ UNCHANGED shut
    <2>1. IF sftps[transport] = None
          THEN Moves(c, "idle", "nothing", using[c], transport, 1, sftps[transport])
          ELSE Moves(c, "put", "none", sftps[transport], transport, 1, sftps[transport])
      BY <1>3, TryMoves
    <2>2. QED BY <1>3, <2>1
  <1>4. CASE transport # None /\ tool = "tunnel" /\ Forward(c, transport)
    BY <1>4, ForwardMoves DEF Forward
  <1>5. QED BY <1>1, <1>2, <1>3, <1>4 DEF UseTransport

-----------------------------------------------------------------------------
\* The type invariant.

\* What a step does not disturb, however many connections and transports it adds.
Grown ==
    /\ made' \in Nat /\ made <= made'
    /\ Len(ssh') \in Nat /\ Len(ssh) <= Len(ssh')

\* The types of the calls that a step may move.
MovedOK ==
    /\ pc \in [Callers -> Pcs] /\ answer \in [Callers -> Answers]
    /\ using \in [Callers -> 0..Len(ssh)] /\ self \in [Callers -> 0..made]
    /\ tries \in [Callers -> 0..2] /\ firstUsing \in [Callers -> 0..Len(ssh)]
    /\ Bound

\* A call that moves keeps the types.
LEMMA MovesType ==
    ASSUME TypeOK, Grown, NEW c \in Callers, NEW p \in Pcs, NEW a \in Answers,
           NEW k \in 0..Len(ssh'), NEW t \in 0..made', NEW n \in 0..2, NEW f \in 0..Len(ssh'),
           p # "idle" => t # None,
           p \in {"sftp", "put", "closing", "forward"} => k # None,
           Moves(c, p, a, k, t, n, f)
    PROVE  MovedOK'
  <1>1. made \in Nat /\ Len(ssh) \in Nat
    BY DEF TypeOK, ObjectsOK, made
  <1>2. pc' \in [Callers -> Pcs] /\ answer' \in [Callers -> Answers] /\ tries' \in [Callers -> 0..2]
    BY DEF TypeOK, CallsOK, Moves
  <1>3. using' \in [Callers -> 0..Len(ssh')] /\ firstUsing' \in [Callers -> 0..Len(ssh')]
    BY <1>1, SMTT(30) DEF TypeOK, CallsOK, Moves, Grown
  <1>4. self' \in [Callers -> 0..made']
    BY <1>1 DEF TypeOK, CallsOK, Moves, Grown
  <1>5. Bound'
    <2>1. ASSUME NEW d \in Callers, d # c
          PROVE  pc'[d] = pc[d] /\ self'[d] = self[d] /\ using'[d] = using[d]
      BY <2>1 DEF TypeOK, CallsOK, Moves
    <2>2. pc'[c] = p /\ self'[c] = t /\ using'[c] = k
      BY DEF TypeOK, CallsOK, Moves
    <2>3. QED BY <2>1, <2>2 DEF TypeOK, Bound
  <1>6. QED BY <1>2, <1>3, <1>4, <1>5 DEF MovedOK

\* So does one that answers where it is,
LEMMA AnswerType ==
    ASSUME TypeOK, Grown, NEW c \in Callers, NEW a \in Answers,
           Moves(c, "idle", a, using[c], self[c], tries[c], firstUsing[c])
    PROVE  MovedOK'
  <1>1. /\ using[c] \in 0..Len(ssh') /\ self[c] \in 0..made' /\ tries[c] \in 0..2
        /\ firstUsing[c] \in 0..Len(ssh')
    BY DEF TypeOK, ObjectsOK, CallsOK, Grown, made
  <1>2. "idle" \in Pcs
    BY DEF Pcs
  <1>3. QED BY <1>1, <1>2, MovesType

\* and one that uses a transport.
LEMMA UseType ==
    ASSUME TypeOK, Grown, NEW c \in Callers, NEW tool, NEW sftps \in Seq(0..Len(ssh)), Len(sftps) = made, UseTransport(c, tool, sftps)
    PROVE  MovedOK' /\ shut' \subseteq 1..Len(port)
  <1>1. /\ using[c] \in 0..Len(ssh') /\ self[c] \in 0..made' /\ tries[c] \in 0..2
        /\ firstUsing[c] \in 0..Len(ssh') /\ None \in 0..Len(ssh') /\ transport \in 0..made'
    BY DEF TypeOK, ObjectsOK, CallsOK, Grown, made, None
  <1>2. {"idle", "put", "forward"} \subseteq Pcs /\ {"error", "nothing", "none"} \subseteq Answers
    BY DEF Pcs, Answers
  <1>3. ASSUME transport # None
        PROVE  /\ sftps[transport] \in 0..Len(ssh') /\ link[transport] \in 0..Len(ssh')
               /\ listener[transport] \in 0..Len(port)
    <2>1. /\ transport \in 1..made /\ Len(ssh) \in Nat /\ Len(link) = made
          /\ Len(listener) = made /\ link \in Seq(0..Len(ssh)) /\ listener \in Seq(0..Len(port))
      BY <1>3 DEF TypeOK, ObjectsOK, made, None
    <2>2. /\ sftps[transport] \in 0..Len(ssh) /\ link[transport] \in 0..Len(ssh)
          /\ listener[transport] \in 0..Len(port)
      BY <2>1
    <2>3. QED BY <2>1, <2>2 DEF Grown
  <1>4. shut \subseteq 1..Len(port) /\ Len(port) \in Nat
    BY DEF TypeOK, ObjectsOK
  <1>5. shut' \subseteq 1..Len(port)
    <2>1. UNCHANGED shut \/ (transport # None /\ shut' = shut \cup ({listener[transport]} \ {None}))
      BY UseMoves
    <2>2. transport # None => {listener[transport]} \ {None} \subseteq 1..Len(port)
      BY <1>3, <1>4 DEF None
    <2>3. QED BY <1>4, <2>1, <2>2
  <1>6. MovedOK'
    <2>1. CASE \E a \in {"error", "nothing"} :
                  Moves(c, "idle", a, using[c], self[c], tries[c], firstUsing[c])
      BY <1>2, <2>1, AnswerType
    <2>2. CASE transport # None /\ Moves(c, "idle", "nothing", using[c], transport, 1, None)
      BY <1>1, <1>2, <2>2, MovesType
    <2>3. CASE /\ transport # None /\ sftps[transport] # None
               /\ Moves(c, "put", "none", sftps[transport], transport, 1, sftps[transport])
      BY <1>1, <1>2, <1>3, <2>3, MovesType
    <2>4. CASE transport # None
               /\ Moves(c, "idle", "error", using[c], transport, tries[c], firstUsing[c])
      BY <1>1, <1>2, <2>4, MovesType
    <2>5. CASE /\ transport # None /\ link[transport] # None
               /\ Moves(c, "forward", "none", link[transport], transport, tries[c], firstUsing[c])
      BY <1>1, <1>2, <1>3, <2>5, MovesType
    <2>6. QED BY <2>1, <2>2, <2>3, <2>4, <2>5, UseMoves
  <1>7. QED BY <1>5, <1>6

\* A sequence over a set is one over a larger set.
LEMMA Wider ==
    ASSUME NEW S, NEW T, S \subseteq T, NEW s \in Seq(S)
    PROVE  s \in Seq(T)
  OBVIOUS

\* Every step keeps the types.
LEMMA TypeStep == TypeOK /\ [Next]_vars => TypeOK'
  <1> SUFFICES ASSUME TypeOK, [Next]_vars PROVE TypeOK'
    OBVIOUS
  <1>1. /\ made \in Nat /\ Len(ssh) \in Nat /\ Len(port) \in Nat /\ None = 0
        /\ link \in Seq(0..Len(ssh)) /\ sftp \in Seq(0..Len(ssh)) /\ listener \in Seq(0..Len(port))
        /\ Len(link) = made /\ Len(sftp) = made /\ Len(listener) = made
        /\ transport \in 0..made /\ ssh \in Seq(States) /\ port \in Seq(Connections)
        /\ shut \subseteq 1..Len(port) /\ unstarted \subseteq Connections
        /\ collided \in BOOLEAN /\ op \in [Callers -> Tools \cup {"none"}]
    BY DEF TypeOK, ObjectsOK, CallsOK, made, None
  <1>2. \A c \in Callers :
           /\ using[c] \in 0..Len(ssh) /\ self[c] \in 0..made /\ tries[c] \in 0..2
           /\ firstUsing[c] \in 0..Len(ssh) /\ op[c] \in Tools \cup {"none"}
           /\ pc[c] # "idle" => self[c] \in 1..made
           /\ pc[c] \in {"sftp", "put", "closing", "forward"} => using[c] \in 1..Len(ssh)
    BY <1>1 DEF TypeOK, CallsOK, Bound
  <1>3. /\ {"idle", "ssh", "sftp", "put", "closing", "forward"} \subseteq Pcs
        /\ {"none", "done", "port", "error", "raised", "nothing"} \subseteq Answers
    BY DEF Pcs, Answers
  <1>4. ASSUME MovedOK', ObjectsOK', op' \in [Callers -> Tools \cup {"none"}],
               unstarted' \subseteq Connections', collided' \in BOOLEAN
        PROVE  TypeOK'
    BY <1>4 DEF TypeOK, CallsOK, MovedOK
  <1>5. ASSUME UNCHANGED <<made, ssh>> PROVE Grown /\ Connections' = Connections
    BY <1>1, <1>5 DEF Grown, Connections
  <1>6. ASSUME NEW c \in Callers, NEW tool \in Tools, UseConnected(c, tool) PROVE TypeOK'
    <2>1. /\ UNCHANGED <<objects, ssh, port, unstarted>> /\ collided' \in BOOLEAN
          /\ op' \in [Callers -> Tools \cup {"none"}] /\ UseTransport(c, tool, sftp)
      BY <1>1, <1>6 DEF UseConnected, NoteForward
    <2>2. UNCHANGED <<made, ssh>>
      BY <2>1 DEF objects, made
    <2>3. MovedOK' /\ shut' \subseteq 1..Len(port)
      BY <1>1, <1>5, <2>1, <2>2, UseType
    <2>4. ObjectsOK'
      BY <1>1, <1>5, <2>1, <2>2, <2>3 DEF ObjectsOK, objects
    <2>5. QED BY <1>1, <1>4, <1>5, <2>1, <2>2, <2>3, <2>4
  <1>7. ASSUME NEW c \in Callers, NEW tool \in Tools, MakeTransport(c, tool) PROVE TypeOK'
    <2>1. /\ UNCHANGED <<network, firstUsing, unstarted>> /\ collided' \in BOOLEAN
          /\ op' \in [Callers -> Tools \cup {"none"}] /\ transport' = made + 1
          /\ link' = Append(link, None) /\ sftp' = Append(sftp, None)
          /\ listener' = Append(listener, None)
      BY <1>1, <1>7 DEF MakeTransport, NoteClash
    <2>2. Moves(c, "ssh", "none", None, made + 1, 0, firstUsing[c])
      BY <1>7, Kept DEF MakeTransport, Suspend, Moves
    <2>3. made' = made + 1 /\ Grown /\ Connections' = Connections
      BY <1>1, <2>1 DEF made, Grown, network, Connections
    <2>4. MovedOK'
      <3>1. made + 1 \in 0..made' /\ None \in 0..Len(ssh') /\ firstUsing[c] \in 0..Len(ssh')
        BY <1>1, <1>2, <2>3 DEF Grown
      <3>2. made + 1 # None /\ 0 \in 0..2
        BY <1>1
      <3>3. QED BY <1>3, <2>2, <2>3, <3>1, <3>2, MovesType
    <2>5. /\ link' \in Seq(0..Len(ssh)) /\ sftp' \in Seq(0..Len(ssh))
          /\ listener' \in Seq(0..Len(port))
          /\ Len(sftp') = made' /\ Len(listener') = made' /\ transport' \in 0..made'
      BY <1>1, <2>1, <2>3
    <2>6. ObjectsOK'
      BY <1>1, <2>1, <2>3, <2>5 DEF ObjectsOK, network
    <2>7. QED BY <1>1, <1>4, <2>1, <2>3, <2>4, <2>6
  <1>8. ASSUME NEW c \in Callers, SshUp(c) PROVE TypeOK'
    <2>1. /\ UNCHANGED <<transport, sftp, listener, port, shut, op, self, tries, history>>
          /\ pc[c] = "ssh" /\ ssh' = Append(ssh, "bare")
          /\ link' = [link EXCEPT ![self[c]] = Len(ssh) + 1]
          /\ Suspend(c, "sftp", Len(ssh) + 1)
      BY <1>8 DEF SshUp
    <2>2. Moves(c, "sftp", "none", Len(ssh) + 1, self[c], tries[c], firstUsing[c])
      BY <2>1, Kept, SuspendMoves DEF history
    <2>3. Len(ssh') = Len(ssh) + 1 /\ ssh' \in Seq(States) /\ made' = made
      BY <1>1, <2>1 DEF States, made
    <2>4. Grown /\ Connections \subseteq Connections' /\ 0..Len(ssh) \subseteq 0..Len(ssh')
      BY <1>1, <2>3 DEF Grown, Connections
    <2>5. MovedOK'
      <3>1. /\ Len(ssh) + 1 \in 0..Len(ssh') /\ firstUsing[c] \in 0..Len(ssh')
            /\ self[c] \in 0..made' /\ self[c] # None /\ tries[c] \in 0..2
            /\ Len(ssh) + 1 # None
        BY <1>1, <1>2, <2>1, <2>3
      <3>2. QED BY <1>3, <2>2, <2>4, <3>1, MovesType
    <2>6. /\ sftp' \in Seq(0..Len(ssh')) /\ port' \in Seq(Connections')
          /\ link \in Seq(0..Len(ssh'))
      BY <1>1, <2>1, <2>4, Wider
    <2>7. link' \in Seq(0..Len(ssh'))
      BY <1>1, <1>2, <2>1, <2>3, <2>6
    <2>8. ObjectsOK'
      BY <1>1, <2>1, <2>3, <2>6, <2>7 DEF ObjectsOK
    <2>9. QED BY <1>1, <1>4, <2>1, <2>4, <2>5, <2>8 DEF history
  <1>9. ASSUME NEW c \in Callers, SftpUp(c) PROVE TypeOK'
    <2>1. /\ UNCHANGED <<transport, link, listener, port, op, unstarted>> /\ collided' \in BOOLEAN
          /\ pc[c] = "sftp" /\ ssh' = [ssh EXCEPT ![using[c]] = "open"]
          /\ sftp' = [sftp EXCEPT ![self[c]] = using[c]]
      BY <1>1, <1>9 DEF SftpUp, NoteForward
    <2>2. Len(ssh') = Len(ssh) /\ ssh' \in Seq(States) /\ made' = made
      BY <1>1, <1>2, <2>1 DEF States, made
    <2>3. Grown /\ Connections' = Connections
      BY <1>1, <2>2 DEF Grown, Connections
    <2>4. sftp' \in Seq(0..Len(ssh)) /\ Len(sftp') = made
      BY <1>1, <1>2, <2>1
    <2>5. MovedOK' /\ shut' \subseteq 1..Len(port)
      <3>1. CASE tries[c] = 2
        <4>1. Try(c, self[c], 2, sftp') /\ UNCHANGED shut
          BY <1>9, <3>1 DEF SftpUp
        <4>2. sftp'[self[c]] = using[c] /\ using[c] # None
          BY <1>1, <1>2, <2>1
        <4>3. Moves(c, "put", "none", using[c], self[c], 2, firstUsing[c])
          BY <4>1, <4>2, TryMoves
        <4>4. /\ using[c] \in 0..Len(ssh') /\ firstUsing[c] \in 0..Len(ssh')
              /\ self[c] \in 0..made' /\ self[c] # None /\ 2 \in 0..2
          BY <1>1, <1>2, <2>1, <2>2
        <4>5. MovedOK'
          BY <1>3, <2>3, <4>2, <4>3, <4>4, MovesType
        <4>6. QED BY <1>1, <4>1, <4>5
      <3>2. CASE tries[c] # 2
        <4>1. UseTransport(c, op[c], sftp')
          BY <1>9, <3>2 DEF SftpUp
        <4>2. QED BY <2>3, <2>4, <4>1, UseType
      <3>3. QED BY <3>1, <3>2
    <2>6. ObjectsOK'
      BY <1>1, <2>1, <2>2, <2>3, <2>4, <2>5 DEF ObjectsOK
    <2>7. QED BY <1>1, <1>4, <2>1, <2>3, <2>5, <2>6
  <1>10. ASSUME NEW c \in Callers, ConnectFails(c) PROVE TypeOK'
    <2>1. /\ UNCHANGED <<link, sftp, listener, network, op, self, tries, firstUsing, collided>>
          /\ pc[c] \in {"ssh", "sftp"} /\ transport' \in {transport, None}
          /\ unstarted' = IF pc[c] = "sftp" THEN unstarted \cup {using[c]} ELSE unstarted
          /\ \E a \in {"raised", "error"} : Answer(c, a)
      BY <1>10 DEF ConnectFails
    <2>2. UNCHANGED <<made, ssh>>
      BY <2>1 DEF made, network
    <2>3. MovedOK'
      BY <1>3, <1>5, <2>1, <2>2, AnswerMoves, AnswerType
    <2>4. ObjectsOK'
      BY <1>1, <1>5, <2>1, <2>2 DEF ObjectsOK, network
    <2>5. unstarted' \subseteq Connections'
      BY <1>1, <1>2, <1>5, <2>1, <2>2 DEF Connections
    <2>6. QED BY <1>1, <1>4, <2>1, <2>3, <2>4, <2>5
  <1>11. ASSUME NEW c \in Callers, PutDone(c) \/ PutFails(c) \/ ForwardFails(c) PROVE TypeOK'
    <2>1. /\ UNCHANGED <<objects, network, op, self, tries, history>>
          /\ \E a \in Answers : Answer(c, a)
      BY <1>11 DEF PutDone, PutFails, ForwardFails, Answers
    <2>2. UNCHANGED <<made, ssh>>
      BY <2>1 DEF made, objects, network
    <2>3. MovedOK'
      BY <1>5, <2>1, <2>2, AnswerMoves, AnswerType DEF history
    <2>4. ObjectsOK'
      BY <1>1, <1>5, <2>1, <2>2 DEF ObjectsOK, objects, network
    <2>5. QED BY <1>1, <1>4, <1>5, <2>1, <2>2, <2>3, <2>4 DEF history
  <1>12. ASSUME NEW c \in Callers, Reconnect(c) PROVE TypeOK'
    <2>1. /\ UNCHANGED <<transport, port, op, self, firstUsing, unstarted>> /\ collided' \in BOOLEAN
          /\ pc[c] = "put" /\ Dismantle(self[c]) /\ tries' = [tries EXCEPT ![c] = 2]
      BY <1>1, <1>12 DEF Reconnect, NoteClash
    <2>2. \/ link[self[c]] # None /\ Suspend(c, "closing", link[self[c]]) /\ UNCHANGED link
          \/ Suspend(c, "ssh", None) /\ link' = [link EXCEPT ![self[c]] = None]
      BY <1>12 DEF Reconnect
    <2>3. self[c] \in 1..made /\ link[self[c]] \in 0..Len(ssh) /\ listener[self[c]] \in 0..Len(port)
      BY <1>1, <1>2, <2>1, SMTT(30)
    <2>4. ssh' \in Seq(States) /\ Len(ssh') = Len(ssh)
      <3>1. /\ ssh' = [k \in 1..Len(ssh) |->
                         IF ssh[k] \notin Live THEN ssh[k]
                         ELSE IF k = link[self[c]] THEN "closing"
                         ELSE IF k = sftp[self[c]] THEN "bare" ELSE ssh[k]]
            /\ "closing" \in States /\ "bare" \in States
        BY <2>1 DEF Dismantle, Connections, States
      <3>2. \A k \in 1..Len(ssh) : ssh'[k] \in States
        BY <1>1, <3>1
      <3>3. QED BY <1>1, <3>1, <3>2
    <2>5. link' \in Seq(0..Len(ssh)) /\ made' = made
      <3>1. [link EXCEPT ![self[c]] = None] \in Seq(0..Len(ssh))
            /\ Len([link EXCEPT ![self[c]] = None]) = made
        BY <1>1, <2>3
      <3>2. QED BY <1>1, <2>2, <3>1 DEF made
    <2>6. Grown /\ Connections' = Connections
      BY <1>1, <2>4, <2>5 DEF Grown, Connections
    <2>7. MovedOK'
      <3>1. \/ Moves(c, "closing", "none", link[self[c]], self[c], 2, firstUsing[c])
               /\ link[self[c]] # None
            \/ Moves(c, "ssh", "none", None, self[c], 2, firstUsing[c])
        BY <2>1, <2>2, SuspendMoves
      <3>2. /\ link[self[c]] \in 0..Len(ssh') /\ None \in 0..Len(ssh') /\ 2 \in 0..2
            /\ firstUsing[c] \in 0..Len(ssh') /\ self[c] \in 0..made' /\ self[c] # None
        BY <1>1, <1>2, <2>3, <2>4, <2>5
      <3>3. QED BY <1>3, <2>6, <3>1, <3>2, MovesType
    <2>8. /\ sftp' \in Seq(0..Len(ssh)) /\ Len(sftp') = made
          /\ listener' \in Seq(0..Len(port)) /\ Len(listener') = made
      BY <1>1, <2>1, <2>3 DEF Dismantle
    <2>9. shut' \subseteq 1..Len(port)
      <3>1. {listener[self[c]]} \ {None} \subseteq 1..Len(port)
        BY <1>1, <2>3
      <3>2. QED BY <1>1, <2>1, <3>1 DEF Dismantle
    <2>10. ObjectsOK'
      BY <1>1, <2>1, <2>4, <2>5, <2>6, <2>8, <2>9 DEF ObjectsOK
    <2>11. QED BY <1>1, <1>4, <2>1, <2>6, <2>7, <2>10
  <1>13. ASSUME NEW c \in Callers, ForwardUp(c) PROVE TypeOK'
    <2>1. /\ UNCHANGED <<transport, link, sftp, ssh, shut, op, self, tries, history>>
          /\ pc[c] = "forward" /\ port' = Append(port, using[c])
          /\ listener' = [listener EXCEPT ![self[c]] = Len(port) + 1] /\ Answer(c, "port")
      BY <1>13 DEF ForwardUp
    <2>2. UNCHANGED <<made, ssh>>
      BY <2>1 DEF made
    <2>3. MovedOK'
      BY <1>3, <1>5, <2>1, <2>2, AnswerMoves, AnswerType DEF history
    <2>4. port' \in Seq(Connections) /\ Len(port') = Len(port) + 1
      BY <1>1, <1>2, <2>1 DEF Connections
    <2>5. listener \in Seq(0..Len(port')) /\ 0..Len(port) \subseteq 0..Len(port')
      BY <1>1, <2>4, Wider
    <2>6. listener' \in Seq(0..Len(port')) /\ Len(listener') = made
      BY <1>1, <1>2, <2>1, <2>4, <2>5
    <2>7. ObjectsOK'
      BY <1>1, <1>5, <2>1, <2>2, <2>4, <2>6 DEF ObjectsOK
    <2>8. QED BY <1>1, <1>4, <1>5, <2>1, <2>2, <2>3, <2>7 DEF history
  <1>14. ASSUME NEW k \in Connections, Closed(k) PROVE TypeOK'
    <2> DEFINE Waiting == {c \in Callers : pc[c] = "closing" /\ using[c] = k}
    <2>1. /\ ssh' = [ssh EXCEPT ![k] = "closed"]
          /\ pc' = [c \in Callers |-> IF c \in Waiting THEN "ssh" ELSE pc[c]]
          /\ using' = [c \in Callers |-> IF c \in Waiting THEN None ELSE using[c]]
          /\ link' = [t \in 1..made |-> IF \E c \in Waiting : self[c] = t THEN None ELSE link[t]]
          /\ UNCHANGED <<transport, sftp, listener, port, shut, op, self, tries, answer, history>>
      BY <1>14 DEF Closed, Transports
    <2>2. ssh' \in Seq(States) /\ Len(ssh') = Len(ssh)
      BY <1>1, <2>1 DEF States, Connections
    <2>3. link' \in Seq(0..Len(ssh)) /\ made' = made
      <3>1. \A t \in 1..made : link'[t] \in 0..Len(ssh)
        BY <1>1, <2>1
      <3>2. QED BY <1>1, <2>1, <3>1 DEF made
    <2>4. /\ pc' \in [Callers -> Pcs] /\ using' \in [Callers -> 0..Len(ssh)]
          /\ answer' \in [Callers -> Answers] /\ self' \in [Callers -> 0..made]
          /\ tries' \in [Callers -> 0..2] /\ firstUsing' \in [Callers -> 0..Len(ssh)]
      BY <1>1, <1>3, <2>1 DEF TypeOK, CallsOK, history
    <2>5. Bound'
      BY <2>1 DEF TypeOK, Bound
    <2>6. Connections' = Connections
      BY <2>2 DEF Connections
    <2>7. ObjectsOK'
      BY <1>1, <2>1, <2>2, <2>3, <2>6 DEF ObjectsOK
    <2>8. QED BY <1>1, <1>4, <2>1, <2>2, <2>3, <2>4, <2>5, <2>6, <2>7 DEF MovedOK, history
  <1>15. ASSUME NEW k \in Connections, PeerLost(k) PROVE TypeOK'
    <2>1. /\ UNCHANGED <<objects, port, shut, calls, history>> /\ ssh' = [ssh EXCEPT ![k] = "lost"]
      BY <1>15 DEF PeerLost
    <2>2. ssh' \in Seq(States) /\ Len(ssh') = Len(ssh) /\ made' = made
      BY <1>1, <2>1 DEF States, Connections, objects, made
    <2>3. QED BY <2>1, <2>2 DEF TypeOK, ObjectsOK, CallsOK, Bound, Connections, objects, calls,
                                history
  <1>16. CASE UNCHANGED vars
    BY <1>16 DEF vars, objects, network, calls, history, TypeOK, ObjectsOK, CallsOK, Bound,
                 Connections, made
  <1>17. QED
    BY <1>6, <1>7, <1>8, <1>9, <1>10, <1>11, <1>12, <1>13, <1>14, <1>15, <1>16
    DEF Next, Call, Resume

\* At the start everything has its type.
LEMMA InitOK == Init => TypeOK
  <1> SUFFICES ASSUME Init PROVE TypeOK
    OBVIOUS
  <1>1. made = 0 /\ Len(ssh) = 0 /\ Len(port) = 0
    BY DEF Init, made
  <1>2. ObjectsOK
    BY <1>1 DEF Init, ObjectsOK, Connections, None
  <1>3. /\ pc \in [Callers -> Pcs] /\ op \in [Callers -> Tools \cup {"none"}]
        /\ answer \in [Callers -> Answers] /\ Bound
    BY DEF Init, Bound, Pcs, Answers
  <1>4. /\ self \in [Callers -> 0..made] /\ tries \in [Callers -> 0..2]
        /\ using \in [Callers -> 0..Len(ssh)] /\ firstUsing \in [Callers -> 0..Len(ssh)]
    BY <1>1 DEF Init, None
  <1>5. CallsOK
    BY <1>3, <1>4 DEF Init, CallsOK, Connections
  <1>6. QED BY <1>2, <1>3, <1>5 DEF TypeOK

\* Every variable keeps its type, and a suspended call has what it waits for.
THEOREM TypeTheorem == Spec => []TypeOK
  <1>1. Init => TypeOK
    BY InitOK
  <1>2. TypeOK /\ [Next]_vars => TypeOK'
    BY TypeStep
  <1>3. QED BY <1>1, <1>2, PTL DEF Spec

-----------------------------------------------------------------------------
\* A transfer is repeated on a new connection only.

\* What a call that moves becomes, and that the others stay.
LEMMA MovesAt ==
    ASSUME TypeOK, NEW c \in Callers, NEW p, NEW a, NEW k, NEW t, NEW n, NEW f,
           Moves(c, p, a, k, t, n, f)
    PROVE  /\ pc'[c] = p /\ answer'[c] = a /\ using'[c] = k /\ self'[c] = t /\ tries'[c] = n
           /\ firstUsing'[c] = f
           /\ \A d \in Callers \ {c} :
                 /\ pc'[d] = pc[d] /\ answer'[d] = answer[d] /\ using'[d] = using[d]
                 /\ self'[d] = self[d] /\ tries'[d] = tries[d] /\ firstUsing'[d] = firstUsing[d]
  BY DEF TypeOK, CallsOK, Moves

\* From its second connect() on, the connection of a repeated transfer is newer
\* than the one of its first attempt.
Renewed ==
    \A c \in Callers : pc[c] \in {"sftp", "put"} /\ tries[c] = 2 => using[c] > firstUsing[c]

\* A call that moves to anywhere else, or on a newer connection, keeps it so.
LEMMA RenewedMoves ==
    ASSUME TypeOK, Renewed, NEW c \in Callers, NEW p, NEW a, NEW k, NEW t, NEW n, NEW f,
           Moves(c, p, a, k, t, n, f), p \in {"sftp", "put"} /\ n = 2 => k > f
    PROVE  Renewed'
  BY MovesAt DEF Renewed

\* Every step keeps it so.
LEMMA RenewedStep == TypeOK /\ Renewed /\ [Next]_vars => Renewed'
  <1> SUFFICES ASSUME TypeOK, Renewed, [Next]_vars PROVE Renewed'
    OBVIOUS
  <1>1. ASSUME NEW c \in Callers, NEW a, Answer(c, a), UNCHANGED <<self, tries, firstUsing>>
        PROVE  Renewed'
    BY <1>1, AnswerMoves, RenewedMoves
  <1>2. ASSUME NEW c \in Callers, NEW tool, NEW sftps, UseTransport(c, tool, sftps)
        PROVE  Renewed'
    <2>1. \/ \E a : Moves(c, "idle", a, using[c], self[c], tries[c], firstUsing[c])
          \/ \E a, n, f : Moves(c, "idle", a, using[c], transport, n, f)
          \/ Moves(c, "put", "none", sftps[transport], transport, 1, sftps[transport])
          \/ Moves(c, "forward", "none", link[transport], transport, tries[c], firstUsing[c])
      BY <1>2, UseMoves
    <2>2. QED BY <2>1, RenewedMoves
  <1>3. ASSUME NEW c \in Callers, Call(c) PROVE Renewed'
    <2>1. ASSUME NEW tool \in Tools, UseConnected(c, tool) PROVE Renewed'
      BY <1>2, <2>1 DEF UseConnected
    <2>2. ASSUME NEW tool \in Tools, MakeTransport(c, tool) PROVE Renewed'
      <3>1. Moves(c, "ssh", "none", None, made + 1, 0, firstUsing[c])
        BY <2>2, Kept DEF MakeTransport, Suspend, Moves
      <3>2. QED BY <3>1, RenewedMoves
    <2>3. QED BY <1>3, <2>1, <2>2 DEF Call
  <1>4. ASSUME NEW c \in Callers, SshUp(c) PROVE Renewed'
    <2>1. Moves(c, "sftp", "none", Len(ssh) + 1, self[c], tries[c], firstUsing[c])
      <3>1. Suspend(c, "sftp", Len(ssh) + 1) /\ UNCHANGED <<self, tries, firstUsing>>
        BY <1>4 DEF SshUp, history
      <3>2. QED BY <3>1, Kept, SuspendMoves
    <2>2. Len(ssh) + 1 > firstUsing[c]
      BY DEF TypeOK, ObjectsOK, CallsOK
    <2>3. QED BY <2>1, <2>2, RenewedMoves
  <1>5. ASSUME NEW c \in Callers, SftpUp(c) PROVE Renewed'
    <2>1. CASE tries[c] = 2
      <3>1. Try(c, self[c], 2, sftp') /\ sftp' = [sftp EXCEPT ![self[c]] = using[c]]
            /\ pc[c] = "sftp"
        BY <1>5, <2>1 DEF SftpUp
      <3>2. sftp'[self[c]] = using[c]
        BY <3>1 DEF TypeOK, ObjectsOK, CallsOK, Bound, made, None
      <3>3. using[c] > firstUsing[c]
        BY <2>1, <3>1 DEF Renewed
      <3>4. using[c] # None
        BY <3>1 DEF TypeOK, Bound
      <3>5. Try(c, self[c], 2, sftp')
        BY <3>1
      <3>6. Moves(c, "put", "none", using[c], self[c], 2, firstUsing[c])
        BY <3>2, <3>4, <3>5, TryMoves
      <3>7. QED BY <3>3, <3>6, RenewedMoves
    <2>2. CASE tries[c] # 2
      BY <1>2, <1>5, <2>2 DEF SftpUp
    <2>3. QED BY <2>1, <2>2
  <1>6. ASSUME NEW c \in Callers, Reconnect(c) PROVE Renewed'
    <2>1. /\ \E p \in {"closing", "ssh"} : \E k : Suspend(c, p, k)
          /\ UNCHANGED <<self, firstUsing>> /\ tries' = [tries EXCEPT ![c] = 2]
      BY <1>6 DEF Reconnect
    <2>2. QED BY <2>1, SuspendMoves, RenewedMoves
  <1>7. ASSUME NEW c \in Callers,
               ConnectFails(c) \/ PutDone(c) \/ PutFails(c) \/ ForwardUp(c) \/ ForwardFails(c)
        PROVE  Renewed'
    <2>1. (\E a : Answer(c, a)) /\ UNCHANGED <<self, tries, firstUsing>>
      BY <1>7 DEF ConnectFails, PutDone, PutFails, ForwardUp, ForwardFails, history
    <2>2. QED BY <1>1, <2>1
  <1>8. ASSUME NEW k \in Connections, Closed(k) PROVE Renewed'
    <2>1. /\ UNCHANGED <<tries, firstUsing>>
          /\ \A c \in Callers : \/ pc'[c] = pc[c] /\ using'[c] = using[c]
                                \/ pc'[c] = "ssh"
      BY <1>8 DEF Closed, history
    <2>2. QED BY <2>1 DEF Renewed
  <1>9. CASE UNCHANGED vars \/ \E k \in Connections : PeerLost(k)
    BY <1>9 DEF PeerLost, vars, calls, history, Renewed
  <1>10. QED BY <1>3, <1>4, <1>5, <1>6, <1>7, <1>8, <1>9 DEF Next, Resume

\* However calls interleave, a transfer is repeated only on an SSH connection made
\* since its first attempt.
THEOREM RenewedTheorem == Spec => []RetryIsRenewed
  <1>1. Init => TypeOK /\ Renewed
    BY InitOK DEF Init, Renewed
  <1>2. TypeOK /\ Renewed /\ [Next]_vars => TypeOK' /\ Renewed'
    BY TypeStep, RenewedStep
  <1>3. Renewed => RetryIsRenewed
    BY DEF Renewed, RetryIsRenewed
  <1>4. QED BY <1>1, <1>2, <1>3, PTL DEF Spec

-----------------------------------------------------------------------------
\* Calls that do not clash.

\* Calls in progress work on the current transport.
OnCurrent == \A c \in Callers : pc[c] # "idle" => self[c] = transport

\* A call that connects it, or closes its connection first, is alone.
Connecting == {"ssh", "sftp", "closing"}
Solo ==
    \A c \in Callers : pc[c] \in Connecting =>
        /\ \A d \in Callers : pc[d] # "idle" => d = c
        /\ sftp[transport] = None /\ listener[transport] = None
        /\ link[transport] = IF pc[c] = "ssh" THEN None ELSE using[c]

\* One at most asks for a listener, the one before being closed.
Forwarding ==
    \A c \in Callers : pc[c] = "forward" =>
        /\ \A d \in Callers : pc[d] = "forward" => d = c
        /\ using[c] = link[transport] /\ sftp[transport] # None
        /\ listener[transport] \in shut \cup {None}

Order == OnCurrent /\ Solo /\ Forwarding

\* An SFTP session runs on its transport's connection.
Pairs == \A t \in Transports : sftp[t] # None => sftp[t] = link[t]

\* A live connection is the current transport's, with an SFTP session or about to
\* have one, or has failed to get one.
Held ==
    \A k \in Connections : ssh[k] \in Live /\ k \notin unstarted =>
        /\ transport # None /\ k = link[transport]
        /\ sftp[transport] # None \/ \E c \in Callers : pc[c] = "sftp"

\* An open listener is the current transport's, on its connection.
Listening ==
    \A p \in 1..Len(port) : p \notin shut /\ ssh[port[p]] \in Live =>
        /\ transport # None /\ p = listener[transport]
        /\ port[p] = link[transport] /\ sftp[transport] # None

Stock == Pairs /\ Held /\ Listening

\* Every transfer found what it needs.
Served == \A c \in Callers : answer[c] # "nothing"

Steady == ~collided => Order /\ Stock /\ Served

\* A call that moves on, but not to connect, among others that do not connect.
LEMMA MovesOrder ==
    ASSUME TypeOK, OnCurrent, Served, NEW c \in Callers, NEW p, NEW a, NEW k, NEW t, NEW n, NEW f,
           Moves(c, p, a, k, t, n, f), p \notin Connecting, p # "idle" => t = transport,
           a # "nothing", UNCHANGED transport, \A d \in Callers \ {c} : pc[d] \notin Connecting
    PROVE  OnCurrent' /\ Solo' /\ Served'
  BY MovesAt DEF OnCurrent, Served, Solo

\* One that connects the current transport, alone.
LEMMA ConnectsOrder ==
    ASSUME TypeOK, Served, NEW c \in Callers, NEW p, NEW a, NEW k, NEW t, NEW n, NEW f,
           Moves(c, p, a, k, t, n, f), p \in Connecting, t = transport', a # "nothing",
           \A d \in Callers \ {c} : pc[d] = "idle",
           sftp'[transport'] = None, listener'[transport'] = None,
           link'[transport'] = IF p = "ssh" THEN None ELSE k
    PROVE  Order' /\ Served'
  BY MovesAt DEF Order, OnCurrent, Served, Solo, Forwarding, Connecting

\* One that answers leaves the others in order.
LEMMA EndsOrder ==
    ASSUME TypeOK, Order, Served, NEW c \in Callers, NEW a, NEW k, NEW t, NEW n, NEW f,
           Moves(c, "idle", a, k, t, n, f), a # "nothing", UNCHANGED <<transport, link, sftp, listener, shut>>
    PROVE  Order' /\ Served'
  <1>1. OnCurrent' /\ Served'
    BY MovesAt DEF Order, OnCurrent, Served
  <1>2. Solo'
    BY MovesAt DEF Order, Solo, Connecting
  <1>3. Forwarding'
    BY MovesAt DEF Order, Forwarding
  <1>4. QED BY <1>1, <1>2, <1>3 DEF Order

\* Alone or among transfers, a call uses a transport that is connected.
LEMMA UseOrder ==
    ASSUME TypeOK, OnCurrent, Served, Forwarding, NEW c \in Callers, NEW tool, NEW sftps,
           UseTransport(c, tool, sftps), transport # None, sftps[transport] # None,
           link[transport] # None, sftp' = sftps, UNCHANGED <<transport, link, listener>>,
           \A d \in Callers \ {c} : pc[d] \notin Connecting,
           tool = "tunnel" => \A d \in Callers \ {c} : pc[d] # "forward"
    PROVE  Order' /\ Served' /\ pc'[c] # "sftp" /\ shut \subseteq shut'
           /\ \A d \in Callers \ {c} : pc'[d] = pc[d]
  <1>1. CASE UNCHANGED shut /\ Moves(c, "idle", "error", using[c], self[c], tries[c], firstUsing[c])
    <2>1. OnCurrent' /\ Solo' /\ Served'
      BY <1>1, MovesOrder DEF Connecting
    <2>2. Forwarding'
      BY <1>1, MovesAt DEF Forwarding
    <2>3. QED BY <1>1, <2>1, <2>2, MovesAt DEF Order
  <1>2. CASE UNCHANGED shut
             /\ Moves(c, "put", "none", sftps[transport], transport, 1, sftps[transport])
    <2>1. OnCurrent' /\ Solo' /\ Served'
      BY <1>2, MovesOrder DEF Connecting
    <2>2. Forwarding'
      BY <1>2, MovesAt DEF Forwarding
    <2>3. QED BY <1>2, <2>1, <2>2, MovesAt DEF Order
  <1>3. CASE /\ shut' = shut \cup ({listener[transport]} \ {None}) /\ tool = "tunnel"
             /\ Moves(c, "forward", "none", link[transport], transport, tries[c], firstUsing[c])
    <2>1. OnCurrent' /\ Solo' /\ Served'
      BY <1>3, MovesOrder DEF Connecting
    <2>2. Forwarding'
      BY <1>3, MovesAt DEF Forwarding
    <2>3. QED BY <1>3, <2>1, <2>2, MovesAt DEF Order
  <1>4. QED BY <1>1, <1>2, <1>3, UseMoves

\* Only the one who looks can have clashed.
LEMMA CalmBefore == TypeOK /\ [Next]_vars /\ ~collided' => ~collided
  <1> SUFFICES ASSUME TypeOK, [Next]_vars, ~collided' PROVE ~collided
    OBVIOUS
  <1>1. ASSUME NEW c \in Callers, Call(c) PROVE ~collided
    BY <1>1 DEF Call, UseConnected, MakeTransport, NoteForward, NoteClash
  <1>2. ASSUME NEW c \in Callers, Resume(c) PROVE ~collided
    BY <1>2 DEF Resume, SshUp, SftpUp, ConnectFails, PutDone, PutFails, Reconnect, ForwardUp,
                ForwardFails, NoteForward, NoteClash, history
  <1>3. ASSUME NEW k \in Connections, Closed(k) \/ PeerLost(k) PROVE ~collided
    BY <1>3 DEF Closed, PeerLost, history
  <1>4. CASE UNCHANGED vars
    BY <1>4 DEF vars, history
  <1>5. QED BY <1>1, <1>2, <1>3, <1>4 DEF Next

\* A call that finds the transport connected.
LEMMA UseConnectedSteady ==
    ASSUME TypeOK, Order, Stock, Served, NEW c \in Callers, NEW tool \in Tools,
           UseConnected(c, tool), ~collided'
    PROVE  Order' /\ Stock' /\ Served'
  <1>1. /\ pc[c] = "idle" /\ transport # None /\ sftp[transport] # None /\ link[transport] # None
        /\ UseTransport(c, tool, sftp)
        /\ UNCHANGED <<transport, link, sftp, listener, ssh, port, unstarted>>
    BY DEF UseConnected, IsConnected, objects
  <1>2. tool = "tunnel" => \A d \in Callers : pc[d] # "forward"
    BY DEF UseConnected, NoteForward
  <1>3. \A d \in Callers : pc[d] \notin Connecting
    BY <1>1 DEF Order, Solo
  <1>4. /\ Order' /\ Served' /\ pc'[c] # "sftp" /\ shut \subseteq shut'
        /\ \A d \in Callers \ {c} : pc'[d] = pc[d]
    BY <1>1, <1>2, <1>3, UseOrder DEF Order
  <1>5. Pairs' /\ Held'
    BY <1>1 DEF Stock, Pairs, Held, Transports, made, Connections
  <1>6. Listening'
    BY <1>1, <1>4 DEF Stock, Listening
  <1>7. QED BY <1>4, <1>5, <1>6 DEF Stock

\* One that makes a new transport: the old one was not connected, so that nothing
\* live is left behind.
LEMMA MakeTransportSteady ==
    ASSUME TypeOK, Order, Stock, Served, NEW c \in Callers, NEW tool \in Tools,
           MakeTransport(c, tool), ~collided'
    PROVE  Order' /\ Stock' /\ Served'
  <1>1. /\ pc[c] = "idle" /\ (transport # None => ~IsConnected(transport))
        /\ transport' = made + 1 /\ link' = Append(link, None) /\ sftp' = Append(sftp, None)
        /\ listener' = Append(listener, None) /\ UNCHANGED <<network, firstUsing, unstarted>>
        /\ Moves(c, "ssh", "none", None, made + 1, 0, firstUsing[c])
    BY Kept DEF MakeTransport, Suspend, Moves
  <1>2. \A d \in Callers \ {c} : pc[d] = "idle"
    BY DEF MakeTransport, NoteClash, Suspended
  <1>3. /\ made \in Nat /\ Len(link) = made /\ Len(sftp) = made /\ Len(listener) = made
        /\ link \in Seq(0..Len(ssh)) /\ sftp \in Seq(0..Len(ssh))
        /\ listener \in Seq(0..Len(port)) /\ Len(ssh) \in Nat /\ port \in Seq(Connections)
    BY DEF TypeOK, ObjectsOK, made
  <1>4. /\ link'[made + 1] = None /\ sftp'[made + 1] = None /\ listener'[made + 1] = None
        /\ made' = made + 1
        /\ \A t \in 1..made : link'[t] = link[t] /\ sftp'[t] = sftp[t]
    BY <1>1, <1>3 DEF made
  <1>5. Order' /\ Served'
    BY <1>1, <1>2, <1>4, ConnectsOrder DEF Connecting
  <1>6. Pairs'
    <2>1. SUFFICES ASSUME NEW t \in Transports' PROVE sftp'[t] # None => sftp'[t] = link'[t]
      BY DEF Pairs
    <2>2. t \in 1..made \/ t = made + 1
      BY <1>3, <1>4 DEF Transports
    <2>3. QED BY <1>4, <2>2 DEF Stock, Pairs, Transports
  <1>7. \A k \in Connections : ssh[k] \in Live => k \in unstarted
    <2>1. SUFFICES ASSUME NEW k \in Connections, ssh[k] \in Live, k \notin unstarted PROVE FALSE
      OBVIOUS
    <2>2. transport # None /\ k = link[transport] /\ sftp[transport] # None
      BY <1>1, <1>2, <2>1 DEF Stock, Held
    <2>3. k # None
      BY DEF Connections, None
    <2>4. QED BY <1>1, <2>1, <2>2, <2>3 DEF IsConnected, Live
  <1>8. \A p \in 1..Len(port) : p \in shut \/ ssh[port[p]] \notin Live
    <2>1. SUFFICES ASSUME NEW p \in 1..Len(port), p \notin shut, ssh[port[p]] \in Live PROVE FALSE
      OBVIOUS
    <2>2. /\ transport # None /\ port[p] = link[transport] /\ sftp[transport] # None
      BY <2>1 DEF Stock, Listening
    <2>3. port[p] # None
      BY <1>3 DEF Connections, None
    <2>4. QED BY <1>1, <2>1, <2>2, <2>3 DEF IsConnected, Live
  <1>9. UNCHANGED <<ssh, port, shut, unstarted>>
    BY <1>1 DEF network
  <1>10. Held'
    BY <1>7, <1>9 DEF Held, Connections
  <1>11. Listening'
    <2>1. SUFFICES ASSUME NEW p \in 1..Len(port), p \notin shut, ssh[port[p]] \in Live PROVE FALSE
      BY <1>9 DEF Listening
    <2>2. QED BY <1>8, <2>1
  <1>12. QED BY <1>5, <1>6, <1>10, <1>11 DEF Stock

\* The SSH connection is up.
LEMMA SshUpSteady ==
    ASSUME TypeOK, Order, Stock, Served, NEW c \in Callers, SshUp(c)
    PROVE  Order' /\ Stock' /\ Served'
  <1>1. /\ pc[c] = "ssh" /\ ssh' = Append(ssh, "bare")
        /\ link' = [link EXCEPT ![self[c]] = Len(ssh) + 1]
        /\ UNCHANGED <<transport, sftp, listener, port, shut, unstarted>>
        /\ Moves(c, "sftp", "none", Len(ssh) + 1, self[c], tries[c], firstUsing[c])
    <2>1. Suspend(c, "sftp", Len(ssh) + 1) /\ UNCHANGED <<self, tries, firstUsing>>
      BY DEF SshUp, history
    <2>2. QED BY <2>1, Kept, SuspendMoves DEF SshUp, history
  <1>2. /\ self[c] = transport /\ sftp[transport] = None /\ listener[transport] = None
        /\ link[transport] = None /\ \A d \in Callers \ {c} : pc[d] = "idle"
    BY <1>1 DEF Order, OnCurrent, Solo, Connecting
  <1>3. /\ transport \in 1..made /\ Len(link) = made /\ Len(ssh) \in Nat
        /\ ssh \in Seq(States) /\ port \in Seq(Connections) /\ transport # None
        /\ link \in Seq(0..Len(ssh)) /\ made \in Nat
    BY <1>1, <1>2 DEF TypeOK, ObjectsOK, CallsOK, Bound, made, None
  <1>4. /\ link'[transport] = Len(ssh) + 1 /\ made' = made
        /\ \A t \in 1..made : t # transport => link'[t] = link[t]
        /\ Len(ssh') = Len(ssh) + 1 /\ \A k \in Connections : ssh'[k] = ssh[k]
    BY <1>1, <1>2, <1>3 DEF made, Connections, States
  <1>5. Order' /\ Served'
    BY <1>1, <1>2, <1>4, ConnectsOrder DEF Connecting
  <1>6. Pairs'
    BY <1>1, <1>2, <1>4 DEF Stock, Pairs, Transports
  <1>7. \A k \in Connections : ssh[k] \in Live => k \in unstarted
    BY <1>2 DEF Stock, Held, Connections, None
  <1>8. \A p \in 1..Len(port) : p \in shut \/ ssh[port[p]] \notin Live
    BY <1>2 DEF Stock, Listening
  <1>9. Held'
    <2>1. pc'[c] = "sftp"
      BY <1>1, MovesAt
    <2>2. \A k \in Connections' : k \in Connections \/ k = Len(ssh) + 1
      BY <1>3, <1>4 DEF Connections
    <2>3. QED BY <1>1, <1>3, <1>4, <1>7, <2>1, <2>2 DEF Held
  <1>10. Listening'
    <2>1. \A p \in 1..Len(port) : port[p] \in Connections
      BY <1>3
    <2>2. QED BY <1>1, <1>4, <1>8, <2>1 DEF Listening
  <1>11. QED BY <1>5, <1>6, <1>9, <1>10 DEF Stock

\* The SFTP session is there.
LEMMA SftpUpSteady ==
    ASSUME TypeOK, Order, Stock, Served, NEW c \in Callers, SftpUp(c)
    PROVE  Order' /\ Stock' /\ Served'
  <1>1. /\ pc[c] = "sftp" /\ ssh' = [ssh EXCEPT ![using[c]] = "open"] /\ ssh[using[c]] = "bare"
        /\ sftp' = [sftp EXCEPT ![self[c]] = using[c]]
        /\ UNCHANGED <<transport, link, listener, port, unstarted>>
    BY DEF SftpUp
  <1>2. /\ self[c] = transport /\ sftp[transport] = None /\ listener[transport] = None
        /\ link[transport] = using[c] /\ \A d \in Callers \ {c} : pc[d] = "idle"
        /\ using[c] # None /\ transport # None
    BY <1>1 DEF Order, OnCurrent, Solo, Connecting, TypeOK, Bound
  <1>3. /\ transport \in 1..made /\ Len(sftp) = made /\ Len(ssh) \in Nat /\ using[c] \in Connections
        /\ ssh \in Seq(States) /\ port \in Seq(Connections) /\ sftp \in Seq(0..Len(ssh))
    BY <1>1, <1>2 DEF TypeOK, ObjectsOK, CallsOK, made, None, Connections
  <1>4. /\ sftp'[transport] = using[c] /\ \A t \in 1..made : t # transport => sftp'[t] = sftp[t]
        /\ Len(ssh') = Len(ssh) /\ \A k \in Connections : ssh'[k] \in Live => ssh[k] \in Live
    BY <1>1, <1>2, <1>3 DEF made, Connections, States, Live
  <1>5. /\ Order' /\ Served' /\ shut \subseteq shut'
    <2>1. CASE tries[c] = 2
      <3>1. Try(c, self[c], 2, sftp') /\ UNCHANGED shut
        BY <2>1 DEF SftpUp
      <3>2. Moves(c, "put", "none", using[c], transport, 2, firstUsing[c])
        BY <1>2, <1>4, <3>1, TryMoves
      <3>3. OnCurrent' /\ Solo' /\ Served'
        BY <1>1, <1>2, <3>2, MovesOrder DEF Order, Connecting
      <3>4. Forwarding'
        BY <1>2, <3>2, MovesAt DEF Forwarding
      <3>5. QED BY <3>1, <3>3, <3>4 DEF Order
    <2>2. CASE tries[c] # 2
      <3>1. UseTransport(c, op[c], sftp')
        BY <2>2 DEF SftpUp
      <3>2. QED BY <1>1, <1>2, <1>4, <3>1, UseOrder DEF Order, Connecting
    <2>3. QED BY <2>1, <2>2
  <1>6. Pairs'
    BY <1>1, <1>2, <1>4 DEF Stock, Pairs, Transports, made
  <1>7. Held'
    BY <1>1, <1>2, <1>4 DEF Stock, Held, Connections
  <1>8. Listening'
    <2>1. \A p \in 1..Len(port) : p \in shut \/ ssh[port[p]] \notin Live
      BY <1>2 DEF Stock, Listening, None
    <2>2. \A p \in 1..Len(port) : port[p] \in Connections
      BY <1>3
    <2>3. QED BY <1>1, <1>4, <1>5, <2>1, <2>2 DEF Listening
  <1>9. QED BY <1>5, <1>6, <1>7, <1>8 DEF Stock

\* connect() fails.
LEMMA ConnectFailsSteady ==
    ASSUME TypeOK, Order, Stock, Served, NEW c \in Callers, ConnectFails(c)
    PROVE  Order' /\ Stock' /\ Served'
  <1>1. /\ pc[c] \in {"ssh", "sftp"} /\ transport' \in {transport, None}
        /\ unstarted' = IF pc[c] = "sftp" THEN unstarted \cup {using[c]} ELSE unstarted
        /\ UNCHANGED <<link, sftp, listener, ssh, port, shut>>
        /\ \E a \in {"raised", "error"} :
              Moves(c, "idle", a, using[c], self[c], tries[c], firstUsing[c])
    BY AnswerMoves DEF ConnectFails, network
  <1>2. /\ sftp[transport] = None /\ listener[transport] = None
        /\ link[transport] = IF pc[c] = "ssh" THEN None ELSE using[c]
        /\ \A d \in Callers \ {c} : pc[d] = "idle"
    BY <1>1 DEF Order, Solo, Connecting
  <1>3. \A d \in Callers : pc'[d] = "idle" /\ answer'[d] # "nothing"
    BY <1>1, <1>2, MovesAt DEF Served
  <1>4. Order' /\ Served'
    BY <1>3 DEF Order, OnCurrent, Solo, Forwarding, Served, Connecting
  <1>5. Pairs'
    BY <1>1 DEF Stock, Pairs, Transports, made
  <1>6. \A k \in Connections : ssh[k] \in Live => k \in unstarted'
    BY <1>1, <1>2 DEF Stock, Held, Connections, None
  <1>7. Held'
    BY <1>1, <1>6 DEF Held, Connections
  <1>8. Listening'
    BY <1>1, <1>2 DEF Stock, Listening, None
  <1>9. QED BY <1>4, <1>5, <1>7, <1>8 DEF Stock

\* A transfer, or a request for a listener, ends.
LEMMA EndsSteady ==
    ASSUME TypeOK, Order, Stock, Served, NEW c \in Callers,
           PutDone(c) \/ PutFails(c) \/ ForwardFails(c)
    PROVE  Order' /\ Stock' /\ Served'
  <1>1. /\ pc[c] # "sftp" /\ UNCHANGED <<objects, network, unstarted>>
        /\ \E a \in {"done", "error", "raised"} :
              Moves(c, "idle", a, using[c], self[c], tries[c], firstUsing[c])
    <2>1. /\ pc[c] # "sftp" /\ UNCHANGED <<objects, network, unstarted>>
          /\ UNCHANGED <<self, tries, firstUsing>>
          /\ \E a \in {"done", "error", "raised"} : Answer(c, a)
      BY DEF PutDone, PutFails, ForwardFails, history
    <2>2. QED BY <2>1, AnswerMoves
  <1>2. Order' /\ Served'
    BY <1>1, EndsOrder DEF objects, network
  <1>3. Pairs' /\ Listening'
    BY <1>1 DEF Stock, Pairs, Listening, objects, network, Transports, made
  <1>4. Held'
    BY <1>1, MovesAt DEF Stock, Held, objects, network, Connections
  <1>5. QED BY <1>2, <1>3, <1>4 DEF Stock

\* The listener is there; the one before is closed.
LEMMA ForwardUpSteady ==
    ASSUME TypeOK, Order, Stock, Served, NEW c \in Callers, ForwardUp(c)
    PROVE  Order' /\ Stock' /\ Served'
  <1>1. /\ pc[c] = "forward" /\ port' = Append(port, using[c])
        /\ listener' = [listener EXCEPT ![self[c]] = Len(port) + 1]
        /\ UNCHANGED <<transport, link, sftp, ssh, shut, unstarted>>
        /\ Moves(c, "idle", "port", using[c], self[c], tries[c], firstUsing[c])
    BY AnswerMoves DEF ForwardUp, history
  <1>2. /\ self[c] = transport /\ using[c] = link[transport] /\ sftp[transport] # None
        /\ listener[transport] \in shut \cup {None} /\ transport # None
        /\ \A d \in Callers : pc[d] \notin Connecting /\ (pc[d] = "forward" => d = c)
    BY <1>1 DEF Order, OnCurrent, Solo, Forwarding, TypeOK, Bound
  <1>3. /\ transport \in 1..made /\ Len(listener) = made /\ Len(port) \in Nat
        /\ port \in Seq(Connections) /\ using[c] \in Connections
        /\ listener \in Seq(0..Len(port))
    BY <1>1, <1>2 DEF TypeOK, ObjectsOK, CallsOK, Bound, made, None, Connections
  <1>4. /\ listener'[transport] = Len(port) + 1 /\ Len(port') = Len(port) + 1
        /\ port'[Len(port) + 1] = using[c] /\ \A p \in 1..Len(port) : port'[p] = port[p]
    BY <1>1, <1>2, <1>3
  <1>5. Order' /\ Served'
    <2>1. OnCurrent' /\ Solo' /\ Served'
      BY <1>1, <1>2, MovesOrder DEF Order, Connecting
    <2>2. Forwarding'
      BY <1>1, <1>2, MovesAt DEF Forwarding
    <2>3. QED BY <2>1, <2>2 DEF Order
  <1>6. Pairs'
    BY <1>1 DEF Stock, Pairs, Transports, made
  <1>7. Held'
    BY <1>1, <1>2 DEF Stock, Held, Connections
  <1>8. \A p \in 1..Len(port) : p \in shut \/ ssh[port[p]] \notin Live
    BY <1>2 DEF Stock, Listening, None
  <1>9. Listening'
    BY <1>1, <1>2, <1>3, <1>4, <1>8 DEF Listening
  <1>10. QED BY <1>5, <1>6, <1>7, <1>9 DEF Stock

\* A transfer reconnects: what was live is not any more.
LEMMA ReconnectSteady ==
    ASSUME TypeOK, Order, Stock, Served, NEW c \in Callers, Reconnect(c), ~collided'
    PROVE  Order' /\ Stock' /\ Served'
  <1>1. /\ pc[c] = "put" /\ Dismantle(self[c]) /\ UNCHANGED <<transport, port, unstarted>>
        /\ \A d \in Callers \ {c} : pc[d] = "idle"
    BY DEF Reconnect, NoteClash, Suspended
  <1>2. self[c] = transport /\ transport # None
    BY <1>1 DEF Order, OnCurrent, TypeOK, Bound
  <1>3. /\ transport \in 1..made /\ Len(link) = made /\ Len(sftp) = made /\ Len(listener) = made
        /\ link \in Seq(0..Len(ssh)) /\ sftp \in Seq(0..Len(ssh)) /\ ssh \in Seq(States)
        /\ listener \in Seq(0..Len(port)) /\ port \in Seq(Connections) /\ made \in Nat
        /\ Len(ssh) \in Nat
    BY <1>2 DEF TypeOK, ObjectsOK, made, None
  <1>4. \/ /\ Moves(c, "closing", "none", link[transport], transport, 2, firstUsing[c])
           /\ UNCHANGED link
        \/ /\ Moves(c, "ssh", "none", None, transport, 2, firstUsing[c])
           /\ link' = [link EXCEPT ![transport] = None]
    <2>1. /\ UNCHANGED <<self, firstUsing>> /\ tries' = [tries EXCEPT ![c] = 2]
          /\ \/ Suspend(c, "closing", link[transport]) /\ UNCHANGED link
             \/ Suspend(c, "ssh", None) /\ link' = [link EXCEPT ![transport] = None]
      BY <1>2 DEF Reconnect
    <2>2. QED BY <1>2, <2>1, SuspendMoves
  <1>5. /\ sftp'[transport] = None /\ listener'[transport] = None /\ made' = made
        /\ \A t \in 1..made : t # transport => sftp'[t] = sftp[t] /\ link'[t] = link[t]
    <2>1. /\ sftp' = [sftp EXCEPT ![transport] = None]
          /\ listener' = [listener EXCEPT ![transport] = None]
          /\ link' = link \/ link' = [link EXCEPT ![transport] = None]
      BY <1>1, <1>2, <1>4 DEF Dismantle
    <2>2. Len(link') = Len(link)
      BY <1>3, <2>1
    <2>3. made' = made
      BY <1>3, <2>2 DEF made
    <2>4. /\ sftp'[transport] = None /\ listener'[transport] = None
          /\ \A t \in 1..made : t # transport => sftp'[t] = sftp[t]
      BY <1>3, <2>1
    <2>5. \A t \in 1..made : t # transport => link'[t] = link[t]
      <3>1. CASE link' = link
        BY <3>1
      <3>2. CASE link' = [link EXCEPT ![transport] = None]
        BY <1>3, <3>2
      <3>3. QED BY <2>1, <3>1, <3>2
    <2>6. QED BY <2>3, <2>4, <2>5
  <1>6. Order' /\ Served'
    <2>1. CASE /\ Moves(c, "closing", "none", link[transport], transport, 2, firstUsing[c])
               /\ UNCHANGED link
      BY <1>1, <1>5, <2>1, ConnectsOrder DEF Connecting
    <2>2. CASE /\ Moves(c, "ssh", "none", None, transport, 2, firstUsing[c])
               /\ link' = [link EXCEPT ![transport] = None]
      <3>1. link'[transport] = None
        BY <1>3, <2>2
      <3>2. QED BY <1>1, <1>5, <2>2, <3>1, ConnectsOrder DEF Connecting
    <2>3. QED BY <1>4, <2>1, <2>2
  <1>7. Pairs'
    BY <1>5 DEF Stock, Pairs, Transports
  <1>8. /\ Connections' = Connections
        /\ \A k \in Connections : ssh'[k] \in Live => ssh[k] \in Live /\ k # link[transport]
    BY <1>1, <1>2, <1>3 DEF Dismantle, Connections, Live
  <1>9. Held'
    BY <1>1, <1>8 DEF Stock, Held
  <1>10. Listening'
    <2>1. \A p \in 1..Len(port) : port[p] \in Connections
      BY <1>3
    <2>2. shut \cup ({listener[transport]} \ {None}) \subseteq shut'
      BY <1>1, <1>2 DEF Dismantle
    <2>3. QED BY <1>1, <1>8, <2>1, <2>2 DEF Stock, Listening
  <1>11. QED BY <1>6, <1>7, <1>9, <1>10 DEF Stock

\* A connection is closed at last: one call at most waits for it.
LEMMA ClosedSteady ==
    ASSUME TypeOK, Order, Stock, Served, NEW k \in Connections, Closed(k)
    PROVE  Order' /\ Stock' /\ Served'
  <1> DEFINE Waiting == {c \in Callers : pc[c] = "closing" /\ using[c] = k}
  <1>1. /\ ssh[k] = "closing" /\ ssh' = [ssh EXCEPT ![k] = "closed"]
        /\ pc' = [c \in Callers |-> IF c \in Waiting THEN "ssh" ELSE pc[c]]
        /\ using' = [c \in Callers |-> IF c \in Waiting THEN None ELSE using[c]]
        /\ link' = [t \in 1..made |-> IF \E c \in Waiting : self[c] = t THEN None ELSE link[t]]
        /\ UNCHANGED <<transport, sftp, listener, port, shut, self, answer, unstarted>>
    BY DEF Closed, Transports, history
  <1>2. /\ link \in Seq(0..Len(ssh)) /\ Len(link) = made /\ made \in Nat /\ ssh \in Seq(States)
        /\ Len(ssh) \in Nat /\ port \in Seq(Connections) /\ transport \in 0..made
    BY DEF TypeOK, ObjectsOK, made
  <1>3. /\ made' = made /\ Connections' = Connections
        /\ \A j \in Connections : ssh'[j] \in Live => ssh[j] \in Live /\ j # k
    BY <1>1, <1>2 DEF made, Connections, Live
  <1>4. \A c \in Waiting : self[c] = transport /\ transport # None /\ link[transport] = k
                          /\ sftp[transport] = None /\ listener[transport] = None
                          /\ \A d \in Callers \ {c} : pc[d] = "idle"
    BY DEF Order, OnCurrent, Solo, Connecting, TypeOK, Bound
  <1>5. CASE Waiting = {}
    <2>1. UNCHANGED <<pc, using, link>>
      BY <1>1, <1>2, <1>5 DEF TypeOK, CallsOK
    <2>2. Order' /\ Served'
      BY <1>1, <2>1, ZenonT(30) DEF Order, OnCurrent, Solo, Forwarding, Served
    <2>3. Pairs' /\ Held'
      BY <1>1, <1>3, <2>1 DEF Stock, Pairs, Held, Transports
    <2>4. \A p \in 1..Len(port) : port[p] \in Connections
      BY <1>2
    <2>5. Listening'
      BY <1>1, <1>3, <2>1, <2>4 DEF Stock, Listening
    <2>6. QED BY <2>2, <2>3, <2>5 DEF Stock
  <1>6. ASSUME NEW c \in Waiting PROVE Order' /\ Stock' /\ Served'
    <2>1. /\ pc'[c] = "ssh" /\ \A d \in Callers \ {c} : pc'[d] = "idle"
      BY <1>1, <1>4
    <2>2. /\ link'[transport] = None /\ \A t \in 1..made : t # transport => link'[t] = link[t]
      <3>1. transport \in 1..made
        BY <1>2, <1>4 DEF None
      <3>2. QED BY <1>1, <1>4, <3>1
    <2>3. Order' /\ Served'
      BY <1>1, <1>4, <2>1, <2>2, ZenonT(30) DEF Order, OnCurrent, Solo, Forwarding, Served, Connecting
    <2>4. Pairs'
      BY <1>1, <1>3, <1>4, <2>2 DEF Stock, Pairs, Transports
    <2>5. Held'
      BY <1>1, <1>3, <1>4 DEF Stock, Held
    <2>6. \A p \in 1..Len(port) : port[p] \in Connections /\ p # None
      BY <1>2 DEF None
    <2>7. Listening'
      BY <1>1, <1>3, <1>4, <2>6 DEF Stock, Listening
    <2>8. QED BY <2>3, <2>4, <2>5, <2>7 DEF Stock
  <1>7. QED BY <1>5, <1>6

\* A connection is lost.
LEMMA PeerLostSteady ==
    ASSUME TypeOK, Order, Stock, Served, NEW k \in Connections, PeerLost(k)
    PROVE  Order' /\ Stock' /\ Served'
  <1>1. ssh' = [ssh EXCEPT ![k] = "lost"] /\ UNCHANGED <<objects, port, shut, calls, history>>
    BY DEF PeerLost
  <1>2. /\ ssh \in Seq(States) /\ Len(ssh) \in Nat /\ port \in Seq(Connections)
    BY DEF TypeOK, ObjectsOK
  <1>3. /\ Connections' = Connections
        /\ \A j \in Connections : ssh'[j] \in Live => ssh[j] \in Live
    BY <1>1, <1>2 DEF Connections, Live
  <1>4. Order' /\ Served'
    BY <1>1 DEF Order, OnCurrent, Solo, Forwarding, Served, objects, calls
  <1>5. Pairs' /\ Held'
    BY <1>1, <1>3 DEF Stock, Pairs, Held, objects, calls, history, Transports, made
  <1>6. \A p \in 1..Len(port) : port[p] \in Connections
    BY <1>2
  <1>7. Listening'
    BY <1>1, <1>3, <1>6 DEF Stock, Listening, objects
  <1>8. QED BY <1>4, <1>5, <1>7 DEF Stock

\* Every step keeps it so.
LEMMA SteadyStep == TypeOK /\ Steady /\ [Next]_vars => Steady'
  <1> SUFFICES ASSUME TypeOK, Steady, [Next]_vars, ~collided'
               PROVE  Order' /\ Stock' /\ Served'
    BY DEF Steady
  <1>1. Order /\ Stock /\ Served
    BY CalmBefore DEF Steady
  <1>2. ASSUME NEW c \in Callers, Call(c) PROVE Order' /\ Stock' /\ Served'
    BY <1>1, <1>2, UseConnectedSteady, MakeTransportSteady DEF Call
  <1>3. ASSUME NEW c \in Callers, Resume(c) PROVE Order' /\ Stock' /\ Served'
    BY <1>1, <1>3, SshUpSteady, SftpUpSteady, ConnectFailsSteady, EndsSteady, ReconnectSteady,
       ForwardUpSteady DEF Resume
  <1>4. ASSUME NEW k \in Connections, Closed(k) \/ PeerLost(k) PROVE Order' /\ Stock' /\ Served'
    BY <1>1, <1>4, ClosedSteady, PeerLostSteady
  <1>5. CASE UNCHANGED vars
    <2>1. UNCHANGED <<transport, link, sftp, listener, ssh, port, shut, pc, self, using, answer,
                      unstarted>>
      BY <1>5 DEF vars, objects, network, calls, history
    <2>2. Order' /\ Served'
      BY <1>1, <2>1, ZenonT(30) DEF Order, OnCurrent, Solo, Forwarding, Served
    <2>3. Stock'
      BY <1>1, <2>1 DEF Stock, Pairs, Held, Listening, Transports, Connections, made
    <2>4. QED BY <2>2, <2>3
  <1>6. QED BY <1>2, <1>3, <1>4, <1>5 DEF Next

\* While no calls clash, they and what they share stay in order.
LEMMA SteadyAlways == Spec => [](TypeOK /\ Steady)
  <1>1. Init => TypeOK /\ Steady
    <2>1. Init => Order /\ Served
      BY DEF Init, Order, OnCurrent, Solo, Forwarding, Served, Connecting
    <2>2. Init => Stock
      BY DEF Init, Stock, Pairs, Held, Listening, Transports, Connections, made
    <2>3. QED BY <2>1, <2>2, InitOK DEF Steady
  <1>2. TypeOK /\ Steady /\ [Next]_vars => TypeOK' /\ Steady'
    BY TypeStep, SteadyStep
  <1>3. QED BY <1>1, <1>2, PTL DEF Spec

\* Calls that do not clash find a transport they can transfer on.
THEOREM SoundTheorem == Spec => []SoundTransport
  <1>1. Steady => SoundTransport
    BY DEF Steady, Served, SoundTransport
  <1>2. QED BY <1>1, SteadyAlways, PTL

\* Calls that do not clash lose no live connection and no open listener.
THEOREM NoLeakTheorem == Spec => []NoLeak
  <1>1. Steady => NoLeak
    BY DEF Steady, Stock, Held, Listening, NoLeak
  <1>2. QED BY <1>1, SteadyAlways, PTL

\* Calls that do not clash keep connection and SFTP session of a transport
\* together.
THEOREM PairedTheorem == Spec => []Paired
  <1>1. Steady => Paired
    BY DEF Steady, Stock, Pairs, Paired
  <1>2. QED BY <1>1, SteadyAlways, PTL

=============================================================================
