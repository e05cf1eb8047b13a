---------------------------- MODULE TelnetProofs ----------------------------
(***************************************************************************)
(* Theorems about Telnet: its types, that nothing is lost and every        *)
(* command answered in its turn, and that the stream implements the        *)
(* channel of frames, for any payloads, commands and bounds.               *)
(*                                                                         *)
(* The argument follows what is on the wire with a second parser, the      *)
(* host's own: it is never cancelled, so it is in step with the frames,    *)
(* and it reads the bytes the reader reads.                                *)
(***************************************************************************)
EXTENDS Telnet, DataFacts, SequenceTheorems

Marks     == [byte : Bytes, frame : Nat, end : BOOLEAN]
Positions == {"data", "iac", "option", "sub", "subiac"}

-----------------------------------------------------------------------------
\* The host's own parser: where it is, the bytes of the frame so far, the frames
\* and the answers it has seen.

States == [pos : Positions, verb : Verbs, sub : Seq(Bytes), buf : Seq(Bytes),
           frames : Seq(Seq(Bytes)), replies : Seq(Seq(Bytes))]

At(p, v, u, b, f, r) ==
    [pos |-> p, verb |-> v, sub |-> u, buf |-> b, frames |-> f, replies |-> r]

\* Between two units, with b of the frame behind it.
Between(b, f, r) == At("data", "DO", <<>>, b, f, r)

\* What the byte b of a stream that the host has encoded may be, and does.
ParsesData(s, b, t) ==
    /\ s.pos = "data" /\ ~b.end
    /\ \/ /\ b.byte = "IAC"
          /\ t = At("iac", s.verb, s.sub, s.buf, s.frames, s.replies)
       \/ /\ b.byte # "IAC"
          /\ t = At("data", s.verb, s.sub, Append(s.buf, b.byte), s.frames, s.replies)

ParsesEnd(s, b, t) ==
    /\ s.pos = "iac" /\ b.end /\ b.byte = "EOR" /\ b.frame = Len(s.frames) + 1 /\ s.buf # <<>>
    /\ t = At("data", s.verb, s.sub, <<>>, Append(s.frames, s.buf), s.replies)

ParsesCommand(s, b, t) ==
    /\ s.pos = "iac" /\ ~b.end
    /\ \/ /\ b.byte = "IAC" /\ s.buf # <<>>
          /\ t = At("data", s.verb, s.sub, Append(s.buf, "IAC"), s.frames, s.replies)
       \/ /\ b.byte \in Verbs
          /\ t = At("option", b.byte, s.sub, s.buf, s.frames, s.replies)
       \/ /\ b.byte = "SB"
          /\ t = At("sub", s.verb, <<>>, s.buf, s.frames, s.replies)
       \/ /\ b.byte \notin Verbs \cup {"IAC", "SB", "EOR"}
          /\ t = At("data", s.verb, s.sub, s.buf, s.frames, s.replies)

ParsesOption(s, b, t) ==
    /\ s.pos = "option" /\ ~b.end /\ b.byte # "IAC"
    /\ t = At("data", "DO", s.sub, s.buf, s.frames, s.replies \o OptionReply(s.verb, b.byte))

ParsesSub(s, b, t) ==
    /\ s.pos = "sub" /\ ~b.end
    /\ \/ /\ b.byte = "IAC"
          /\ t = At("subiac", s.verb, s.sub, s.buf, s.frames, s.replies)
       \/ /\ b.byte # "IAC"
          /\ t = At("sub", s.verb, Append(s.sub, b.byte), s.buf, s.frames, s.replies)

ParsesSubEnd(s, b, t) ==
    /\ s.pos = "subiac" /\ ~b.end
    /\ \/ /\ b.byte = "IAC"
          /\ t = At("sub", s.verb, Append(s.sub, "IAC"), s.buf, s.frames, s.replies)
       \/ /\ b.byte = "SE"
          /\ t = At("data", s.verb, <<>>, s.buf, s.frames, s.replies \o SubReply(s.sub))

Parses(s, b, t) ==
    \/ ParsesData(s, b, t) \/ ParsesEnd(s, b, t) \/ ParsesCommand(s, b, t)
    \/ ParsesOption(s, b, t) \/ ParsesSub(s, b, t) \/ ParsesSubEnd(s, b, t)

\* The bytes w take the parser from s to t.
Reaches(s, w, t) ==
    \E st \in [0..Len(w) -> States] :
        /\ st[0] = s /\ st[Len(w)] = t
        /\ \A i \in 1..Len(w) : Parses(st[i - 1], w[i], st[i])

\* x is the beginning of y.
Begins(x, y) == Len(x) <= Len(y) /\ \A i \in 1..Len(x) : y[i] = x[i]

LEMMA BeginsSelf ==
    ASSUME NEW x
    PROVE  Len(x) \in Int => Begins(x, x)
  BY DEF Begins

LEMMA BeginsAppend ==
    ASSUME NEW S, NEW x \in Seq(S), NEW e \in S
    PROVE  Begins(x, Append(x, e))
  BY DEF Begins

LEMMA BeginsConcat ==
    ASSUME NEW S, NEW x \in Seq(S), NEW y \in Seq(S)
    PROVE  Begins(x, x \o y)
  BY ConcatProperties DEF Begins

LEMMA BeginsTwice ==
    ASSUME NEW S, NEW x \in Seq(S), NEW y \in Seq(S), NEW z \in Seq(S), Begins(x, y), Begins(y, z)
    PROVE  Begins(x, z)
  BY DEF Begins

\* Every answer is a sequence of at most one command.
LEMMA OneReply ==
    ASSUME NEW x \in Bytes, NEW y \in Bytes
    PROVE  <<<<x, y>>>> \in Seq(Seq(Bytes))
  <1>1. <<x, y>> \in Seq(Bytes)
    OBVIOUS
  <1>2. \A z \in Seq(Bytes) : <<z>> \in Seq(Seq(Bytes))
    OBVIOUS
  <1>3. QED BY <1>1, <1>2

LEMMA OptionReplyType ==
    ASSUME NEW v, NEW o \in Bytes
    PROVE  OptionReply(v, o) \in Seq(Seq(Bytes))
  <1>1. {"WILL", "WONT", "DO", "DONT"} \subseteq Bytes
    BY DEF Bytes, Verbs
  <1>2. <<>> \in Seq(Seq(Bytes))
    OBVIOUS
  <1>3. QED BY <1>1, <1>2, OneReply DEF OptionReply

LEMMA SubReplyType ==
    ASSUME NEW s
    PROVE  SubReply(s) \in Seq(Seq(Bytes))
  <1>1. {"SB", "ENV", "TTYPE"} \subseteq Bytes
    BY DEF Bytes
  <1>2. <<>> \in Seq(Seq(Bytes))
    OBVIOUS
  <1>3. QED BY <1>1, <1>2, OneReply DEF SubReply

-----------------------------------------------------------------------------
\* Ways of the parser.

LEMMA ReachNone ==
    ASSUME NEW s \in States
    PROVE  Reaches(s, <<>>, s)
  <1> DEFINE st == [i \in 0..0 |-> s]
  <1>1. st \in [0..Len(<<>>) -> States] /\ st[0] = s /\ st[Len(<<>>)] = s
    OBVIOUS
  <1>2. \A i \in 1..Len(<<>>) : FALSE
    OBVIOUS
  <1>3. QED BY <1>1, <1>2, Zenon DEF Reaches

LEMMA ReachEnd ==
    ASSUME NEW s, NEW t, Reaches(s, <<>>, t)
    PROVE  s = t
  BY DEF Reaches

LEMMA ReachOne ==
    ASSUME NEW b, NEW s \in States, NEW t \in States, Parses(s, b, t)
    PROVE  Reaches(s, <<b>>, t)
  <1> DEFINE st == [i \in 0..1 |-> IF i = 0 THEN s ELSE t]
  <1>1. Len(<<b>>) = 1 /\ <<b>>[1] = b
    OBVIOUS
  <1>2. st \in [0..1 -> States] /\ st[0] = s /\ st[1] = t
    OBVIOUS
  <1> HIDE DEF st
  <1>3. \A i \in 1..1 : i = 1 /\ i - 1 = 0
    OBVIOUS
  <1>4. \A i \in 1..1 : Parses(st[i - 1], <<b>>[i], st[i])
    BY <1>1, <1>2, <1>3, Zenon
  <1>5. QED BY <1>1, <1>2, <1>4, Zenon DEF Reaches

LEMMA ReachFirst ==
    ASSUME NEW w \in Seq(Marks), w # <<>>, NEW s, NEW f, Reaches(s, w, f)
    PROVE  \E t \in States : Parses(s, Head(w), t) /\ Reaches(t, Tail(w), f)
  <1> DEFINE n == Len(w)
  <1>1. /\ n \in Nat /\ n >= 1 /\ Head(w) = w[1] /\ Tail(w) \in Seq(Marks) /\ Len(Tail(w)) = n - 1
        /\ \A i \in 1..(n - 1) : Tail(w)[i] = w[i + 1]
    BY EmptySeq
  <1>2. PICK st \in [0..n -> States] :
           st[0] = s /\ st[n] = f /\ \A i \in 1..n : Parses(st[i - 1], w[i], st[i])
    BY DEF Reaches
  <1> HIDE DEF n
  <1> DEFINE rest == [i \in 0..(n - 1) |-> st[i + 1]]
  <1>3. rest \in [0..(n - 1) -> States] /\ rest[0] = st[1] /\ rest[n - 1] = f
    <2>1. \A i \in 0..(n - 1) : i + 1 \in 0..n
      BY <1>1
    <2>2. 0 \in 0..(n - 1) /\ n - 1 \in 0..(n - 1) /\ (n - 1) + 1 = n /\ 0 + 1 = 1
      BY <1>1
    <2>3. QED BY <1>2, <2>1, <2>2
  <1>4. \A i \in 1..(n - 1) : Parses(rest[i - 1], Tail(w)[i], rest[i])
    <2> SUFFICES ASSUME NEW i \in 1..(n - 1) PROVE Parses(rest[i - 1], Tail(w)[i], rest[i])
      OBVIOUS
    <2>1. i + 1 \in 1..n /\ (i + 1) - 1 = i /\ i - 1 \in 0..(n - 1) /\ i \in 0..(n - 1) /\ (i - 1) + 1 = i
      BY <1>1
    <2>2. rest[i - 1] = st[i] /\ rest[i] = st[i + 1]
      BY <2>1
    <2>3. Tail(w)[i] = w[i + 1]
      BY <1>1
    <2> HIDE DEF rest
    <2>4. Parses(st[(i + 1) - 1], w[i + 1], st[i + 1])
      BY <1>2, <2>1
    <2>5. QED BY <2>1, <2>2, <2>3, <2>4
  <1> HIDE DEF rest
  <1>5. Reaches(st[1], Tail(w), f)
    BY <1>1, <1>3, <1>4 DEF Reaches
  <1>6. Parses(s, Head(w), st[1]) /\ st[1] \in States
    <2>1. 1 \in 1..n /\ 1 - 1 = 0 /\ 1 \in 0..n
      BY <1>1
    <2>2. Parses(st[1 - 1], w[1], st[1])
      BY <1>2, <2>1
    <2>3. QED BY <1>1, <1>2, <2>1, <2>2
  <1>7. QED BY <1>5, <1>6

LEMMA ReachCat ==
    ASSUME NEW v \in Seq(Marks), NEW w \in Seq(Marks),
           NEW s, NEW t, NEW f, Reaches(s, v, t), Reaches(t, w, f)
    PROVE  Reaches(s, v \o w, f)
  <1> DEFINE m == Len(v)
             n == Len(w)
  <1>1. /\ m \in Nat /\ n \in Nat /\ Len(v \o w) = m + n
        /\ \A i \in 1..m : (v \o w)[i] = v[i]
        /\ \A i \in (m + 1)..(m + n) : (v \o w)[i] = w[i - m]
    OBVIOUS
  <1>2. PICK a \in [0..m -> States] :
           a[0] = s /\ a[m] = t /\ \A i \in 1..m : Parses(a[i - 1], v[i], a[i])
    BY DEF Reaches
  <1>3. PICK b \in [0..n -> States] :
           b[0] = t /\ b[n] = f /\ \A i \in 1..n : Parses(b[i - 1], w[i], b[i])
    BY DEF Reaches
  <1> HIDE DEF m, n
  <1> DEFINE c == [i \in 0..(m + n) |-> IF i <= m THEN a[i] ELSE b[i - m]]
  <1>4. c \in [0..(m + n) -> States]
    <2>1. \A i \in 0..(m + n) : (i <= m => i \in 0..m) /\ (~(i <= m) => i - m \in 0..n)
      BY <1>1
    <2>2. \A i \in 0..(m + n) : (i <= m => a[i] \in States) /\ (~(i <= m) => b[i - m] \in States)
      BY <1>2, <1>3, <2>1
    <2>3. QED BY <2>2
  <1>5. /\ \A i \in 0..m : c[i] = a[i]
        /\ \A i \in 0..n : c[m + i] = b[i]
    <2>1. \A i \in 0..m : i \in 0..(m + n) /\ i <= m
      BY <1>1
    <2>2. \A i \in 0..n : m + i \in 0..(m + n) /\ (m + i <= m => i = 0 /\ m + i = m) /\ (m + i) - m = i
      BY <1>1
    <2>3. m <= m /\ m \in 0..(m + n)
      BY <1>1
    <2>4. QED BY <1>2, <1>3, <2>1, <2>2, <2>3
  <1> HIDE DEF c
  <1>6. \A i \in 1..(m + n) : Parses(c[i - 1], (v \o w)[i], c[i])
    <2> SUFFICES ASSUME NEW i \in 1..(m + n) PROVE Parses(c[i - 1], (v \o w)[i], c[i])
      OBVIOUS
    <2>1. CASE i <= m
      <3>1. i \in 1..m /\ i \in 0..m /\ i - 1 \in 0..m
        BY <1>1, <2>1
      <3>2. c[i - 1] = a[i - 1] /\ c[i] = a[i] /\ (v \o w)[i] = v[i]
        BY <1>1, <1>5, <3>1
      <3>3. QED BY <1>2, <3>1, <3>2
    <2>2. CASE ~(i <= m)
      <3> DEFINE k == i - m
      <3>1. k \in 1..n /\ k \in 0..n /\ k - 1 \in 0..n /\ m + k = i /\ m + (k - 1) = i - 1
            /\ i \in (m + 1)..(m + n)
        BY <1>1, <2>2
      <3>2. (v \o w)[i] = w[k]
        BY <1>1, <3>1
      <3> HIDE DEF k
      <3>3. c[i - 1] = b[k - 1] /\ c[i] = b[k]
        BY <1>5, <3>1
      <3>4. QED BY <1>3, <3>1, <3>2, <3>3
    <2>3. QED BY <2>1, <2>2
  <1>7. c[0] = s /\ c[m + n] = f
    <2>1. 0 \in 0..m /\ n \in 0..n
      BY <1>1
    <2>2. QED BY <1>2, <1>3, <1>5, <2>1
  <1>8. QED BY <1>1, <1>4, <1>6, <1>7 DEF Reaches

\* The parser forgets neither frames nor answers.
LEMMA ParsesMore ==
    ASSUME NEW s \in States, NEW b \in Marks, NEW t \in States, Parses(s, b, t)
    PROVE  Begins(s.frames, t.frames) /\ Begins(s.replies, t.replies)
  <1>1. s.frames \in Seq(Seq(Bytes)) /\ s.replies \in Seq(Seq(Bytes)) /\ s.verb \in Bytes
        /\ b.byte \in Bytes /\ s.buf \in Seq(Bytes)
    BY DEF States, Marks, Bytes
  <1>2. Begins(s.frames, s.frames) /\ Begins(s.frames, Append(s.frames, s.buf))
    BY <1>1, BeginsSelf, BeginsAppend
  <1>3. \A r \in Seq(Seq(Bytes)) : Begins(s.replies, s.replies \o r)
    BY <1>1, BeginsConcat
  <1>4. Begins(s.replies, s.replies)
    BY <1>1, BeginsSelf
  <1> DEFINE o == s.replies \o OptionReply(s.verb, b.byte)
             e == s.replies \o SubReply(s.sub)
  <1>5. Begins(s.replies, o) /\ Begins(s.replies, e)
    BY <1>1, <1>3, OptionReplyType, SubReplyType
  <1>6. /\ ParsesOption(s, b, t) => t = At("data", "DO", s.sub, s.buf, s.frames, o)
        /\ ParsesSubEnd(s, b, t) =>
              \/ t = At("sub", s.verb, Append(s.sub, "IAC"), s.buf, s.frames, s.replies)
              \/ t = At("data", s.verb, <<>>, s.buf, s.frames, e)
    BY DEF ParsesOption, ParsesSubEnd
  <1> HIDE DEF o, e
  <1>7. CASE ParsesData(s, b, t) \/ ParsesCommand(s, b, t) \/ ParsesSub(s, b, t)
    <2>1. t.frames = s.frames /\ t.replies = s.replies
      BY <1>7 DEF ParsesData, ParsesCommand, ParsesSub, At
    <2>2. QED BY <1>2, <1>4, <2>1
  <1>8. CASE ParsesEnd(s, b, t)
    <2>1. t.frames = Append(s.frames, s.buf) /\ t.replies = s.replies
      BY <1>8 DEF ParsesEnd, At
    <2>2. QED BY <1>2, <1>4, <2>1
  <1>9. CASE ParsesOption(s, b, t) \/ ParsesSubEnd(s, b, t)
    <2>1. t.frames = s.frames /\ (t.replies = s.replies \/ t.replies = o \/ t.replies = e)
      BY <1>6, <1>9 DEF At
    <2>2. QED BY <1>2, <1>4, <1>5, <2>1
  <1>10. QED BY <1>7, <1>8, <1>9 DEF Parses

LEMMA ReachMore ==
    ASSUME NEW w \in Seq(Marks), NEW s \in States, NEW f \in States, Reaches(s, w, f)
    PROVE  Begins(s.frames, f.frames) /\ Begins(s.replies, f.replies)
  <1> DEFINE n == Len(w)
  <1>1. PICK st \in [0..n -> States] :
           st[0] = s /\ st[n] = f /\ \A i \in 1..n : Parses(st[i - 1], w[i], st[i])
    BY DEF Reaches
  <1>2. n \in Nat /\ \A i \in 1..n : w[i] \in Marks
    OBVIOUS
  <1> HIDE DEF n
  <1> DEFINE More(t) == Begins(s.frames, t.frames) /\ Begins(s.replies, t.replies)
             Good == {i \in Nat : i <= n => More(st[i])}
  <1>3. \A x, y, z \in Seq(Seq(Bytes)) : Begins(x, x) /\ (Begins(x, y) /\ Begins(y, z) => Begins(x, z))
    BY BeginsSelf, BeginsTwice
  <1>4. \A t \in States : t.frames \in Seq(Seq(Bytes)) /\ t.replies \in Seq(Seq(Bytes))
    BY DEF States
  <1>5. 0 \in Good
    BY <1>1, <1>3, <1>4
  <1>6. \A i \in Nat : i \in Good => i + 1 \in Good
    <2> SUFFICES ASSUME NEW i \in Nat, i <= n => More(st[i]), i + 1 <= n PROVE More(st[i + 1])
      OBVIOUS
    <2>1. i \in 0..n /\ i + 1 \in 0..n /\ i + 1 \in 1..n /\ (i + 1) - 1 = i /\ i <= n
      BY <1>2
    <2>2. st[i] \in States /\ st[i + 1] \in States /\ Parses(st[i], w[i + 1], st[i + 1]) /\ w[i + 1] \in Marks
      <3>1. Parses(st[(i + 1) - 1], w[i + 1], st[i + 1])
        BY <1>1, <2>1
      <3>2. QED BY <1>1, <1>2, <2>1, <3>1
    <2>3. Begins(st[i].frames, st[i + 1].frames) /\ Begins(st[i].replies, st[i + 1].replies)
      BY <2>2, ParsesMore
    <2>4. More(st[i])
      BY <2>1
    <2>5. QED BY <1>3, <1>4, <2>2, <2>3, <2>4
  <1>7. n \in Good
    <2> HIDE DEF Good
    <2>1. QED BY <1>2, <1>5, <1>6, SetInduction
  <1>8. QED BY <1>1, <1>2, <1>7

-----------------------------------------------------------------------------
\* The bytes of a frame, all but its last.

Plain(u, n) == [i \in 1..Len(u) |-> [byte |-> u[i], frame |-> n, end |-> FALSE]]

LEMMA PlainType ==
    ASSUME NEW u \in Seq(Bytes), NEW n \in Nat
    PROVE  Plain(u, n) \in Seq(Marks) /\ Len(Plain(u, n)) = Len(u)
  <1>1. Plain(u, n) \in [1..Len(u) -> Marks] /\ Len(u) \in Nat
    BY DEF Plain, Marks
  <1>2. QED BY <1>1, FunctionIsSequence

LEMMA PlainCat ==
    ASSUME NEW u \in Seq(Bytes), NEW v \in Seq(Bytes), NEW n \in Nat
    PROVE  Plain(u \o v, n) = Plain(u, n) \o Plain(v, n)
  <1> DEFINE a == Plain(u \o v, n)
             b == Plain(u, n) \o Plain(v, n)
  <1>1. /\ u \o v \in Seq(Bytes) /\ Len(u \o v) = Len(u) + Len(v)
        /\ \A i \in 1..(Len(u) + Len(v)) :
              (u \o v)[i] = IF i <= Len(u) THEN u[i] ELSE v[i - Len(u)]
    BY ConcatProperties
  <1>2. a \in Seq(Marks) /\ Len(a) = Len(u) + Len(v)
    BY <1>1, PlainType
  <1>3. /\ Plain(u, n) \in Seq(Marks) /\ Plain(v, n) \in Seq(Marks)
        /\ Len(Plain(u, n)) = Len(u) /\ Len(Plain(v, n)) = Len(v)
    BY PlainType
  <1>4. /\ b \in Seq(Marks) /\ Len(b) = Len(u) + Len(v)
        /\ \A i \in 1..(Len(u) + Len(v)) :
              b[i] = IF i <= Len(u) THEN Plain(u, n)[i] ELSE Plain(v, n)[i - Len(u)]
    <2> DEFINE x == Plain(u, n)
               y == Plain(v, n)
    <2> HIDE DEF x, y
    <2>1. x \in Seq(Marks) /\ y \in Seq(Marks) /\ Len(x) = Len(u) /\ Len(y) = Len(v)
      BY <1>3 DEF x, y
    <2>2. /\ x \o y \in Seq(Marks) /\ Len(x \o y) = Len(u) + Len(v)
          /\ \A i \in 1..(Len(u) + Len(v)) :
                (x \o y)[i] = IF i <= Len(u) THEN x[i] ELSE y[i - Len(u)]
      <3>1. /\ x \o y \in Seq(Marks) /\ Len(x \o y) = Len(x) + Len(y)
            /\ \A i \in 1..(Len(x) + Len(y)) :
                  (x \o y)[i] = IF i <= Len(x) THEN x[i] ELSE y[i - Len(x)]
        BY <2>1, ConcatProperties, Zenon
      <3>2. QED BY <2>1, <3>1
    <2>3. QED BY <2>2 DEF x, y
  <1>5. \A i \in 1..Len(a) : a[i] = b[i]
    <2> SUFFICES ASSUME NEW i \in 1..(Len(u) + Len(v)) PROVE a[i] = b[i]
      BY <1>2
    <2>1. i <= Len(u) => i \in 1..Len(u)
      OBVIOUS
    <2>2. ~(i <= Len(u)) => i - Len(u) \in 1..Len(v)
      OBVIOUS
    <2>3. a[i] = [byte |-> (u \o v)[i], frame |-> n, end |-> FALSE]
      BY <1>1 DEF Plain
    <2>4. i <= Len(u) => Plain(u, n)[i] = [byte |-> u[i], frame |-> n, end |-> FALSE]
      BY <2>1 DEF Plain
    <2>5. ~(i <= Len(u)) => Plain(v, n)[i - Len(u)]
                             = [byte |-> v[i - Len(u)], frame |-> n, end |-> FALSE]
      BY <2>2 DEF Plain
    <2> HIDE DEF a, b
    <2>6. QED BY <1>1, <1>4, <2>3, <2>4, <2>5
  <1> HIDE DEF a, b
  <1>6. a = b
    BY <1>2, <1>4, <1>5, SeqEqual
  <1>7. QED BY <1>6 DEF a, b

LEMMA PlainOne ==
    ASSUME NEW b \in Bytes, NEW n \in Nat
    PROVE  Plain(<<b>>, n) = <<[byte |-> b, frame |-> n, end |-> FALSE]>>
  <1> DEFINE p == Plain(<<b>>, n)
             m == [byte |-> b, frame |-> n, end |-> FALSE]
  <1>1. <<b>> \in Seq(Bytes) /\ Len(<<b>>) = 1 /\ 1 \in 1..1
    OBVIOUS
  <1>2. p \in Seq(Marks) /\ Len(p) = 1
    BY <1>1, PlainType
  <1>3. m \in Marks /\ p[1] = m
    BY <1>1 DEF Plain, Marks
  <1> HIDE DEF p, m
  <1>4. <<m>> \in Seq(Marks) /\ Len(<<m>>) = 1 /\ \A i \in 1..1 : p[i] = <<m>>[i]
    BY <1>3
  <1>5. p = <<m>>
    BY <1>2, <1>4, SeqEqual
  <1>6. QED BY <1>5 DEF p, m

\* One byte more.
LEMMA ReachByte ==
    ASSUME NEW u \in Seq(Bytes), NEW b \in Bytes, NEW n \in Nat,
           NEW s, NEW t \in States, NEW f \in States,
           Reaches(s, Plain(u, n), t),
           Parses(t, [byte |-> b, frame |-> n, end |-> FALSE], f)
    PROVE  Reaches(s, Plain(Append(u, b), n), f)
  <1>1. <<b>> \in Seq(Bytes) /\ Append(u, b) = u \o <<b>>
    OBVIOUS
  <1>2. Reaches(t, Plain(<<b>>, n), f)
    BY ReachOne, PlainOne
  <1>3. Reaches(s, Plain(u, n) \o Plain(<<b>>, n), f)
    BY <1>1, <1>2, PlainType, ReachCat
  <1>4. Plain(u \o <<b>>, n) = Plain(u, n) \o Plain(<<b>>, n)
    BY <1>1, PlainCat, Zenon
  <1>5. QED BY <1>1, <1>3, <1>4, Zenon

LEMMA BetweenType ==
    ASSUME NEW b \in Seq(Bytes), NEW f \in Seq(Seq(Bytes)), NEW r \in Seq(Seq(Bytes))
    PROVE  Between(b, f, r) \in States
  BY DEF Between, At, States, Positions, Verbs

\* A byte of data, doubled or not.
LEMMA ReachDoubled ==
    ASSUME NEW d \in Seq(Bytes), NEW f \in Seq(Seq(Bytes)), NEW r \in Seq(Seq(Bytes)),
           NEW b \in Bytes, NEW n \in Nat, d # <<>> \/ b # "IAC"
    PROVE  Reaches(Between(d, f, r), Plain(Doubled(b), n), Between(Append(d, b), f, r))
  <1> DEFINE s == Between(d, f, r)
             t == Between(Append(d, b), f, r)
             m == [byte |-> b, frame |-> n, end |-> FALSE]
  <1>1. s \in States /\ t \in States
    <2>1. Append(d, b) \in Seq(Bytes)
      OBVIOUS
    <2>2. QED BY <2>1, BetweenType
  <1>2. CASE b # "IAC"
    <2>1. Parses(s, m, t)
      BY <1>2 DEF Parses, ParsesData, Between, At
    <2>2. Doubled(b) = <<b>>
      BY <1>2 DEF Doubled
    <2>3. QED BY <1>1, <2>1, <2>2, ReachOne, PlainOne
  <1>3. CASE b = "IAC"
    <2> DEFINE h == At("iac", "DO", <<>>, d, f, r)
    <2>1. h \in States
      BY DEF At, States, Positions, Verbs
    <2>2. Parses(s, m, h)
      BY <1>3 DEF Parses, ParsesData, Between, At
    <2>3. Parses(h, m, t)
      BY <1>3 DEF Parses, ParsesCommand, Between, At
    <2>4. Reaches(s, Plain(<<b>>, n), h)
      BY <1>1, <2>1, <2>2, ReachOne, PlainOne
    <2>5. Reaches(s, Plain(Append(<<b>>, b), n), t)
      <3>1. <<b>> \in Seq(Bytes)
        OBVIOUS
      <3> HIDE DEF s, t, h
      <3>2. QED BY <1>1, <2>1, <2>3, <2>4, <3>1, ReachByte
    <2>6. Doubled(b) = Append(<<b>>, b)
      BY <1>3 DEF Doubled
    <2>7. QED BY <2>5, <2>6
  <1>4. QED BY <1>2, <1>3

LEMMA AppendOne ==
    ASSUME NEW S, NEW x \in S, NEW y \in S
    PROVE  <<x>> \in Seq(S) /\ Append(<<x>>, y) = <<x, y>>
  <1>1. <<x>> \in Seq(S) /\ Len(<<x>>) = 1 /\ <<x>>[1] = x
    OBVIOUS
  <1>2. <<x, y>> \in Seq(S) /\ Len(<<x, y>>) = 2 /\ <<x, y>>[1] = x /\ <<x, y>>[2] = y
    OBVIOUS
  <1>3. /\ Append(<<x>>, y) \in Seq(S) /\ Len(Append(<<x>>, y)) = 2
        /\ Append(<<x>>, y)[1] = x /\ Append(<<x>>, y)[2] = y
    BY <1>1, AppendProperties
  <1> DEFINE a == Append(<<x>>, y)
             b == <<x, y>>
  <1>4. a \in Seq(S) /\ b \in Seq(S) /\ Len(a) = 2 /\ Len(b) = 2 /\ \A i \in 1..2 : a[i] = b[i]
    BY <1>2, <1>3
  <1> HIDE DEF a, b
  <1>5. a = b
    BY <1>4, SeqEqual
  <1>6. QED BY <1>1, <1>5 DEF a, b

LEMMA AppendTwo ==
    ASSUME NEW S, NEW x \in S, NEW y \in S, NEW z \in S
    PROVE  <<x, y>> \in Seq(S) /\ Append(<<x, y>>, z) = <<x, y, z>>
  <1>1. <<x, y>> \in Seq(S) /\ Len(<<x, y>>) = 2 /\ <<x, y>>[1] = x /\ <<x, y>>[2] = y
    OBVIOUS
  <1>2. /\ <<x, y, z>> \in Seq(S) /\ Len(<<x, y, z>>) = 3
        /\ <<x, y, z>>[1] = x /\ <<x, y, z>>[2] = y /\ <<x, y, z>>[3] = z
    OBVIOUS
  <1>3. /\ Append(<<x, y>>, z) \in Seq(S) /\ Len(Append(<<x, y>>, z)) = 3
        /\ Append(<<x, y>>, z)[1] = x /\ Append(<<x, y>>, z)[2] = y
        /\ Append(<<x, y>>, z)[3] = z
    BY <1>1, AppendProperties
  <1> DEFINE a == Append(<<x, y>>, z)
             b == <<x, y, z>>
  <1>4. a \in Seq(S) /\ b \in Seq(S) /\ Len(a) = 3 /\ Len(b) = 3 /\ \A i \in 1..3 : a[i] = b[i]
    BY <1>2, <1>3
  <1> HIDE DEF a, b
  <1>5. a = b
    BY <1>4, SeqEqual
  <1>6. QED BY <1>1, <1>5 DEF a, b

\* A command takes the parser back to where it was, its answer seen.
ReachesOver(c, n) ==
    \A d \in Seq(Bytes), f \in Seq(Seq(Bytes)), r \in Seq(Seq(Bytes)) :
        Reaches(Between(d, f, r), Plain(c, n), Between(d, f, r \o Answer(c)))

\* Its first byte.
LEMMA ReachCommand ==
    ASSUME NEW d \in Seq(Bytes), NEW f \in Seq(Seq(Bytes)), NEW r \in Seq(Seq(Bytes)), NEW n \in Nat
    PROVE  /\ At("iac", "DO", <<>>, d, f, r) \in States
           /\ Reaches(Between(d, f, r), Plain(<<"IAC">>, n), At("iac", "DO", <<>>, d, f, r))
  <1> DEFINE s == Between(d, f, r)
             h == At("iac", "DO", <<>>, d, f, r)
             m == [byte |-> "IAC", frame |-> n, end |-> FALSE]
  <1>1. s \in States
    BY BetweenType
  <1>2. h \in States
    BY DEF At, States, Positions, Verbs
  <1>3. Parses(s, m, h)
    BY DEF Parses, ParsesData, Between, At
  <1>4. "IAC" \in Bytes
    BY DEF Bytes
  <1> HIDE DEF h, s
  <1>5. Reaches(s, Plain(<<"IAC">>, n), h)
    BY <1>1, <1>2, <1>3, <1>4, ReachOne, PlainOne
  <1>6. QED BY <1>2, <1>5 DEF s, h

LEMMA ReachOption ==
    ASSUME NEW v \in Verbs, NEW o \in Bytes, o # "IAC", NEW n \in Nat
    PROVE  ReachesOver(<<"IAC", v, o>>, n)
  <1> SUFFICES ASSUME NEW d \in Seq(Bytes), NEW f \in Seq(Seq(Bytes)), NEW r \in Seq(Seq(Bytes))
               PROVE  Reaches(Between(d, f, r), Plain(<<"IAC", v, o>>, n),
                              Between(d, f, r \o Answer(<<"IAC", v, o>>)))
    BY DEF ReachesOver
  <1> DEFINE a == OptionReply(v, o)
             s == Between(d, f, r)
             h == At("iac", "DO", <<>>, d, f, r)
             k == At("option", v, <<>>, d, f, r)
             t == Between(d, f, r \o a)
             mv == [byte |-> v, frame |-> n, end |-> FALSE]
             mo == [byte |-> o, frame |-> n, end |-> FALSE]
  <1>1. Answer(<<"IAC", v, o>>) = a
    <2> DEFINE c == <<"IAC", v, o>>
    <2>1. c[2] = v /\ c[3] = o /\ v # "SB"
      BY DEF Verbs
    <2> HIDE DEF c
    <2>2. Answer(c) = OptionReply(v, o)
      BY <2>1 DEF Answer
    <2>3. QED BY <2>2 DEF c
  <1>2. v \in Bytes /\ "IAC" \in Bytes /\ v \notin {"IAC", "SB", "EOR"}
    BY DEF Bytes, Verbs
  <1>3. a \in Seq(Seq(Bytes))
    BY OptionReplyType
  <1>4. t \in States
    <2> HIDE DEF a
    <2>1. r \o a \in Seq(Seq(Bytes))
      BY <1>3
    <2>2. QED BY <2>1, BetweenType
  <1>5. k \in States
    BY DEF At, States, Positions
  <1>6. h \in States /\ Reaches(s, Plain(<<"IAC">>, n), h)
    BY ReachCommand
  <1>7. Parses(h, mv, k)
    BY <1>2 DEF Parses, ParsesCommand, At
  <1>8. Parses(k, mo, t)
    <2>1. k.replies \o OptionReply(k.verb, mo.byte) = r \o a
      BY DEF At
    <2>2. t = At("data", "DO", k.sub, k.buf, k.frames, r \o a)
      BY DEF At, Between
    <2>3. k.pos = "option" /\ ~mo.end /\ mo.byte # "IAC"
      BY DEF At
    <2> HIDE DEF k, mo, t, a
    <2>4. QED BY <2>1, <2>2, <2>3 DEF Parses, ParsesOption
  <1> HIDE DEF a, s, h, k, t
  <1>9. <<"IAC">> \in Seq(Bytes) /\ <<"IAC", v>> \in Seq(Bytes)
    BY <1>2, AppendOne, AppendTwo
  <1>10. Append(<<"IAC">>, v) = <<"IAC", v>> /\ Append(<<"IAC", v>>, o) = <<"IAC", v, o>>
    BY <1>2, AppendOne, AppendTwo
  <1>11. Reaches(s, Plain(<<"IAC", v>>, n), k)
    <2>1. Reaches(s, Plain(Append(<<"IAC">>, v), n), k)
      BY <1>2, <1>5, <1>6, <1>7, <1>9, ReachByte
    <2>2. QED BY <1>10, <2>1
  <1>12. Reaches(s, Plain(<<"IAC", v, o>>, n), t)
    <2>1. Reaches(s, Plain(Append(<<"IAC", v>>, o), n), t)
      BY <1>4, <1>5, <1>8, <1>9, <1>11, ReachByte
    <2>2. QED BY <1>10, <2>1
  <1>13. QED BY <1>1, <1>12 DEF s, t

LEMMA ReachOther ==
    ASSUME NEW x \in Bytes \ (Verbs \cup {"IAC", "SB", "EOR"}), NEW n \in Nat
    PROVE  ReachesOver(<<"IAC", x>>, n)
  <1> SUFFICES ASSUME NEW d \in Seq(Bytes), NEW f \in Seq(Seq(Bytes)), NEW r \in Seq(Seq(Bytes))
               PROVE  Reaches(Between(d, f, r), Plain(<<"IAC", x>>, n),
                              Between(d, f, r \o Answer(<<"IAC", x>>)))
    BY DEF ReachesOver
  <1> DEFINE s == Between(d, f, r)
             h == At("iac", "DO", <<>>, d, f, r)
             m == [byte |-> x, frame |-> n, end |-> FALSE]
  <1>1. r \o Answer(<<"IAC", x>>) = r
    <2>1. Answer(<<"IAC", x>>) = <<>>
      BY DEF Answer
    <2>2. QED BY <2>1, ConcatEmptySeq
  <1>2. "IAC" \in Bytes
    BY DEF Bytes
  <1>3. h \in States /\ Reaches(s, Plain(<<"IAC">>, n), h)
    BY ReachCommand
  <1>4. s \in States
    BY BetweenType
  <1>5. Parses(h, m, s)
    BY DEF Parses, ParsesCommand, At, Between
  <1> HIDE DEF s, h
  <1>6. <<"IAC">> \in Seq(Bytes) /\ Append(<<"IAC">>, x) = <<"IAC", x>>
    BY <1>2, AppendOne
  <1>7. Reaches(s, Plain(Append(<<"IAC">>, x), n), s)
    BY <1>3, <1>4, <1>5, <1>6, ReachByte
  <1>8. QED BY <1>1, <1>6, <1>7 DEF s

\* y is what the parser holds of the first i bytes of x, as far as an answer
\* depends on it.
Agrees(y, x, i) ==
    /\ Len(y) <= i /\ (i >= 1 => Len(y) >= 1 /\ y[1] = x[1])
    /\ i >= 2 /\ x[1] # "IAC" => Len(y) >= 2 /\ y[2] = x[2]

LEMMA AgreesReply ==
    ASSUME NEW x \in Seq(Bytes), NEW y \in Seq(Bytes), Agrees(y, x, Len(x))
    PROVE  SubReply(y) = SubReply(x)
  <1>1. Len(x) \in Nat /\ Len(y) \in Nat
    OBVIOUS
  <1>2. CASE Len(x) = 0
    <2>1. x = <<>> /\ y = <<>>
      BY <1>1, <1>2, EmptySeq DEF Agrees
    <2>2. QED BY <2>1
  <1>3. CASE Len(x) # 0
    <2>1. x # <<>> /\ y # <<>> /\ y[1] = x[1]
      BY <1>1, <1>3 DEF Agrees
    <2>2. x[1] = "TTYPE" => (Len(x) > 1 <=> Len(y) > 1) /\ (Len(x) > 1 => y[2] = x[2])
      BY <1>1, <1>3 DEF Agrees
    <2>3. QED BY <2>1, <2>2 DEF SubReply
  <1>4. QED BY <1>2, <1>3

\* The content of a subnegotiation.
LEMMA ReachContent ==
    ASSUME NEW x \in Seq(Bytes), Escaped(x), NEW w \in Seq(Bytes), NEW n \in Nat, NEW s,
           NEW d \in Seq(Bytes), NEW f \in Seq(Seq(Bytes)), NEW r \in Seq(Seq(Bytes)),
           Reaches(s, Plain(w, n), At("sub", "DO", <<>>, d, f, r))
    PROVE  \E y \in Seq(Bytes) : /\ Reaches(s, Plain(w \o x, n), At("sub", "DO", y, d, f, r))
                                 /\ SubReply(y) = SubReply(x)
  <1> DEFINE L == Len(x)
             u(i) == w \o SubSeq(x, 1, i)
             In(y)   == At("sub", "DO", y, d, f, r)
             Past(y) == At("subiac", "DO", y, d, f, r)
             m(b) == [byte |-> b, frame |-> n, end |-> FALSE]
  <1>1. PICK first \in SUBSET (1..(L - 1)) :
           /\ \A i \in 1..L : x[i] = "IAC" <=> i \in first \/ i - 1 \in first
           /\ \A i \in first : i + 1 \notin first
    BY DEF Escaped
  <1>2. L \in Nat /\ "IAC" \in Bytes /\ \A i \in 1..L : x[i] \in Bytes
    BY DEF Bytes
  <1>3. \A y \in Seq(Bytes) : In(y) \in States /\ Past(y) \in States
    BY DEF At, States, Positions, Verbs
  <1>4. \A i \in 0..L : u(i) \in Seq(Bytes)
    <2> SUFFICES ASSUME NEW i \in 0..L PROVE u(i) \in Seq(Bytes)
      OBVIOUS
    <2>1. SubSeq(x, 1, i) \in Seq(Bytes)
      OBVIOUS
    <2>2. QED BY <2>1
  <1>5. \A i \in 0..L : i + 1 <= L => u(i + 1) = Append(u(i), x[i + 1])
    <2> SUFFICES ASSUME NEW i \in 0..L, i + 1 <= L PROVE u(i + 1) = Append(u(i), x[i + 1])
      OBVIOUS
    <2>1. SubSeq(x, 1, i) \in Seq(Bytes) /\ SubSeq(x, 1, i + 1) = Append(SubSeq(x, 1, i), x[i + 1])
      OBVIOUS
    <2>2. QED BY <1>2, <2>1
  <1>6. u(0) = w /\ u(L) = w \o x
    <2>1. SubSeq(x, 1, 0) = <<>> /\ SubSeq(x, 1, L) = x
      OBVIOUS
    <2>2. QED BY <2>1, ConcatEmptySeq
  <1>7. /\ \A y \in Seq(Bytes) : Append(y, "IAC") \in Seq(Bytes)
        /\ \A y \in Seq(Bytes) : Parses(In(y), m("IAC"), Past(y))
        /\ \A y \in Seq(Bytes) : Parses(Past(y), m("IAC"), In(Append(y, "IAC")))
        /\ \A y \in Seq(Bytes), b \in Bytes : b # "IAC" => Parses(In(y), m(b), In(Append(y, b)))
    <2>1. \A y \in Seq(Bytes) : Append(y, "IAC") \in Seq(Bytes)
      BY <1>2
    <2>2. \A y \in Seq(Bytes) : Parses(In(y), m("IAC"), Past(y))
      BY DEF Parses, ParsesSub, At
    <2>3. \A y \in Seq(Bytes) : Parses(Past(y), m("IAC"), In(Append(y, "IAC")))
      BY DEF Parses, ParsesSubEnd, At
    <2>4. \A y \in Seq(Bytes), b \in Bytes : b # "IAC" => Parses(In(y), m(b), In(Append(y, b)))
      BY DEF Parses, ParsesSub, At
    <2>5. QED BY <2>1, <2>2, <2>3, <2>4
  <1>8. Reaches(s, Plain(u(0), n), In(<<>>)) /\ Agrees(<<>>, x, 0) /\ 0 \notin first /\ L \notin first
    <2>1. 0 \notin first /\ L \notin first
      BY <1>1, <1>2
    <2>2. Agrees(<<>>, x, 0)
      BY DEF Agrees
    <2>3. QED BY <1>6, <2>1, <2>2
  <1>9. ASSUME NEW i \in 0..L, i + 1 <= L, NEW t \in States, NEW h \in States,
               Reaches(s, Plain(u(i), n), t), Parses(t, m(x[i + 1]), h)
        PROVE  Reaches(s, Plain(u(i + 1), n), h)
    <2>1. x[i + 1] \in Bytes /\ u(i) \in Seq(Bytes)
      BY <1>2, <1>4, <1>9
    <2> HIDE DEF u
    <2>2. Reaches(s, Plain(Append(u(i), x[i + 1]), n), h)
      BY <1>9, <2>1, ReachByte
    <2>3. QED BY <1>5, <1>9, <2>2
  <1> HIDE DEF u, In, Past, m
  <1> DEFINE Way(i) == \E y \in Seq(Bytes) :
                          \/ i \notin first /\ Reaches(s, Plain(u(i), n), In(y)) /\ Agrees(y, x, i)
                          \/ i \in first /\ Reaches(s, Plain(u(i), n), Past(y)) /\ Agrees(y, x, i - 1)
             Good == {i \in Nat : i <= L => Way(i)}
  <1>10. 0 \in Good
    <2>1. <<>> \in Seq(Bytes)
      OBVIOUS
    <2>2. QED BY <1>8, <2>1
  <1>11. \A i \in Nat : i \in Good => i + 1 \in Good
    <2> HIDE DEF Way
    <2> SUFFICES ASSUME NEW i \in Nat, i + 1 <= L, Way(i) PROVE Way(i + 1)
      BY <1>2
    <2> USE DEF Way
    <2>1. PICK y \in Seq(Bytes) :
             \/ i \notin first /\ Reaches(s, Plain(u(i), n), In(y)) /\ Agrees(y, x, i)
             \/ i \in first /\ Reaches(s, Plain(u(i), n), Past(y)) /\ Agrees(y, x, i - 1)
      BY <1>2
    <2>2. i \in 0..L /\ i + 1 \in 1..L /\ (i + 1) - 1 = i
      BY <1>2
    <2>3. x[i + 1] = "IAC" <=> i + 1 \in first \/ i \in first
      BY <1>1, <2>2
    <2> HIDE DEF Good
    <2>4. CASE i \in first
      <3>1. i + 1 \notin first /\ x[i + 1] = "IAC" /\ i \in 1..L
        BY <1>1, <1>2, <2>2, <2>3, <2>4
      <3>2. Reaches(s, Plain(u(i + 1), n), In(Append(y, "IAC")))
        BY <1>3, <1>7, <1>9, <2>1, <2>2, <2>4, <3>1
      <3>3. Agrees(Append(y, "IAC"), x, i + 1)
        <4>1. Agrees(y, x, i - 1) /\ x[i] = "IAC"
          BY <1>1, <2>1, <2>4, <3>1
        <4>2. Len(Append(y, "IAC")) = Len(y) + 1 /\ Append(y, "IAC")[Len(y) + 1] = "IAC"
              /\ \A k \in 1..Len(y) : Append(y, "IAC")[k] = y[k]
          OBVIOUS
        <4>3. CASE i = 1
          BY <4>1, <4>2, <4>3 DEF Agrees
        <4>4. CASE i = 2
          BY <3>1, <4>1, <4>2, <4>4 DEF Agrees
        <4>5. CASE i > 2
          BY <4>1, <4>2, <4>5 DEF Agrees
        <4>6. QED BY <3>1, <4>3, <4>4, <4>5
      <3>4. QED BY <1>7, <3>1, <3>2, <3>3
    <2>5. CASE i \notin first /\ i + 1 \in first
      <3>1. Reaches(s, Plain(u(i + 1), n), Past(y))
        BY <1>3, <1>7, <1>9, <2>1, <2>2, <2>3, <2>5
      <3>2. QED BY <2>1, <2>2, <2>5, <3>1
    <2>6. CASE i \notin first /\ i + 1 \notin first
      <3> DEFINE b == x[i + 1]
      <3>1. b \in Bytes /\ b # "IAC"
        BY <1>2, <2>2, <2>3, <2>6
      <3>2. Append(y, b) \in Seq(Bytes)
        BY <3>1
      <3>3. Reaches(s, Plain(u(i + 1), n), In(Append(y, b)))
        BY <1>3, <1>7, <1>9, <2>1, <2>2, <2>6, <3>1, <3>2
      <3>4. Agrees(Append(y, b), x, i + 1)
        <4>1. Agrees(y, x, i)
          BY <2>1, <2>6
        <4>2. Len(Append(y, b)) = Len(y) + 1 /\ Append(y, b)[Len(y) + 1] = b
              /\ \A k \in 1..Len(y) : Append(y, b)[k] = y[k]
          OBVIOUS
        <4> HIDE DEF b
        <4>3. CASE i = 0
          BY <4>1, <4>2, <4>3 DEF Agrees, b
        <4>4. CASE i = 1
          BY <4>1, <4>2, <4>4 DEF Agrees, b
        <4>5. CASE i > 1
          BY <4>1, <4>2, <4>5 DEF Agrees
        <4>6. QED BY <4>3, <4>4, <4>5
      <3>5. QED BY <2>6, <3>2, <3>3, <3>4
    <2>7. QED BY <2>4, <2>5, <2>6
  <1>12. L \in Good
    <2> HIDE DEF Good, L
    <2>1. QED BY <1>2, <1>10, <1>11, SetInduction
  <1>13. PICK y \in Seq(Bytes) : Reaches(s, Plain(u(L), n), In(y)) /\ Agrees(y, x, L)
    BY <1>2, <1>8, <1>12
  <1>14. QED BY <1>6, <1>13, AgreesReply DEF In

LEMMA ReachSub ==
    ASSUME NEW x \in Seq(Bytes), Escaped(x), NEW n \in Nat,
           NEW d \in Seq(Bytes), NEW f \in Seq(Seq(Bytes)), NEW r \in Seq(Seq(Bytes))
    PROVE  Reaches(Between(d, f, r),
                   Plain(Append(Append(<<"IAC", "SB">> \o x, "IAC"), "SE"), n),
                   Between(d, f, r \o SubReply(x)))
  <1> DEFINE s == Between(d, f, r)
             h == At("iac", "DO", <<>>, d, f, r)
             k == At("sub", "DO", <<>>, d, f, r)
             t == Between(d, f, r \o SubReply(x))
             m(b) == [byte |-> b, frame |-> n, end |-> FALSE]
             w == <<"IAC", "SB">>
  <1>1. "IAC" \in Bytes /\ "SB" \in Bytes /\ "SE" \in Bytes
    BY DEF Bytes
  <1>2. h \in States /\ Reaches(s, Plain(<<"IAC">>, n), h)
    BY ReachCommand
  <1>3. k \in States
    BY DEF At, States, Positions, Verbs
  <1>4. t \in States
    <2>1. r \o SubReply(x) \in Seq(Seq(Bytes))
      BY SubReplyType
    <2>2. QED BY <2>1, BetweenType
  <1>5. Parses(h, m("SB"), k)
    BY DEF Parses, ParsesCommand, At
  <1>6. <<"IAC">> \in Seq(Bytes) /\ w \in Seq(Bytes) /\ w = Append(<<"IAC">>, "SB")
    BY <1>1, AppendOne, AppendTwo
  <1>7. Reaches(s, Plain(w, n), k)
    <2> HIDE DEF s, h, k, w
    <2>1. QED BY <1>1, <1>2, <1>3, <1>5, <1>6, ReachByte
  <1>8. PICK y \in Seq(Bytes) : /\ Reaches(s, Plain(w \o x, n), At("sub", "DO", y, d, f, r))
                                /\ SubReply(y) = SubReply(x)
    <2>1. Reaches(s, Plain(w, n), At("sub", "DO", <<>>, d, f, r))
      BY <1>7
    <2> HIDE DEF s, w
    <2>2. w \in Seq(Bytes)
      BY <1>6
    <2>3. QED BY <2>1, <2>2, ReachContent
  <1> DEFINE a == At("sub", "DO", y, d, f, r)
             b == At("subiac", "DO", y, d, f, r)
  <1>9. a \in States /\ b \in States
    BY DEF At, States, Positions, Verbs
  <1>10. Parses(a, m("IAC"), b)
    BY DEF Parses, ParsesSub, At
  <1>11. Parses(b, m("SE"), t)
    <2>1. b.replies \o SubReply(b.sub) = r \o SubReply(x)
      BY <1>8 DEF At
    <2>2. t = At("data", b.verb, <<>>, b.buf, b.frames, r \o SubReply(x))
      BY DEF At, Between
    <2>3. b.pos = "subiac" /\ ~m("SE").end /\ m("SE").byte = "SE"
      BY DEF At
    <2> HIDE DEF b, t, m
    <2>4. QED BY <2>1, <2>2, <2>3 DEF Parses, ParsesSubEnd
  <1>12. w \o x \in Seq(Bytes) /\ Append(w \o x, "IAC") \in Seq(Bytes)
    BY <1>1, <1>6
  <1> HIDE DEF s, h, k, t, w, a, b
  <1>13. Reaches(s, Plain(Append(w \o x, "IAC"), n), b)
    BY <1>1, <1>8, <1>9, <1>10, <1>12, ReachByte DEF a
  <1>14. Reaches(s, Plain(Append(Append(w \o x, "IAC"), "SE"), n), t)
    BY <1>1, <1>4, <1>9, <1>11, <1>12, <1>13, ReachByte
  <1>15. QED BY <1>14 DEF s, t, w

LEMMA CommandParts ==
    ASSUME NEW c \in Commands
    PROVE  /\ c \in Seq(Bytes) /\ Len(c) >= 2 /\ c[1] = "IAC" /\ c[2] \in Bytes
           /\ IsCommand(c)
  BY CommandsType DEF IsCommand

LEMMA AnswerType ==
    ASSUME NEW c \in Commands
    PROVE  Answer(c) \in Seq(Seq(Bytes))
  <1>1. <<>> \in Seq(Seq(Bytes))
    OBVIOUS
  <1>2. c[2] \in Verbs => c[3] \in Bytes
    BY CommandParts DEF IsCommand, Verbs
  <1>3. CASE c[2] \in Verbs
    BY <1>2, <1>3, OptionReplyType DEF Answer, Verbs
  <1>4. CASE c[2] = "SB"
    BY <1>4, SubReplyType DEF Answer, Verbs
  <1>5. CASE c[2] \notin Verbs \cup {"SB"}
    BY <1>1, <1>5 DEF Answer
  <1>6. QED BY <1>3, <1>4, <1>5

LEMMA ReachAnswer ==
    ASSUME NEW c \in Commands, NEW n \in Nat
    PROVE  ReachesOver(c, n)
  <1>1. c \in Seq(Bytes) /\ Len(c) >= 2 /\ c[1] = "IAC" /\ c[2] \in Bytes /\ IsCommand(c)
    BY CommandParts
  <1>2. CASE c[2] \in Verbs
    <2>1. Len(c) = 3 /\ c[3] # "IAC" /\ c[3] \in Bytes
      BY <1>1, <1>2 DEF IsCommand, Verbs
    <2>2. c = <<"IAC", c[2], c[3]>>
      BY <1>1, <2>1
    <2>3. ReachesOver(<<"IAC", c[2], c[3]>>, n)
      BY <1>2, <2>1, ReachOption
    <2>4. QED BY <2>2, <2>3
  <1>3. CASE c[2] = "SB"
    <2> DEFINE x == SubSeq(c, 3, Len(c) - 2)
               l == Len(c)
    <2>1. l \in Nat /\ l >= 4 /\ c[l - 1] = "IAC" /\ c[l] = "SE" /\ Escaped(x)
      BY <1>1, <1>3 DEF IsCommand, Verbs
    <2>2. /\ x \in Seq(Bytes) /\ Len(x) = l - 4
          /\ \A i \in 1..(l - 4) : x[i] = c[i + 2]
      <3>1. /\ Len(x) = (l - 2) - 3 + 1 /\ x \in Seq(Bytes)
            /\ \A i \in 1..((l - 2) - 3 + 1) : x[i] = c[3 + i - 1]
        <4>1. 3 \in Int /\ l - 2 \in Int /\ \A i \in 3..(l - 2) : c[i] \in Bytes
          BY <1>1, <2>1
        <4>2. /\ x \in Seq(Bytes) /\ Len(x) = IF 3 <= l - 2 THEN (l - 2) - 3 + 1 ELSE 0
              /\ \A i \in 1..((l - 2) - 3 + 1) : x[i] = c[3 + i - 1]
          BY <4>1, SubSeqProperties
        <4> HIDE DEF x, l
        <4>3. QED BY <2>1, <4>2
      <3>2. (l - 2) - 3 + 1 = l - 4 /\ \A i \in 1..(l - 4) : 3 + i - 1 = i + 2
        BY <2>1
      <3> HIDE DEF x, l
      <3>3. QED BY <3>1, <3>2
    <2>3. Answer(c) = SubReply(x)
      BY <1>3 DEF Answer, Verbs
    <2> DEFINE w == <<"IAC", "SB">>
               e == Append(w \o x, "IAC")
               g == Append(e, "SE")
    <2>4. "IAC" \in Bytes /\ "SB" \in Bytes /\ "SE" \in Bytes
      BY DEF Bytes
    <2>5. w \in Seq(Bytes) /\ Len(w) = 2 /\ w[1] = "IAC" /\ w[2] = "SB"
      BY <2>4
    <2> HIDE DEF x, l, w
    <2>6. /\ w \o x \in Seq(Bytes) /\ Len(w \o x) = l - 2
          /\ \A i \in 1..(l - 2) : (w \o x)[i] = IF i <= 2 THEN w[i] ELSE x[i - 2]
      <3>1. /\ w \o x \in Seq(Bytes) /\ Len(w \o x) = Len(w) + Len(x)
            /\ \A i \in 1..(Len(w) + Len(x)) :
                  (w \o x)[i] = IF i <= Len(w) THEN w[i] ELSE x[i - Len(w)]
        <4>1. w \in Seq(Bytes) /\ x \in Seq(Bytes)
          BY <2>2, <2>5
        <4>2. QED BY <4>1, ConcatProperties, Zenon
      <3>2. 2 + (l - 4) = l - 2
        BY <2>1
      <3>3. QED BY <2>2, <2>5, <3>1, <3>2
    <2>7. /\ e \in Seq(Bytes) /\ Len(e) = l - 1 /\ e[l - 1] = "IAC"
          /\ \A i \in 1..(l - 2) : e[i] = (w \o x)[i]
      BY <2>1, <2>4, <2>6
    <2> HIDE DEF e
    <2>8. /\ g \in Seq(Bytes) /\ Len(g) = l /\ g[l] = "SE"
          /\ \A i \in 1..(l - 1) : g[i] = e[i]
      BY <2>1, <2>4, <2>7
    <2> HIDE DEF g
    <2>9. \A i \in 1..l : c[i] = g[i]
      <3> SUFFICES ASSUME NEW i \in 1..l PROVE c[i] = g[i]
        OBVIOUS
      <3>1. CASE i = l
        BY <2>1, <2>8, <3>1
      <3>2. CASE i = l - 1
        BY <2>1, <2>7, <2>8, <3>2
      <3>3. CASE i < l - 1
        <4>1. i \in 1..(l - 2) /\ i \in 1..(l - 1)
          BY <2>1, <3>3
        <4>2. g[i] = IF i <= 2 THEN w[i] ELSE x[i - 2]
          BY <2>6, <2>7, <2>8, <4>1
        <4>3. i > 2 => i - 2 \in 1..(l - 4) /\ (i - 2) + 2 = i
          BY <2>1, <4>1
        <4>4. i <= 2 => i = 1 \/ i = 2
          OBVIOUS
        <4>5. QED BY <1>1, <1>3, <2>2, <2>5, <4>2, <4>3, <4>4
      <3>4. QED BY <2>1, <3>1, <3>2, <3>3
    <2>10. c = g
      <3>1. Len(c) = l
        BY DEF l
      <3>2. QED BY <1>1, <2>8, <2>9, <3>1, SeqEqual
    <2>11. c = Append(Append(<<"IAC", "SB">> \o x, "IAC"), "SE")
      BY <2>10 DEF g, e, w
    <2>12. ASSUME NEW d \in Seq(Bytes), NEW f \in Seq(Seq(Bytes)), NEW r \in Seq(Seq(Bytes))
           PROVE  Reaches(Between(d, f, r), Plain(c, n), Between(d, f, r \o Answer(c)))
      <3>1. Reaches(Between(d, f, r),
                    Plain(Append(Append(<<"IAC", "SB">> \o x, "IAC"), "SE"), n),
                    Between(d, f, r \o SubReply(x)))
        BY <2>1, <2>2, ReachSub
      <3>2. QED BY <2>3, <2>11, <3>1
    <2>13. QED BY <2>12 DEF ReachesOver
  <1>4. CASE c[2] \notin Verbs \cup {"SB"}
    <2>1. Len(c) = 2 /\ c[2] \in Bytes \ (Verbs \cup {"IAC", "SB", "EOR"})
      BY <1>1, <1>4 DEF IsCommand
    <2>2. c = <<"IAC", c[2]>>
      BY <1>1, <2>1
    <2>3. ReachesOver(<<"IAC", c[2]>>, n)
      BY <2>1, ReachOther
    <2>4. QED BY <2>2, <2>3
  <1>5. QED BY <1>2, <1>3, <1>4

-----------------------------------------------------------------------------
\* Frames.

\* What FlattenSeq() makes of units, unit by unit.
Flattens(F, units) ==
    /\ F \in [1..Len(units) -> Seq(Bytes)]
    /\ F[1] = units[1]
    /\ \A i \in 2..Len(units) : F[i] = F[i - 1] \o units[i]
    /\ FlattenSeq(units) = F[Len(units)]

LEMMA FlattenParts ==
    ASSUME NEW units \in Seq(Seq(Bytes)), Len(units) >= 1
    PROVE  \E F : Flattens(F, units)
  <1> DEFINE n == Len(units)
             Way(m, F) == /\ F \in [1..m -> Seq(Bytes)] /\ F[1] = units[1]
                          /\ \A i \in 2..m : F[i] = F[i - 1] \o units[i]
             Made(m) == \E F : Way(m, F)
             Good == {m \in Nat : 1 <= m /\ m <= n => Made(m)}
  <1>1. n \in Nat /\ n >= 1 /\ \A i \in 1..n : units[i] \in Seq(Bytes)
    OBVIOUS
  <1>2. 0 \in Good
    OBVIOUS
  <1> HIDE DEF n
  <1>3. \A m \in Nat : m \in Good => m + 1 \in Good
    <2> HIDE DEF Made
    <2> SUFFICES ASSUME NEW m \in Nat, m + 1 <= n, 1 <= m /\ m <= n => Made(m)
                 PROVE  Made(m + 1)
      OBVIOUS
    <2> USE DEF Made
    <2> HIDE DEF Way
    <2>1. CASE m = 0
      <3> DEFINE G == [i \in 1..1 |-> units[1]]
      <3>1. G \in [1..1 -> Seq(Bytes)] /\ G[1] = units[1]
        BY <1>1
      <3> HIDE DEF G
      <3>2. \A i \in 2..1 : FALSE
        OBVIOUS
      <3>3. Way(1, G)
        BY <3>1, <3>2 DEF Way
      <3>4. m + 1 = 1
        BY <2>1
      <3>5. QED BY <3>3, <3>4
    <2>2. CASE m >= 1
      <3>1. PICK F : Way(m, F)
        <4>1. 1 <= m /\ m <= n
          BY <1>1, <2>2
        <4>2. QED BY <4>1
      <3> DEFINE G == [i \in 1..(m + 1) |-> IF i <= m THEN F[i] ELSE F[m] \o units[m + 1]]
      <3>2. F \in [1..m -> Seq(Bytes)] /\ F[1] = units[1] /\ \A i \in 2..m : F[i] = F[i - 1] \o units[i]
        BY <3>1 DEF Way
      <3>3. F[m] \o units[m + 1] \in Seq(Bytes)
        <4>1. F[m] \in Seq(Bytes) /\ units[m + 1] \in Seq(Bytes)
          BY <1>1, <2>2, <3>2
        <4>2. QED BY <4>1
      <3>4. G \in [1..(m + 1) -> Seq(Bytes)]
        <4>1. \A i \in 1..(m + 1) : i <= m => F[i] \in Seq(Bytes)
          BY <3>2
        <4>2. QED BY <3>3, <4>1
      <3>5. /\ \A i \in 1..m : G[i] = F[i]
            /\ G[m + 1] = F[m] \o units[m + 1]
        <4>1. \A i \in 1..m : i \in 1..(m + 1) /\ i <= m
          OBVIOUS
        <4>2. m + 1 \in 1..(m + 1) /\ ~(m + 1 <= m)
          OBVIOUS
        <4>3. QED BY <4>1, <4>2
      <3> HIDE DEF G
      <3>6. \A i \in 2..(m + 1) : G[i] = G[i - 1] \o units[i]
        <4> SUFFICES ASSUME NEW i \in 2..(m + 1) PROVE G[i] = G[i - 1] \o units[i]
          OBVIOUS
        <4>1. i - 1 \in 1..m
          OBVIOUS
        <4>2. G[i - 1] = F[i - 1]
          BY <3>5, <4>1
        <4>3. CASE i = m + 1
          <5>1. i - 1 = m
            BY <4>3
          <5>2. QED BY <3>5, <4>2, <4>3, <5>1
        <4>4. CASE i # m + 1
          <5>1. i \in 2..m /\ i \in 1..m
            BY <4>4
          <5>2. QED BY <3>2, <3>5, <4>2, <5>1
        <4>5. QED BY <4>3, <4>4
      <3>7. G[1] = units[1]
        BY <2>2, <3>2, <3>5
      <3>8. QED BY <3>4, <3>6, <3>7 DEF Way
    <2>3. QED BY <2>1, <2>2
  <1>4. n \in Good
    <2> HIDE DEF Good
    <2>1. QED BY <1>1, <1>2, <1>3, SetInduction
  <1>5. PICK F : Way(n, F)
    <2> HIDE DEF Way
    <2>1. QED BY <1>1, <1>4
  <1> DEFINE G == [i \in 1..n |-> IF i = 1 THEN units[i] ELSE F[i - 1] \o units[i]]
  <1>6. F = G
    <2>1. \A i \in 1..n : F[i] = G[i]
      <3> SUFFICES ASSUME NEW i \in 1..n PROVE F[i] = G[i]
        OBVIOUS
      <3>1. i = 1 \/ i \in 2..n
        BY <1>1
      <3>2. QED BY <1>5, <3>1
    <2>2. F \in [1..n -> Seq(Bytes)]
      BY <1>5
    <2>3. G = [i \in 1..n |-> G[i]] /\ F = [i \in 1..n |-> F[i]]
      BY <2>2
    <2> HIDE DEF G
    <2>4. QED BY <2>1, <2>3
  <1> DEFINE H == CHOOSE f : f = [i \in 1..n |-> IF i = 1 THEN units[i] ELSE f[i - 1] \o units[i]]
  <1>7. H = [i \in 1..n |-> IF i = 1 THEN units[i] ELSE H[i - 1] \o units[i]]
    BY <1>6, Zenon
  <1>8. FlattenSeq(units) = H[n]
    BY <1>1 DEF FlattenSeq, n
  <1> DEFINE Same == {i \in Nat : 1 <= i /\ i <= n => H[i] = F[i]}
  <1> HIDE DEF H, G
  <1>9. 0 \in Same
    OBVIOUS
  <1>10. \A i \in Nat : i \in Same => i + 1 \in Same
    <2> SUFFICES ASSUME NEW i \in Nat, 1 <= i /\ i <= n => H[i] = F[i], i + 1 <= n
                 PROVE  H[i + 1] = F[i + 1]
      OBVIOUS
    <2>1. i + 1 \in 1..n
      BY <1>1
    <2>2. CASE i = 0
      <3>1. H[i + 1] = units[1]
        BY <1>7, <2>1, <2>2
      <3>2. F[i + 1] = units[1]
        BY <1>5, <2>2
      <3>3. QED BY <3>1, <3>2
    <2>3. CASE i >= 1
      <3>1. i + 1 # 1 /\ (i + 1) - 1 = i /\ i + 1 \in 2..n /\ i <= n
        BY <1>1, <2>3
      <3>2. H[i + 1] = H[i] \o units[i + 1]
        <4>1. H[i + 1] = IF i + 1 = 1 THEN units[i + 1] ELSE H[(i + 1) - 1] \o units[i + 1]
          BY <1>7, <2>1
        <4>2. QED BY <3>1, <4>1
      <3>3. F[i + 1] = F[i] \o units[i + 1]
        <4>1. F[i + 1] = F[(i + 1) - 1] \o units[i + 1]
          BY <1>5, <3>1
        <4>2. QED BY <3>1, <4>1
      <3>4. QED BY <2>3, <3>1, <3>2, <3>3
    <2>4. QED BY <2>2, <2>3
  <1>11. n \in Same
    <2> HIDE DEF Same
    <2>1. QED BY <1>1, <1>9, <1>10, SetInduction
  <1>12. FlattenSeq(units) = F[n]
    BY <1>1, <1>8, <1>11
  <1>13. QED BY <1>5, <1>12 DEF Flattens, n

\* Unit by unit the parser reads what they are flattened to.
LEMMA ReachUnits ==
    ASSUME NEW units \in Seq(Seq(Bytes)), NEW F, Flattens(F, units), NEW n \in Nat,
           NEW m \in 1..Len(units), NEW st \in [0..m -> States],
           \A k \in 1..m : Reaches(st[k - 1], Plain(units[k], n), st[k])
    PROVE  F[m] \in Seq(Bytes) /\ Reaches(st[0], Plain(F[m], n), st[m])
  <1>1. /\ F \in [1..Len(units) -> Seq(Bytes)] /\ F[1] = units[1]
        /\ \A i \in 2..Len(units) : F[i] = F[i - 1] \o units[i]
    BY DEF Flattens
  <1>2. m \in Nat /\ m >= 1 /\ m <= Len(units) /\ Len(units) \in Nat
    OBVIOUS
  <1>3. \A i \in 1..m : units[i] \in Seq(Bytes)
    OBVIOUS
  <1> DEFINE Way(k) == Reaches(st[0], Plain(F[k], n), st[k])
             Good == {k \in Nat : 1 <= k /\ k <= m => Way(k)}
  <1>4. 0 \in Good
    OBVIOUS
  <1>5. \A k \in Nat : k \in Good => k + 1 \in Good
    <2> HIDE DEF Way
    <2> SUFFICES ASSUME NEW k \in Nat, k + 1 <= m, 1 <= k /\ k <= m => Way(k)
                 PROVE  Way(k + 1)
      OBVIOUS
    <2>1. k + 1 \in 1..m /\ (k + 1) - 1 = k
      BY <1>2
    <2>2. Reaches(st[k], Plain(units[k + 1], n), st[k + 1])
      <3>1. Reaches(st[(k + 1) - 1], Plain(units[k + 1], n), st[k + 1])
        BY <2>1
      <3>2. QED BY <2>1, <3>1
    <2>3. CASE k = 0
      <3>1. k + 1 = 1 /\ F[k + 1] = units[k + 1]
        BY <1>1, <2>3
      <3>2. QED BY <2>2, <2>3, <3>1 DEF Way
    <2>4. CASE k >= 1
      <3>1. Way(k) /\ k \in 1..Len(units) /\ k + 1 \in 2..Len(units)
        BY <1>2, <2>1, <2>4
      <3>2. F[k + 1] = F[k] \o units[k + 1]
        <4>1. F[k + 1] = F[(k + 1) - 1] \o units[k + 1]
          BY <1>1, <3>1
        <4>2. QED BY <2>1, <4>1
      <3>3. F[k] \in Seq(Bytes) /\ units[k + 1] \in Seq(Bytes)
        BY <1>1, <1>3, <2>1, <3>1
      <3>4. Reaches(st[0], Plain(F[k], n), st[k])
        BY <3>1 DEF Way
      <3>5. Reaches(st[0], Plain(F[k], n) \o Plain(units[k + 1], n), st[k + 1])
        BY <2>2, <3>3, <3>4, PlainType, ReachCat
      <3>6. Reaches(st[0], Plain(F[k + 1], n), st[k + 1])
        <4>1. Plain(F[k] \o units[k + 1], n) = Plain(F[k], n) \o Plain(units[k + 1], n)
          BY <3>3, PlainCat, Zenon
        <4>2. QED BY <3>2, <3>5, <4>1, Zenon
      <3>7. QED BY <3>6 DEF Way
    <2>5. QED BY <2>3, <2>4
  <1>6. m \in Good
    <2> HIDE DEF Good
    <2>1. QED BY <1>2, <1>4, <1>5, SetInduction
  <1>7. Way(m)
    <2> HIDE DEF Way
    <2>1. QED BY <1>2, <1>6
  <1>8. F[m] \in Seq(Bytes)
    BY <1>1
  <1>9. QED BY <1>7, <1>8

\* All bytes of a frame but the last are plain.
LEMMA MarkedEnd ==
    ASSUME NEW units, NEW u \in Seq(Bytes), NEW b \in Bytes, NEW n \in Nat, n > 0,
           FlattenSeq(units) = Append(u, b)
    PROVE  Marked(units, n) = Append(Plain(u, n), [byte |-> b, frame |-> n, end |-> TRUE])
  <1> DEFINE w == Append(u, b)
             l == Len(u)
             e == [byte |-> b, frame |-> n, end |-> TRUE]
             x == Marked(units, n)
             y == Append(Plain(u, n), e)
  <1>1. l \in Nat /\ Len(w) = l + 1 /\ w[l + 1] = b /\ \A i \in 1..l : w[i] = u[i]
    OBVIOUS
  <1>2. \A i \in 1..(l + 1) : w[i] \in Bytes
    OBVIOUS
  <1>3. x = [i \in 1..(l + 1) |-> [byte |-> w[i], frame |-> n, end |-> i = l + 1]]
    <2>1. x = [i \in 1..Len(w) |-> [byte |-> w[i], frame |-> n, end |-> n > 0 /\ i = Len(w)]]
      BY DEF Marked
    <2> HIDE DEF w, x
    <2>2. QED BY <1>1, <2>1
  <1> HIDE DEF w
  <1>4. x \in Seq(Marks) /\ Len(x) = l + 1
    <2> DEFINE g == [i \in 1..(l + 1) |-> [byte |-> w[i], frame |-> n, end |-> i = l + 1]]
    <2>1. l + 1 \in Nat /\ g \in [1..(l + 1) -> Marks]
      BY <1>1, <1>2 DEF Marks
    <2> HIDE DEF g
    <2>2. g \in Seq(Marks) /\ Len(g) = l + 1
      BY <2>1, FunctionIsSequence
    <2>3. QED BY <1>3, <2>2 DEF g
  <1>5. e \in Marks
    BY DEF Marks
  <1>6. Plain(u, n) \in Seq(Marks) /\ Len(Plain(u, n)) = l
    BY PlainType
  <1>7. /\ y \in Seq(Marks) /\ Len(y) = l + 1 /\ y[l + 1] = e
        /\ \A i \in 1..l : y[i] = Plain(u, n)[i]
    <2> DEFINE p == Plain(u, n)
    <2>1. p \in Seq(Marks) /\ Len(p) = l
      BY <1>6
    <2> HIDE DEF p, e, l
    <2>2. /\ Append(p, e) \in Seq(Marks) /\ Len(Append(p, e)) = l + 1 /\ Append(p, e)[l + 1] = e
          /\ \A i \in 1..l : Append(p, e)[i] = p[i]
      BY <1>5, <2>1
    <2>3. QED BY <2>2 DEF p
  <1>8. \A i \in 1..(l + 1) : x[i] = y[i]
    <2> SUFFICES ASSUME NEW i \in 1..(l + 1) PROVE x[i] = y[i]
      OBVIOUS
    <2>1. x[i] = [byte |-> w[i], frame |-> n, end |-> i = l + 1]
      BY <1>3
    <2>2. CASE i = l + 1
      <3>1. x[i] = e
        BY <1>1, <2>1, <2>2
      <3>2. QED BY <1>7, <2>2, <3>1
    <2>3. CASE i # l + 1
      <3>1. i \in 1..l
        BY <1>1, <2>3
      <3>2. Plain(u, n)[i] = [byte |-> u[i], frame |-> n, end |-> FALSE]
        BY <3>1 DEF Plain
      <3>3. w[i] = u[i] /\ y[i] = Plain(u, n)[i]
        BY <1>1, <1>7, <3>1
      <3>4. x[i] = [byte |-> u[i], frame |-> n, end |-> FALSE]
        BY <2>1, <2>3, <3>3
      <3>5. QED BY <3>2, <3>3, <3>4
    <2>4. QED BY <2>2, <2>3
  <1> HIDE DEF x, y
  <1>9. x = y
    BY <1>4, <1>7, <1>8, SeqEqual
  <1>10. QED BY <1>9 DEF x, y

LEMMA MarkedCommand ==
    ASSUME NEW c \in Seq(Bytes)
    PROVE  Marked(<<c>>, 0) = Plain(c, 0)
  <1> DEFINE units == <<c>>
  <1>1. units \in Seq(Seq(Bytes)) /\ Len(units) = 1 /\ units[1] = c
    OBVIOUS
  <1> HIDE DEF units
  <1>2. PICK F : Flattens(F, units)
    <2>1. Len(units) >= 1
      BY <1>1
    <2>2. QED BY <1>1, <2>1, FlattenParts
  <1>3. FlattenSeq(units) = c
    BY <1>1, <1>2 DEF Flattens
  <1>4. Marked(units, 0) = [i \in 1..Len(c) |-> [byte |-> c[i], frame |-> 0, end |-> FALSE]]
    <2>1. Marked(units, 0)
             = [i \in 1..Len(c) |-> [byte |-> c[i], frame |-> 0, end |-> 0 > 0 /\ i = Len(c)]]
      BY <1>3 DEF Marked
    <2>2. \A i \in 1..Len(c) : (0 > 0 /\ i = Len(c)) = FALSE
      OBVIOUS
    <2>3. QED BY <2>1, <2>2
  <1>5. QED BY <1>4 DEF units, Plain

LEMMA ConcatTwo ==
    ASSUME NEW S, NEW x \in Seq(S), NEW a \in S, NEW b \in S
    PROVE  Append(x, a) \in Seq(S) /\ x \o <<a, b>> = Append(Append(x, a), b)
  <1> DEFINE y == <<a, b>>
             p == x \o y
             q == Append(x, a)
             z == Append(q, b)
             l == Len(x)
  <1>1. l \in Nat /\ y \in Seq(S) /\ Len(y) = 2 /\ y[1] = a /\ y[2] = b
    OBVIOUS
  <1> HIDE DEF y
  <1>2. /\ p \in Seq(S) /\ Len(p) = Len(x) + Len(y)
        /\ \A i \in 1..(Len(x) + Len(y)) : p[i] = IF i <= Len(x) THEN x[i] ELSE y[i - Len(x)]
    BY <1>1, ConcatProperties, Zenon
  <1>3. q \in Seq(S) /\ Len(q) = l + 1 /\ q[l + 1] = a /\ \A i \in 1..l : q[i] = x[i]
    OBVIOUS
  <1> HIDE DEF q
  <1>4. /\ z \in Seq(S) /\ Len(z) = l + 2 /\ z[l + 2] = b
        /\ \A i \in 1..(l + 1) : z[i] = q[i]
    BY <1>1, <1>3
  <1>5. p \in Seq(S) /\ Len(p) = l + 2 /\ \A i \in 1..(l + 2) : p[i] = IF i <= l THEN x[i] ELSE y[i - l]
    BY <1>1, <1>2
  <1> HIDE DEF z, p, l
  <1>6. \A i \in 1..(l + 2) : p[i] = z[i]
    <2> SUFFICES ASSUME NEW i \in 1..(l + 2) PROVE p[i] = z[i]
      OBVIOUS
    <2>1. i \in 1..l \/ i = l + 1 \/ i = l + 2
      BY <1>1
    <2>2. i = l + 1 => i - l = 1 /\ ~(i <= l)
      BY <1>1
    <2>3. i = l + 2 => i - l = 2 /\ ~(i <= l)
      BY <1>1
    <2>4. i \in 1..l => i <= l /\ i \in 1..(l + 1)
      BY <1>1
    <2>5. i = l + 1 => i \in 1..(l + 1)
      BY <1>1
    <2>6. QED BY <1>1, <1>3, <1>4, <1>5, <2>1, <2>2, <2>3, <2>4, <2>5
  <1>7. p = z
    BY <1>4, <1>5, <1>6, SeqEqual
  <1>8. QED BY <1>3, <1>7 DEF p, y, q, z

\* A frame of m units and its end.
LEMMA ReachFrame ==
    ASSUME NEW units \in Seq(Seq(Bytes)), NEW m \in Nat, m >= 1, Len(units) = m + 1,
           units[m + 1] = <<"IAC", "EOR">>,
           NEW st \in [0..m -> States],
           NEW p \in Seq(Bytes), p # <<>>, NEW f \in Seq(Seq(Bytes)), NEW r \in Seq(Seq(Bytes)),
           st[m] = Between(p, f, r),
           \A k \in 1..m : Reaches(st[k - 1], Plain(units[k], Len(f) + 1), st[k])
    PROVE  /\ Marked(units, Len(f) + 1) \in Seq(Marks)
           /\ Reaches(st[0], Marked(units, Len(f) + 1), Between(<<>>, Append(f, p), r))
  <1> DEFINE n == Len(f) + 1
  <1>1. n \in Nat /\ n > 0
    OBVIOUS
  <1>2. PICK F : Flattens(F, units)
    <2>1. Len(units) >= 1
      OBVIOUS
    <2>2. QED BY <2>1, FlattenParts
  <1>3. F[m] \in Seq(Bytes) /\ Reaches(st[0], Plain(F[m], n), st[m])
    <2>1. m \in 1..Len(units) /\ n \in Nat
      BY <1>1
    <2>2. \A k \in 1..m : Reaches(st[k - 1], Plain(units[k], n), st[k])
      OBVIOUS
    <2> HIDE DEF n
    <2>3. QED BY <1>2, <2>1, <2>2, ReachUnits
  <1>4. FlattenSeq(units) = F[m] \o <<"IAC", "EOR">>
    <2>1. m + 1 \in 2..Len(units) /\ (m + 1) - 1 = m
      OBVIOUS
    <2>2. F[m + 1] = F[(m + 1) - 1] \o units[m + 1]
      BY <1>2, <2>1 DEF Flattens
    <2>3. FlattenSeq(units) = F[m + 1]
      BY <1>2 DEF Flattens
    <2>4. QED BY <2>1, <2>2, <2>3
  <1> DEFINE u == Append(F[m], "IAC")
  <1>5. "IAC" \in Bytes /\ "EOR" \in Bytes
    BY DEF Bytes
  <1>6. u \in Seq(Bytes) /\ F[m] \o <<"IAC", "EOR">> = Append(u, "EOR")
    <2>1. \A x \in Seq(Bytes) : /\ Append(x, "IAC") \in Seq(Bytes)
                               /\ x \o <<"IAC", "EOR">> = Append(Append(x, "IAC"), "EOR")
      BY <1>5, ConcatTwo
    <2>2. QED BY <1>3, <2>1
  <1> DEFINE e == [byte |-> "EOR", frame |-> n, end |-> TRUE]
             a == Between(p, f, r)
             b == At("iac", "DO", <<>>, p, f, r)
             c == Between(<<>>, Append(f, p), r)
  <1>7. a \in States /\ b \in States /\ c \in States
    <2>1. Append(f, p) \in Seq(Seq(Bytes)) /\ <<>> \in Seq(Bytes)
      OBVIOUS
    <2>2. QED BY <2>1, BetweenType DEF At, States, Positions, Verbs
  <1>8. Parses(a, [byte |-> "IAC", frame |-> n, end |-> FALSE], b)
    BY DEF Parses, ParsesData, At, Between
  <1>9. Parses(b, e, c)
    BY DEF Parses, ParsesEnd, At, Between
  <1>10. e \in Marks
    BY <1>1, <1>5 DEF Marks
  <1> HIDE DEF n, u, e, a, b, c
  <1>11. Reaches(st[0], Plain(u, n), b)
    <2>1. st[m] = a
      BY DEF a
    <2>2. Reaches(st[0], Plain(F[m], n), a)
      BY <1>3, <2>1
    <2>3. QED BY <1>1, <1>3, <1>5, <1>7, <1>8, <2>2, ReachByte DEF u
  <1>12. Reaches(b, <<e>>, c)
    BY <1>7, <1>9, ReachOne
  <1>13. Plain(u, n) \in Seq(Marks) /\ <<e>> \in Seq(Marks)
    BY <1>1, <1>6, <1>10, PlainType
  <1>14. Reaches(st[0], Plain(u, n) \o <<e>>, c)
    BY <1>11, <1>12, <1>13, ReachCat
  <1>15. Marked(units, n) = Append(Plain(u, n), e)
    <2>1. FlattenSeq(units) = Append(u, "EOR")
      BY <1>4, <1>6
    <2>2. QED BY <1>1, <1>5, <1>6, <2>1, MarkedEnd DEF e
  <1>16. Append(Plain(u, n), e) = Plain(u, n) \o <<e>> /\ Append(Plain(u, n), e) \in Seq(Marks)
    BY <1>10, <1>13
  <1>17. QED BY <1>14, <1>15, <1>16 DEF n, c

LEMMA PayloadParts ==
    ASSUME NEW p \in Payloads
    PROVE  p \in Seq(Bytes) /\ Len(p) \in Nat /\ Len(p) >= 1 /\ p # <<>> /\ p[1] # "IAC"
  <1>1. p \in Seq(Bytes) /\ p # <<>> /\ p[1] # "IAC"
    BY PayloadsType
  <1>2. QED BY <1>1, EmptySeq

\* write_frame() makes of a payload a unit for each of its bytes and one more.
LEMMA EncodedParts ==
    ASSUME NEW p \in Payloads
    PROVE  /\ Encoded(p) \in Seq(Seq(Bytes)) /\ Len(Encoded(p)) = Len(p) + 1
           /\ \A i \in 1..Len(p) : Encoded(p)[i] = Doubled(p[i])
           /\ Encoded(p)[Len(p) + 1] = <<"IAC", "EOR">>
  <1> DEFINE l == Len(p)
             e == <<<<"IAC", "EOR">>>>
             d == [i \in 1..l |-> Doubled(p[i])]
             x == d \o e
  <1>1. l \in Nat /\ \A i \in 1..l : p[i] \in Bytes
    BY PayloadParts
  <1>2. \A b \in Bytes : Doubled(b) \in Seq(Bytes)
    BY DEF Doubled
  <1>3. d \in [1..l -> Seq(Bytes)]
    BY <1>1, <1>2
  <1>4. \A i \in 1..l : d[i] = Doubled(p[i])
    OBVIOUS
  <1>5. e \in Seq(Seq(Bytes)) /\ Len(e) = 1 /\ e[1] = <<"IAC", "EOR">>
    <2>1. <<"IAC", "EOR">> \in Seq(Bytes)
      BY DEF Bytes
    <2>2. QED BY <2>1
  <1>6. Encoded(p) = x
    BY DEF Encoded
  <1> HIDE DEF d, e, l
  <1>7. d \in Seq(Seq(Bytes)) /\ Len(d) = l
    BY <1>1, <1>3, FunctionIsSequence
  <1>8. /\ x \in Seq(Seq(Bytes)) /\ Len(x) = Len(d) + Len(e)
        /\ \A i \in 1..(Len(d) + Len(e)) : x[i] = IF i <= Len(d) THEN d[i] ELSE e[i - Len(d)]
    BY <1>5, <1>7, ConcatProperties, Zenon
  <1> HIDE DEF x
  <1>9. x \in Seq(Seq(Bytes)) /\ Len(x) = l + 1
        /\ \A i \in 1..(l + 1) : x[i] = IF i <= l THEN d[i] ELSE e[i - l]
    BY <1>5, <1>7, <1>8
  <1>10. /\ \A i \in 1..l : i \in 1..(l + 1) /\ i <= l
         /\ l + 1 \in 1..(l + 1) /\ ~(l + 1 <= l) /\ (l + 1) - l = 1
    BY <1>1
  <1>11. \A i \in 1..l : x[i] = Doubled(p[i])
    BY <1>4, <1>9, <1>10
  <1>12. x[l + 1] = <<"IAC", "EOR">>
    BY <1>5, <1>9, <1>10
  <1>13. QED BY <1>6, <1>9, <1>11, <1>12 DEF l

\* What is read of a payload after k of its bytes.
LEMMA ReachByteOf ==
    ASSUME NEW p \in Payloads, NEW k \in 1..Len(p), NEW n \in Nat,
           NEW f \in Seq(Seq(Bytes)), NEW r \in Seq(Seq(Bytes))
    PROVE  /\ SubSeq(p, 1, k) \in Seq(Bytes) /\ SubSeq(p, 1, k - 1) \in Seq(Bytes)
           /\ Reaches(Between(SubSeq(p, 1, k - 1), f, r), Plain(Doubled(p[k]), n),
                      Between(SubSeq(p, 1, k), f, r))
  <1> DEFINE d == SubSeq(p, 1, k - 1)
  <1>1. p \in Seq(Bytes) /\ p[k] \in Bytes /\ p[1] # "IAC"
    BY PayloadParts
  <1>2. d \in Seq(Bytes) /\ SubSeq(p, 1, k) = Append(d, p[k]) /\ Len(d) = k - 1
    BY <1>1
  <1>3. d # <<>> \/ p[k] # "IAC"
    <2>1. k = 1 \/ k - 1 >= 1
      OBVIOUS
    <2> HIDE DEF d
    <2>2. QED BY <1>1, <1>2, <2>1
  <1> HIDE DEF d
  <1>4. Reaches(Between(d, f, r), Plain(Doubled(p[k]), n), Between(Append(d, p[k]), f, r))
    BY <1>1, <1>2, <1>3, ReachDoubled
  <1>5. Append(d, p[k]) \in Seq(Bytes)
    BY <1>1, <1>2
  <1>6. QED BY <1>2, <1>4, <1>5 DEF d

\* A frame: the parser sees the payload.
LEMMA ReachPayload ==
    ASSUME NEW p \in Payloads, NEW f \in Seq(Seq(Bytes)), NEW r \in Seq(Seq(Bytes))
    PROVE  /\ Marked(Encoded(p), Len(f) + 1) \in Seq(Marks)
           /\ Reaches(Between(<<>>, f, r), Marked(Encoded(p), Len(f) + 1),
                      Between(<<>>, Append(f, p), r))
  <1> DEFINE m == Len(p)
             units == Encoded(p)
             n == Len(f) + 1
             st == [k \in 0..m |-> Between(SubSeq(p, 1, k), f, r)]
  <1>1. m \in Nat /\ m >= 1 /\ p \in Seq(Bytes) /\ p # <<>> /\ n \in Nat
    BY PayloadParts
  <1>2. /\ units \in Seq(Seq(Bytes)) /\ Len(units) = m + 1
        /\ \A i \in 1..m : units[i] = Doubled(p[i])
        /\ units[m + 1] = <<"IAC", "EOR">>
    BY EncodedParts
  <1>3. \A k \in 0..m : SubSeq(p, 1, k) \in Seq(Bytes)
    BY <1>1
  <1>4. st \in [0..m -> States]
    BY <1>3, BetweenType
  <1>5. SubSeq(p, 1, 0) = <<>> /\ SubSeq(p, 1, m) = p
    BY <1>1
  <1>6. st[0] = Between(<<>>, f, r) /\ st[m] = Between(p, f, r)
    <2>1. 0 \in 0..m /\ m \in 0..m
      BY <1>1
    <2>2. QED BY <1>5, <2>1
  <1>7. \A k \in 1..m : Reaches(st[k - 1], Plain(units[k], n), st[k])
    <2> SUFFICES ASSUME NEW k \in 1..m PROVE Reaches(st[k - 1], Plain(units[k], n), st[k])
      OBVIOUS
    <2>1. k \in 0..m /\ k - 1 \in 0..m
      BY <1>1
    <2>2. st[k - 1] = Between(SubSeq(p, 1, k - 1), f, r) /\ st[k] = Between(SubSeq(p, 1, k), f, r)
      BY <2>1
    <2> HIDE DEF st, n, units
    <2>3. QED BY <1>1, <1>2, <2>2, ReachByteOf
  <1> HIDE DEF st, units, m
  <1>8. /\ Marked(units, Len(f) + 1) \in Seq(Marks)
        /\ Reaches(st[0], Marked(units, Len(f) + 1), Between(<<>>, Append(f, p), r))
    BY <1>1, <1>2, <1>4, <1>6, <1>7, ReachFrame
  <1>9. QED BY <1>6, <1>8 DEF units

\* A frame with a command inside: the payload, and the command's answer.
LEMMA ReachWithin ==
    ASSUME NEW p \in Payloads, NEW c \in Commands, NEW i \in 2..(Len(p) + 1),
           NEW f \in Seq(Seq(Bytes)), NEW r \in Seq(Seq(Bytes))
    PROVE  /\ Marked(InsertAt(Encoded(p), i, c), Len(f) + 1) \in Seq(Marks)
           /\ Reaches(Between(<<>>, f, r), Marked(InsertAt(Encoded(p), i, c), Len(f) + 1),
                      Between(<<>>, Append(f, p), r \o Answer(c)))
  <1> DEFINE l == Len(p)
             units == InsertAt(Encoded(p), i, c)
             n == Len(f) + 1
             q == r \o Answer(c)
             st == [k \in 0..(l + 1) |-> IF k < i THEN Between(SubSeq(p, 1, k), f, r)
                                          ELSE Between(SubSeq(p, 1, k - 1), f, q)]
  <1>1. l \in Nat /\ l >= 1 /\ p \in Seq(Bytes) /\ p # <<>> /\ n \in Nat
    BY PayloadParts
  <1>2. q \in Seq(Seq(Bytes)) /\ c \in Seq(Bytes)
    <2>1. Answer(c) \in Seq(Seq(Bytes))
      BY AnswerType
    <2>2. QED BY <2>1, CommandParts
  <1>3. /\ units \in Seq(Seq(Bytes)) /\ Len(units) = l + 2
        /\ \A k \in 1..(i - 1) : units[k] = Doubled(p[k])
        /\ units[i] = c
        /\ \A k \in (i + 1)..(l + 1) : units[k] = Doubled(p[k - 1])
        /\ units[l + 2] = <<"IAC", "EOR">>
    <2> DEFINE e == Encoded(p)
               a == SubSeq(e, 1, i - 1)
               b == <<c>>
               d == SubSeq(e, i, Len(e))
    <2>1. /\ e \in Seq(Seq(Bytes)) /\ Len(e) = l + 1
          /\ \A k \in 1..l : e[k] = Doubled(p[k])
          /\ e[l + 1] = <<"IAC", "EOR">>
      BY EncodedParts
    <2>2. units = a \o b \o d
      BY DEF InsertAt
    <2> HIDE DEF e, l
    <2>3. a \in Seq(Seq(Bytes)) /\ Len(a) = i - 1 /\ \A k \in 1..(i - 1) : a[k] = e[k]
      BY <1>1, <2>1 DEF l
    <2>4. b \in Seq(Seq(Bytes)) /\ Len(b) = 1 /\ b[1] = c
      BY <1>2
    <2>5. d \in Seq(Seq(Bytes)) /\ Len(d) = l + 2 - i /\ \A k \in 1..(l + 2 - i) : d[k] = e[i + k - 1]
      <3>1. i \in Int /\ Len(e) \in Int /\ i <= Len(e) /\ \A k \in i..Len(e) : e[k] \in Seq(Bytes)
        BY <1>1, <2>1 DEF l
      <3>2. /\ d \in Seq(Seq(Bytes)) /\ Len(d) = Len(e) - i + 1
            /\ \A k \in 1..(Len(e) - i + 1) : d[k] = e[i + k - 1]
        BY <3>1, SubSeqProperties
      <3> HIDE DEF d
      <3>3. Len(e) - i + 1 = l + 2 - i
        BY <1>1, <2>1
      <3>4. QED BY <3>2, <3>3
    <2> HIDE DEF a, b, d
    <2> DEFINE g == a \o b
    <2>6. /\ g \in Seq(Seq(Bytes)) /\ Len(g) = Len(a) + Len(b)
          /\ \A k \in 1..(Len(a) + Len(b)) : g[k] = IF k <= Len(a) THEN a[k] ELSE b[k - Len(a)]
      BY <2>3, <2>4, ConcatProperties, Zenon
    <2> HIDE DEF g
    <2>7. /\ g \in Seq(Seq(Bytes)) /\ Len(g) = i
          /\ \A k \in 1..i : g[k] = IF k <= i - 1 THEN a[k] ELSE b[k - (i - 1)]
      BY <2>3, <2>4, <2>6
    <2>8. units = g \o d
      BY <2>2 DEF g
    <2>9. /\ units \in Seq(Seq(Bytes)) /\ Len(units) = Len(g) + Len(d)
          /\ \A k \in 1..(Len(g) + Len(d)) : units[k] = IF k <= Len(g) THEN g[k] ELSE d[k - Len(g)]
      <3>1. g \in Seq(Seq(Bytes)) /\ d \in Seq(Seq(Bytes))
        BY <2>5, <2>7
      <3>2. /\ g \o d \in Seq(Seq(Bytes)) /\ Len(g \o d) = Len(g) + Len(d)
            /\ \A k \in 1..(Len(g) + Len(d)) :
                  (g \o d)[k] = IF k <= Len(g) THEN g[k] ELSE d[k - Len(g)]
        BY <3>1, ConcatProperties, Zenon
      <3>3. QED BY <2>8, <3>2
    <2> HIDE DEF units
    <2>10. /\ units \in Seq(Seq(Bytes)) /\ Len(units) = l + 2
           /\ \A k \in 1..(l + 2) : units[k] = IF k <= i THEN g[k] ELSE d[k - i]
      <3>1. i + (l + 2 - i) = l + 2
        BY <1>1
      <3>2. QED BY <2>5, <2>7, <2>9, <3>1
    <2>11. \A k \in 1..(i - 1) : units[k] = Doubled(p[k])
      <3> SUFFICES ASSUME NEW k \in 1..(i - 1) PROVE units[k] = Doubled(p[k])
        OBVIOUS
      <3>1. k \in 1..(l + 2) /\ k <= i /\ k \in 1..i /\ k <= i - 1 /\ k \in 1..l
        BY <1>1 DEF l
      <3>2. QED BY <2>1, <2>3, <2>7, <2>10, <3>1
    <2>12. units[i] = c
      <3>1. i \in 1..(l + 2) /\ i \in 1..i /\ ~(i <= i - 1) /\ i - (i - 1) = 1
        BY <1>1 DEF l
      <3>2. QED BY <2>4, <2>7, <2>10, <3>1
    <2>13. \A k \in (i + 1)..(l + 2) : units[k] = e[k - 1]
      <3> SUFFICES ASSUME NEW k \in (i + 1)..(l + 2) PROVE units[k] = e[k - 1]
        OBVIOUS
      <3>1. k \in 1..(l + 2) /\ ~(k <= i) /\ k - i \in 1..(l + 2 - i) /\ i + (k - i) - 1 = k - 1
        BY <1>1
      <3>2. QED BY <2>5, <2>10, <3>1
    <2>14. \A k \in (i + 1)..(l + 1) : units[k] = Doubled(p[k - 1])
      <3> SUFFICES ASSUME NEW k \in (i + 1)..(l + 1) PROVE units[k] = Doubled(p[k - 1])
        OBVIOUS
      <3>1. k \in (i + 1)..(l + 2) /\ k - 1 \in 1..l
        BY <1>1
      <3>2. QED BY <2>1, <2>13, <3>1
    <2>15. units[l + 2] = <<"IAC", "EOR">>
      <3>1. l + 2 \in (i + 1)..(l + 2) /\ (l + 2) - 1 = l + 1
        BY <1>1 DEF l
      <3>2. QED BY <2>1, <2>13, <3>1
    <2>16. QED BY <2>10, <2>11, <2>12, <2>14, <2>15
  <1>4. \A k \in 0..l : SubSeq(p, 1, k) \in Seq(Bytes)
    BY <1>1
  <1>5. st \in [0..(l + 1) -> States]
    <2> SUFFICES ASSUME NEW k \in 0..(l + 1) PROVE st[k] \in States
      OBVIOUS
    <2>1. CASE k < i
      <3>1. k \in 0..l
        BY <1>1, <2>1
      <3>2. Between(SubSeq(p, 1, k), f, r) \in States
        BY <1>4, <3>1, BetweenType
      <3>3. QED BY <2>1, <3>2
    <2>2. CASE ~(k < i)
      <3>1. k - 1 \in 0..l
        BY <1>1, <2>2
      <3> HIDE DEF q
      <3>2. Between(SubSeq(p, 1, k - 1), f, q) \in States
        BY <1>2, <1>4, <3>1, BetweenType
      <3>3. QED BY <2>2, <3>2
    <2>3. QED BY <2>1, <2>2
  <1>6. SubSeq(p, 1, 0) = <<>> /\ SubSeq(p, 1, l) = p
    BY <1>1
  <1>7. st[0] = Between(<<>>, f, r) /\ st[l + 1] = Between(p, f, q)
    <2>1. 0 \in 0..(l + 1) /\ l + 1 \in 0..(l + 1) /\ 0 < i /\ ~(l + 1 < i) /\ (l + 1) - 1 = l
      BY <1>1
    <2> HIDE DEF q
    <2>2. QED BY <1>6, <2>1
  <1>8. \A k \in 1..(l + 1) : Reaches(st[k - 1], Plain(units[k], n), st[k])
    <2> SUFFICES ASSUME NEW k \in 1..(l + 1) PROVE Reaches(st[k - 1], Plain(units[k], n), st[k])
      OBVIOUS
    <2>1. k \in 0..(l + 1) /\ k - 1 \in 0..(l + 1)
      BY <1>1
    <2> DEFINE u(j) == SubSeq(p, 1, j)
    <2> HIDE DEF q
    <2>2. CASE k < i
      <3>1. st[k - 1] = Between(u(k - 1), f, r) /\ st[k] = Between(u(k), f, r)
        BY <2>1, <2>2
      <3>2. k \in 1..l /\ k \in 1..(i - 1)
        BY <1>1, <2>2
      <3> HIDE DEF st, n, units
      <3>3. Reaches(Between(u(k - 1), f, r), Plain(Doubled(p[k]), n), Between(u(k), f, r))
        BY <1>1, <3>2, ReachByteOf
      <3>4. QED BY <1>3, <3>1, <3>2, <3>3
    <2>3. CASE k = i
      <3>1. st[k - 1] = Between(u(k - 1), f, r) /\ st[k] = Between(u(k - 1), f, q)
        BY <2>1, <2>3
      <3>2. u(k - 1) \in Seq(Bytes) /\ units[k] = c
        <4>1. k - 1 \in 0..l
          BY <1>1
        <4>2. QED BY <1>3, <1>4, <2>3, <4>1
      <3> HIDE DEF st, n, units, u
      <3>3. Reaches(Between(u(k - 1), f, r), Plain(c, n), Between(u(k - 1), f, q))
        BY <1>1, <3>2, ReachAnswer DEF ReachesOver, q
      <3>4. QED BY <3>1, <3>2, <3>3
    <2>4. CASE k > i
      <3>1. st[k - 1] = Between(u((k - 1) - 1), f, q) /\ st[k] = Between(u(k - 1), f, q)
        BY <2>1, <2>4
      <3>2. k - 1 \in 1..l /\ k \in (i + 1)..(l + 1)
        BY <1>1, <2>4
      <3> HIDE DEF st, n, units
      <3>3. Reaches(Between(u((k - 1) - 1), f, q), Plain(Doubled(p[k - 1]), n), Between(u(k - 1), f, q))
        BY <1>1, <1>2, <3>2, ReachByteOf
      <3>4. QED BY <1>3, <3>1, <3>2, <3>3
    <2>5. QED BY <2>2, <2>3, <2>4
  <1> DEFINE m == l + 1
  <1>9. m \in Nat /\ m >= 1 /\ Len(units) = m + 1 /\ units[m + 1] = <<"IAC", "EOR">>
    <2>1. (l + 1) + 1 = l + 2
      BY <1>1
    <2> HIDE DEF l, units
    <2>2. QED BY <1>1, <1>3, <2>1
  <1>10. st \in [0..m -> States] /\ st[m] = Between(p, f, q)
         /\ \A k \in 1..m : Reaches(st[k - 1], Plain(units[k], Len(f) + 1), st[k])
    BY <1>5, <1>7, <1>8
  <1> HIDE DEF st, units, l, m, q
  <1>11. /\ Marked(units, Len(f) + 1) \in Seq(Marks)
         /\ Reaches(st[0], Marked(units, Len(f) + 1), Between(<<>>, Append(f, p), q))
    BY <1>1, <1>2, <1>3, <1>9, <1>10, ReachFrame
  <1>12. QED BY <1>7, <1>11 DEF units, q

-----------------------------------------------------------------------------
\* The reader beside the parser.

\* The bytes of the buffer.
Texts(x) == [i \in 1..Len(x) |-> x[i].byte]

LEMMA TextsType ==
    ASSUME NEW x \in Seq(Marks)
    PROVE  Texts(x) \in Seq(Bytes) /\ Len(Texts(x)) = Len(x)
  <1>1. Texts(x) \in [1..Len(x) -> Bytes] /\ Len(x) \in Nat
    <2>1. \A i \in 1..Len(x) : x[i] \in Marks
      OBVIOUS
    <2>2. \A e \in Marks : e.byte \in Bytes
      BY DEF Marks
    <2>3. QED BY <2>1, <2>2 DEF Texts
  <1>2. QED BY <1>1, FunctionIsSequence

LEMMA TextsAppend ==
    ASSUME NEW x \in Seq(Marks), NEW b \in Marks
    PROVE  Texts(Append(x, b)) = Append(Texts(x), b.byte)
  <1> DEFINE y == Append(x, b)
             p == Texts(y)
             q == Append(Texts(x), b.byte)
             l == Len(x)
  <1>1. l \in Nat /\ y \in Seq(Marks) /\ Len(y) = l + 1 /\ y[l + 1] = b /\ \A i \in 1..l : y[i] = x[i]
    OBVIOUS
  <1> HIDE DEF y
  <1>2. p \in Seq(Bytes) /\ Len(p) = l + 1 /\ \A i \in 1..(l + 1) : p[i] = y[i].byte
    <2>1. p \in Seq(Bytes) /\ Len(p) = Len(y)
      BY <1>1, TextsType
    <2>2. \A i \in 1..Len(y) : p[i] = y[i].byte
      BY DEF Texts
    <2> HIDE DEF p
    <2>3. QED BY <1>1, <2>1, <2>2
  <1> DEFINE u == Texts(x)
  <1>3. u \in Seq(Bytes) /\ Len(u) = l /\ \A i \in 1..l : u[i] = x[i].byte
    <2>1. u \in Seq(Bytes) /\ Len(u) = l
      BY TextsType
    <2>2. \A i \in 1..l : u[i] = x[i].byte
      BY DEF Texts
    <2>3. QED BY <2>1, <2>2
  <1>4. b.byte \in Bytes
    BY DEF Marks
  <1> HIDE DEF u
  <1>5. /\ q \in Seq(Bytes) /\ Len(q) = l + 1 /\ q[l + 1] = b.byte
        /\ \A i \in 1..l : q[i] = u[i]
    <2>1. q = Append(u, b.byte)
      BY DEF u
    <2> HIDE DEF q, l
    <2>2. QED BY <1>1, <1>3, <1>4, <2>1
  <1> HIDE DEF p, q, l
  <1>6. \A i \in 1..(l + 1) : p[i] = q[i]
    <2> SUFFICES ASSUME NEW i \in 1..(l + 1) PROVE p[i] = q[i]
      OBVIOUS
    <2>1. i = l + 1 \/ i \in 1..l
      BY <1>1
    <2>2. QED BY <1>1, <1>2, <1>3, <1>5, <2>1
  <1>7. p = q
    BY <1>2, <1>5, <1>6, SeqEqual
  <1>8. QED BY <1>7 DEF p, q, y

\* A reader at p, torn off, takes no end of a frame for one that is not there
\* while the parser is at q, nor later.
Harmless(p, q) ==
    \/ p = "data" /\ q \in {"data", "sub"}
    \/ p = "iac" /\ q \in {"iac", "subiac"}
    \/ p = "option" /\ q = "option"
    \/ p = "sub" /\ q \in {"sub", "data", "option"}
    \/ p = "subiac" /\ q \in {"subiac", "iac"}

\* How many scraps a torn reader may still return.
Weight(q) == IF torn THEN IF Harmless(pos, q) THEN 1 ELSE 2 ELSE 0

\* A reader in step is where the parser is.
Matches(s) ==
    /\ pos = s.pos /\ Texts(buf) = s.buf
    /\ pos = "option" => verb = s.verb
    /\ pos \in {"sub", "subiac"} => sub = s.sub

Beside(s) ==
    /\ next = Len(s.frames)
    /\ ~torn => Matches(s)
    /\ torn => mode = "read" /\ pushed = <<>>
    /\ mode = "negotiation" => pushed = <<>> /\ buf = <<>> /\ cancels = 0
    /\ pushed # <<>> => pos = "data" /\ pushed[1].byte # "IAC"
    /\ cancels = 0 => ~torn /\ got = s.frames /\ replied = s.replies
    /\ scraps + Weight(s.pos) <= 2 * cancels

\* What is on the wire takes the parser to all frames and answers of the host.
Followed ==
    \E s \in States :
        Beside(s) /\ Reaches(s, pushed \o wire, Between(<<>>, posted, owed))

\* Where a byte takes the parser.
LEMMA ParsesPos ==
    ASSUME NEW s, NEW b, NEW t, Parses(s, b, t)
    PROVE  \/ s.pos = "data" /\ ~b.end /\ b.byte = "IAC" /\ t.pos = "iac"
           \/ s.pos = "data" /\ ~b.end /\ b.byte # "IAC" /\ t.pos = "data"
           \/ s.pos = "iac" /\ ~b.end /\ b.byte \in Verbs /\ t.pos = "option"
           \/ s.pos = "iac" /\ ~b.end /\ b.byte = "SB" /\ t.pos = "sub"
           \/ s.pos = "iac" /\ ~b.end /\ b.byte \notin Verbs \cup {"SB", "EOR"} /\ t.pos = "data"
           \/ s.pos = "iac" /\ b.end /\ b.byte = "EOR" /\ t.pos = "data"
           \/ s.pos = "option" /\ ~b.end /\ b.byte # "IAC" /\ t.pos = "data"
           \/ s.pos = "sub" /\ ~b.end /\ b.byte = "IAC" /\ t.pos = "subiac"
           \/ s.pos = "sub" /\ ~b.end /\ b.byte # "IAC" /\ t.pos = "sub"
           \/ s.pos = "subiac" /\ ~b.end /\ b.byte = "IAC" /\ t.pos = "sub"
           \/ s.pos = "subiac" /\ ~b.end /\ b.byte = "SE" /\ t.pos = "data"
  <1>1. CASE ParsesData(s, b, t)
    BY <1>1 DEF ParsesData, At
  <1>2. CASE ParsesEnd(s, b, t)
    BY <1>2 DEF ParsesEnd, At
  <1>3. CASE ParsesCommand(s, b, t)
    BY <1>3 DEF ParsesCommand, At, Verbs
  <1>4. CASE ParsesOption(s, b, t)
    <2> DEFINE o == s.replies \o OptionReply(s.verb, b.byte)
    <2>1. /\ s.pos = "option" /\ ~b.end /\ b.byte # "IAC"
          /\ t = At("data", "DO", s.sub, s.buf, s.frames, o)
      BY <1>4 DEF ParsesOption
    <2> HIDE DEF o
    <2>2. QED BY <2>1 DEF At
  <1>5. CASE ParsesSub(s, b, t)
    BY <1>5 DEF ParsesSub, At
  <1>6. CASE ParsesSubEnd(s, b, t)
    <2> DEFINE o == s.replies \o SubReply(s.sub)
    <2>1. /\ s.pos = "subiac" /\ ~b.end
          /\ \/ /\ b.byte = "IAC"
                /\ t = At("sub", s.verb, Append(s.sub, "IAC"), s.buf, s.frames, s.replies)
             \/ b.byte = "SE" /\ t = At("data", s.verb, <<>>, s.buf, s.frames, o)
      BY <1>6 DEF ParsesSubEnd
    <2> HIDE DEF o
    <2>2. QED BY <2>1 DEF At
  <1>7. QED BY <1>1, <1>2, <1>3, <1>4, <1>5, <1>6 DEF Parses

\* Only the end of a frame adds one.
LEMMA ParsesFrames ==
    ASSUME NEW s \in States, NEW b, NEW t, Parses(s, b, t)
    PROVE  /\ b.end => b.frame = Len(s.frames) + 1 /\ t.frames = Append(s.frames, s.buf)
           /\ ~b.end => t.frames = s.frames
  <1> DEFINE o == s.replies \o OptionReply(s.verb, b.byte)
             e == s.replies \o SubReply(s.sub)
  <1>1. /\ ParsesOption(s, b, t) => ~b.end /\ t = At("data", "DO", s.sub, s.buf, s.frames, o)
        /\ ParsesSubEnd(s, b, t) => ~b.end /\
              \/ t = At("sub", s.verb, Append(s.sub, "IAC"), s.buf, s.frames, s.replies)
              \/ t = At("data", s.verb, <<>>, s.buf, s.frames, e)
    BY DEF ParsesOption, ParsesSubEnd
  <1> HIDE DEF o, e
  <1>2. CASE ParsesData(s, b, t) \/ ParsesCommand(s, b, t) \/ ParsesSub(s, b, t)
    BY <1>2 DEF ParsesData, ParsesCommand, ParsesSub, At
  <1>3. CASE ParsesEnd(s, b, t)
    BY <1>3 DEF ParsesEnd, At
  <1>4. CASE ParsesOption(s, b, t) \/ ParsesSubEnd(s, b, t)
    BY <1>1, <1>4 DEF At
  <1>5. QED BY <1>2, <1>3, <1>4 DEF Parses

-----------------------------------------------------------------------------
\* A byte is read.

LEMMA OneByte ==
    ASSUME NEW S, NEW x \in Seq(S), Len(x) <= 1, x # <<>>
    PROVE  Len(x) = 1 /\ x[1] \in S /\ x = <<x[1]>> /\ Tail(x) = <<>>
  <1>1. Len(x) \in Nat /\ Len(x) # 0
    BY EmptySeq
  <1>2. Len(x) = 1
    BY <1>1
  <1>3. x[1] \in S
    BY <1>2
  <1>4. x = <<x[1]>>
    <2> DEFINE y == <<x[1]>>
    <2>1. y \in Seq(S) /\ Len(y) = 1 /\ y[1] = x[1]
      BY <1>3
    <2> HIDE DEF y
    <2>2. \A i \in 1..Len(x) : x[i] = y[i]
      BY <1>2, <2>1
    <2>3. x = y
      BY <1>2, <2>1, <2>2, SeqEqual
    <2>4. QED BY <2>3 DEF y
  <1>5. Tail(x) \in Seq(S) /\ Len(Tail(x)) = 0
    BY <1>2
  <1>6. QED BY <1>2, <1>3, <1>4, <1>5, EmptySeq

\* The reader takes the byte the parser reads next.
LEMMA TakeParses ==
    ASSUME TypeOK, NEW b \in Incoming, Take(b),
           NEW s \in States, NEW f, Reaches(s, pushed \o wire, f)
    PROVE  /\ b \in Marks /\ wire' \in Seq(Marks) /\ pushed' = <<>>
           /\ pushed # <<>> => b = pushed[1]
           /\ \E t \in States : Parses(s, b, t) /\ Reaches(t, pushed' \o wire', f)
  <1> DEFINE w == pushed \o wire
  <1>1. wire \in Seq(Marks) /\ pushed \in Seq(Marks) /\ Len(pushed) <= 1
    BY DEF TypeOK, Marks
  <1>2. w # <<>> /\ b = Head(w)
    BY DEF Incoming
  <1>3. w \in Seq(Marks)
    BY <1>1
  <1>4. b \in Marks
    BY <1>2, <1>3
  <1>5. CASE pushed = <<>>
    <2>1. w = wire /\ pushed' \o wire' = Tail(w) /\ wire' \in Seq(Marks) /\ pushed' = <<>>
      <3>1. w = wire
        BY <1>1, <1>5, ConcatEmptySeq
      <3>2. pushed' = <<>> /\ wire' = Tail(wire)
        BY <1>5 DEF Take
      <3>3. wire' \in Seq(Marks)
        BY <1>1, <1>2, <3>1, <3>2
      <3>4. pushed' \o wire' = wire'
        BY <3>2, <3>3, ConcatEmptySeq
      <3>5. QED BY <3>1, <3>2, <3>3, <3>4
    <2> HIDE DEF w
    <2>2. \E t \in States : Parses(s, Head(w), t) /\ Reaches(t, Tail(w), f)
      BY <1>2, <1>3, ReachFirst DEF w
    <2>3. QED BY <1>2, <1>4, <1>5, <2>1, <2>2
  <1>6. CASE pushed # <<>>
    <2>1. Len(pushed) = 1 /\ pushed[1] \in Marks /\ pushed = <<pushed[1]>> /\ Tail(pushed) = <<>>
      BY <1>1, <1>6, OneByte
    <2>2. wire' = wire /\ pushed' = <<>>
      BY <1>6, <2>1 DEF Take
    <2>3. Head(w) = pushed[1] /\ Tail(w) = wire
      <3>1. pushed = <<pushed[1]>> /\ pushed[1] \in Marks
        BY <2>1
      <3>2. \A e \in Marks : Head(<<e>> \o wire) = e /\ Tail(<<e>> \o wire) = wire
        BY <1>1
      <3>3. QED BY <3>1, <3>2
    <2>4. pushed' \o wire' = Tail(w)
      BY <1>1, <2>2, <2>3, ConcatEmptySeq
    <2> HIDE DEF w
    <2>5. \E t \in States : Parses(s, Head(w), t) /\ Reaches(t, Tail(w), f)
      BY <1>2, <1>3, ReachFirst DEF w
    <2>6. QED BY <1>1, <1>2, <1>4, <2>2, <2>3, <2>4, <2>5
  <1>7. QED BY <1>5, <1>6

\* The parts of Beside() that every byte keeps alike.
LEMMA TakeBeside ==
    ASSUME NEW s \in States, NEW b \in Marks, NEW t \in States,
           Beside(s), Parses(s, b, t), Take(b)
    PROVE  next' = Len(t.frames)
  <1>1. next = Len(s.frames) /\ next' = (IF b.end THEN b.frame ELSE next)
    BY DEF Beside, Take
  <1>2. s.frames \in Seq(Seq(Bytes)) /\ s.buf \in Seq(Bytes) /\ b.end \in BOOLEAN
    BY DEF States, Marks
  <1>3. Len(Append(s.frames, s.buf)) = Len(s.frames) + 1
    BY <1>2
  <1>4. QED BY <1>1, <1>2, <1>3, ParsesFrames

Reads(b) == Data(b) \/ FrameEnd(b) \/ Command(b) \/ Option(b) \/ SubByte(b) \/ SubEnd(b)

LEMMA Spare ==
    ASSUME NEW k \in Nat, NEW c \in Nat, NEW w \in {1, 2}, k + w <= 2 * c
    PROVE  c # 0 /\ k < 2 * c /\ k + 1 + 0 <= 2 * c
  OBVIOUS

\* A reader torn off: what it may still return.
LEMMA TornStep ==
    ASSUME TypeOK, NEW s \in States, NEW b \in Marks, NEW t \in States,
           Beside(s), torn, Parses(s, b, t), Reads(b)
    PROVE  /\ mode' = mode /\ cancels' = cancels /\ cancels # 0
           /\ torn' \in BOOLEAN
           /\ scraps' + Weight(t.pos)' <= 2 * cancels'
           /\ FrameEnd(b) => scraps' = scraps + 1 /\ scraps < 2 * cancels
           /\ ~FrameEnd(b) => scraps' = scraps /\ torn'
  <1>1. /\ torn \in BOOLEAN /\ scraps \in Nat /\ cancels \in Nat
        /\ pos \in Positions /\ b.byte \in Bytes /\ b.end \in BOOLEAN
    BY BoundsType DEF TypeOK, Positions, Marks
  <1>2. scraps + Weight(s.pos) <= 2 * cancels /\ mode = "read"
    BY DEF Beside
  <1>3. Weight(s.pos) = IF Harmless(pos, s.pos) THEN 1 ELSE 2
    BY DEF Weight
  <1>4. Weight(t.pos)' = IF torn' THEN IF Harmless(pos', t.pos) THEN 1 ELSE 2 ELSE 0
    BY DEF Weight
  <1>5. mode' = mode /\ cancels' = cancels
    BY DEF Reads, Data, FrameEnd, Command, Option, SubByte, SubEnd, Take
  <1>6. CASE FrameEnd(b)
    <2>1. pos = "iac" /\ b.byte = "EOR" /\ pos' = "data" /\ torn' = ~b.end /\ scraps' = scraps + 1
      BY <1>6 DEF FrameEnd
    <2>2. CASE b.end
      <3>1. torn' = FALSE
        BY <2>1, <2>2
      <3>2. Weight(t.pos)' = 0 /\ Weight(s.pos) \in {1, 2}
        BY <1>3, <1>4, <3>1
      <3>3. cancels # 0 /\ scraps < 2 * cancels /\ scraps + 1 + 0 <= 2 * cancels
        BY <1>1, <1>2, <3>2, Spare
      <3>4. scraps' + Weight(t.pos)' <= 2 * cancels'
        BY <1>5, <2>1, <3>2, <3>3
      <3>5. QED BY <1>5, <1>6, <2>1, <3>1, <3>3, <3>4
    <2>3. CASE ~b.end
      <3>1. ~Harmless(pos, s.pos) /\ Harmless(pos', t.pos)
        BY <2>1, <2>3, ParsesPos DEF Harmless, Verbs
      <3>2. QED BY <1>1, <1>2, <1>3, <1>4, <1>5, <1>6, <2>1, <2>3, <3>1
    <2>4. QED BY <1>1, <2>2, <2>3
  <1>7. CASE ~FrameEnd(b)
    <2>1. torn' = torn /\ scraps' = scraps
      BY <1>7 DEF Reads, Data, Command, Option, SubByte, SubEnd, InStep
    <2>2. Harmless(pos, s.pos) => Harmless(pos', t.pos)
      <3>1. CASE Data(b)
        <4>1. /\ pos = "data"
              /\ (b.byte = "IAC" /\ pos' = "iac") \/ (b.byte # "IAC" /\ pos' = "data")
          BY <3>1 DEF Data
        <4>2. QED BY <4>1, ParsesPos DEF Harmless
      <3>2. CASE Command(b)
        <4>1. /\ pos = "iac" /\ b.byte # "EOR"
              /\ \/ b.byte \in Verbs /\ pos' = "option"
                 \/ b.byte = "SB" /\ pos' = "sub"
                 \/ b.byte \notin Verbs \cup {"SB"} /\ pos' = "data"
          BY <1>2, <3>2 DEF Command, Verbs
        <4>2. "SB" \notin Verbs /\ "IAC" \notin Verbs /\ "SE" \notin Verbs
          BY DEF Verbs
        <4>3. QED BY <4>1, <4>2, ParsesPos DEF Harmless
      <3>3. CASE Option(b)
        <4>1. pos = "option" /\ pos' = "data"
          BY <3>3 DEF Option
        <4>2. QED BY <4>1, ParsesPos DEF Harmless
      <3>4. CASE SubByte(b)
        <4>1. /\ pos = "sub"
              /\ (b.byte = "IAC" /\ pos' = "subiac") \/ (b.byte # "IAC" /\ pos' = "sub")
          BY <3>4 DEF SubByte
        <4>2. QED BY <4>1, ParsesPos DEF Harmless
      <3>5. CASE SubEnd(b)
        <4>1. /\ pos = "subiac"
              /\ (b.byte = "SE" /\ pos' = "data") \/ (b.byte # "SE" /\ pos' = "sub")
          BY <3>5 DEF SubEnd
        <4>2. "SE" \notin Verbs
          BY DEF Verbs
        <4>3. QED BY <4>1, <4>2, ParsesPos DEF Harmless
      <3>6. QED BY <1>7, <3>1, <3>2, <3>3, <3>4, <3>5 DEF Reads
    <2>3. QED BY <1>1, <1>2, <1>3, <1>4, <1>5, <1>7, <2>1, <2>2
  <1>8. QED BY <1>6, <1>7

LEMMA TextsNone ==
    Texts(<<>>) = <<>>
  <1>1. <<>> \in Seq(Marks) /\ Len(<<>>) = 0
    OBVIOUS
  <1>2. QED BY <1>1, TextsType, EmptySeq

\* What the actions of the reader have in common.
LEMMA ReadsKeep ==
    ASSUME NEW b, Reads(b)
    PROVE  /\ mode' = mode /\ Take(b) /\ posted' = posted /\ owed' = owed
           /\ sentCommands' = sentCommands /\ cancels' = cancels
           /\ next' = IF b.end THEN b.frame ELSE next
           /\ ~FrameEnd(b) => torn' = torn /\ scraps' = scraps /\ got' = got
  <1>1. Take(b)
    BY DEF Reads, Data, FrameEnd, Command, Option, SubByte, SubEnd
  <1>2. mode' = mode
    BY DEF Reads, Data, FrameEnd, Command, Option, SubByte, SubEnd
  <1>3. ~FrameEnd(b) => torn' = torn /\ scraps' = scraps /\ got' = got
    BY DEF Reads, Data, Command, Option, SubByte, SubEnd, InStep
  <1>4. QED BY <1>1, <1>2, <1>3 DEF Take

\* What a byte does to a reader that is where the parser is.
Together(b, s, t) ==
    /\ Matches(t)'
    /\ mode = "negotiation" => buf' = <<>>
    /\ torn' = FALSE /\ scraps' = scraps
    /\ replied = s.replies => replied' = t.replies
    /\ got' = IF b.end THEN Append(got, s.buf) ELSE got
    /\ FrameEnd(b) <=> b.end

LEMMA TogetherData ==
    ASSUME TypeOK, NEW s \in States, NEW b \in Marks, NEW t \in States,
           Beside(s), ~torn, Parses(s, b, t), Data(b)
    PROVE  Together(b, s, t)
  <1>1. buf \in Seq(Marks) /\ pos = "data" /\ s.pos = "data" /\ Texts(buf) = s.buf /\ torn = FALSE
        /\ (mode = "negotiation" => buf = <<>>)
    BY DEF TypeOK, Marks, Beside, Matches, Data
  <1>2. ParsesData(s, b, t)
    BY <1>1 DEF Parses, ParsesData, ParsesEnd, ParsesCommand, ParsesOption, ParsesSub, ParsesSubEnd
  <1>3. ~FrameEnd(b) /\ ~b.end
    BY <1>1, <1>2 DEF FrameEnd, ParsesData
  <1>4. torn' = FALSE /\ scraps' = scraps /\ got' = got /\ replied' = replied /\ t.replies = s.replies
    BY <1>1, <1>2 DEF Data, InStep, ParsesData, At
  <1>5. CASE b.byte = "IAC"
    <2>1. pos' = "iac" /\ buf' = buf /\ t.pos = "iac" /\ t.buf = s.buf
      BY <1>2, <1>5 DEF Data, ParsesData, At
    <2>2. Matches(t)'
      BY <1>1, <2>1 DEF Matches
    <2>3. QED BY <1>1, <1>3, <1>4, <2>1, <2>2 DEF Together
  <1>6. CASE b.byte # "IAC"
    <2>1. mode = "read" /\ pos' = "data" /\ buf' = Append(buf, b) /\ t.pos = "data" /\ t.buf = Append(s.buf, b.byte)
      BY <1>1, <1>2, <1>6 DEF Data, ParsesData, At
    <2>2. Texts(buf') = t.buf
      BY <1>1, <2>1, TextsAppend
    <2>3. Matches(t)'
      BY <2>1, <2>2 DEF Matches
    <2>4. QED BY <1>3, <1>4, <2>1, <2>3 DEF Together
  <1>7. QED BY <1>5, <1>6

LEMMA TogetherEnd ==
    ASSUME TypeOK, NEW s \in States, NEW b \in Marks, NEW t \in States,
           Beside(s), ~torn, Parses(s, b, t), FrameEnd(b)
    PROVE  Together(b, s, t)
  <1>1. buf \in Seq(Marks) /\ s.pos = "iac" /\ Texts(buf) = s.buf /\ torn = FALSE /\ b.byte = "EOR"
        /\ mode = "read"
    BY DEF TypeOK, Marks, Beside, Matches, FrameEnd
  <1>2. ParsesEnd(s, b, t)
    BY <1>1 DEF Parses, ParsesData, ParsesEnd, ParsesCommand, ParsesOption, ParsesSub, ParsesSubEnd, Verbs
  <1>3. b.end /\ t.pos = "data" /\ t.buf = <<>> /\ t.replies = s.replies
    BY <1>2 DEF ParsesEnd, At
  <1>4. pos' = "data" /\ buf' = <<>> /\ torn' = FALSE /\ scraps' = scraps /\ replied' = replied
    BY <1>1 DEF FrameEnd
  <1>5. got' = Append(got, s.buf)
    BY <1>1 DEF FrameEnd, Texts
  <1>6. Matches(t)'
    BY <1>3, <1>4, TextsNone DEF Matches
  <1>7. QED BY <1>1, <1>3, <1>4, <1>5, <1>6 DEF Together

LEMMA TogetherCommand ==
    ASSUME TypeOK, NEW s \in States, NEW b \in Marks, NEW t \in States,
           Beside(s), ~torn, Parses(s, b, t), Command(b)
    PROVE  Together(b, s, t)
  <1>1. buf \in Seq(Marks) /\ s.pos = "iac" /\ Texts(buf) = s.buf /\ torn = FALSE
        /\ (mode = "negotiation" => buf = <<>>) /\ mode \in {"negotiation", "read"}
    BY DEF TypeOK, Marks, Beside, Matches, Command
  <1>2. mode = "negotiation" => s.buf = <<>>
    BY <1>1, TextsNone
  <1>3. b.byte # "EOR"
    <2>1. ~(mode = "read" /\ b.byte = "EOR")
      BY DEF Command
    <2>2. mode = "negotiation" => ~(b.byte = "EOR")
      BY <1>1, <1>2 DEF Parses, ParsesData, ParsesEnd, ParsesCommand, ParsesOption, ParsesSub, ParsesSubEnd, Verbs
    <2>3. QED BY <1>1, <2>1, <2>2
  <1>4. ParsesCommand(s, b, t)
    BY <1>1, <1>3 DEF Parses, ParsesData, ParsesEnd, ParsesCommand, ParsesOption, ParsesSub, ParsesSubEnd
  <1>5. ~FrameEnd(b) /\ ~b.end
    BY <1>3, <1>4 DEF FrameEnd, ParsesCommand
  <1>6. torn' = FALSE /\ scraps' = scraps /\ got' = got /\ replied' = replied /\ t.replies = s.replies
    BY <1>1, <1>4 DEF Command, InStep, ParsesCommand, At
  <1>7. /\ pos' = t.pos
        /\ pos' = "option" => verb' = t.verb
        /\ pos' \in {"sub", "subiac"} => sub' = t.sub
    BY <1>4 DEF Command, ParsesCommand, At, Verbs
  <1>8. Texts(buf') = t.buf /\ (mode = "negotiation" => buf' = <<>>)
    <2>1. CASE b.byte = "IAC"
      <3>1. t.buf = Append(s.buf, "IAC") /\ mode = "read"
        BY <1>1, <1>2, <1>4, <2>1 DEF ParsesCommand, At, Verbs
      <3>2. buf' = Append(buf, b)
        BY <2>1, <3>1 DEF Command
      <3>3. QED BY <1>1, <2>1, <3>1, <3>2, TextsAppend
    <2>2. CASE b.byte # "IAC"
      <3>1. t.buf = s.buf /\ buf' = buf
        BY <1>4, <2>2 DEF Command, ParsesCommand, At
      <3>2. QED BY <1>1, <3>1
    <2>3. QED BY <2>1, <2>2
  <1>9. Matches(t)'
    BY <1>7, <1>8 DEF Matches
  <1>10. QED BY <1>5, <1>6, <1>8, <1>9 DEF Together

LEMMA TogetherOption ==
    ASSUME TypeOK, NEW s \in States, NEW b \in Marks, NEW t \in States,
           Beside(s), ~torn, Parses(s, b, t), Option(b)
    PROVE  Together(b, s, t)
  <1>1. s.pos = "option" /\ Texts(buf) = s.buf /\ torn = FALSE /\ verb = s.verb
        /\ (mode = "negotiation" => buf = <<>>)
    BY DEF TypeOK, Beside, Matches, Option
  <1> DEFINE o == s.replies \o OptionReply(s.verb, b.byte)
  <1>2. ~b.end /\ t = At("data", "DO", s.sub, s.buf, s.frames, o)
    BY <1>1 DEF Parses, ParsesData, ParsesEnd, ParsesCommand, ParsesOption, ParsesSub, ParsesSubEnd
  <1>3. ~FrameEnd(b)
    BY <1>1 DEF FrameEnd, Option
  <1>4. pos' = "data" /\ torn' = FALSE /\ scraps' = scraps /\ got' = got /\ buf' = buf
        /\ (replied = s.replies => replied' = o)
    BY <1>1 DEF Option, InStep
  <1> HIDE DEF o
  <1>5. t.pos = "data" /\ t.buf = s.buf /\ t.replies = o
    BY <1>2 DEF At
  <1>6. Matches(t)'
    BY <1>1, <1>4, <1>5 DEF Matches
  <1>7. QED BY <1>1, <1>2, <1>3, <1>4, <1>5, <1>6 DEF Together

LEMMA TogetherSub ==
    ASSUME TypeOK, NEW s \in States, NEW b \in Marks, NEW t \in States,
           Beside(s), ~torn, Parses(s, b, t), SubByte(b)
    PROVE  Together(b, s, t)
  <1>1. s.pos = "sub" /\ pos = "sub" /\ Texts(buf) = s.buf /\ torn = FALSE /\ sub = s.sub
        /\ (mode = "negotiation" => buf = <<>>)
    BY DEF TypeOK, Beside, Matches, SubByte
  <1>2. ParsesSub(s, b, t)
    BY <1>1 DEF Parses, ParsesData, ParsesEnd, ParsesCommand, ParsesOption, ParsesSub, ParsesSubEnd
  <1>3. ~FrameEnd(b) /\ ~b.end
    BY <1>1, <1>2 DEF FrameEnd, ParsesSub
  <1>4. torn' = FALSE /\ scraps' = scraps /\ got' = got /\ buf' = buf /\ replied' = replied
        /\ t.replies = s.replies /\ t.buf = s.buf /\ t.pos = pos' /\ t.sub = sub' /\ pos' # "option"
    BY <1>1, <1>2 DEF SubByte, InStep, ParsesSub, At
  <1>5. Matches(t)'
    BY <1>1, <1>4 DEF Matches
  <1>6. QED BY <1>1, <1>3, <1>4, <1>5 DEF Together

LEMMA TogetherSubEnd ==
    ASSUME TypeOK, NEW s \in States, NEW b \in Marks, NEW t \in States,
           Beside(s), ~torn, Parses(s, b, t), SubEnd(b)
    PROVE  Together(b, s, t)
  <1>1. s.pos = "subiac" /\ pos = "subiac" /\ Texts(buf) = s.buf /\ torn = FALSE /\ sub = s.sub
        /\ (mode = "negotiation" => buf = <<>>) /\ sub \in Seq(Bytes)
    BY DEF TypeOK, Beside, Matches, SubEnd
  <1> DEFINE o == s.replies \o SubReply(s.sub)
  <1>2. ParsesSubEnd(s, b, t)
    BY <1>1 DEF Parses, ParsesData, ParsesEnd, ParsesCommand, ParsesOption, ParsesSub, ParsesSubEnd
  <1>3. ~FrameEnd(b) /\ ~b.end
    BY <1>1, <1>2 DEF FrameEnd, ParsesSubEnd
  <1>4. torn' = FALSE /\ scraps' = scraps /\ got' = got /\ buf' = buf
    BY <1>1 DEF SubEnd, InStep
  <1>5. CASE b.byte = "IAC"
    <2>1. t = At("sub", s.verb, Append(s.sub, "IAC"), s.buf, s.frames, s.replies)
      BY <1>2, <1>5 DEF ParsesSubEnd
    <2>2. pos' = "sub" /\ sub' = sub \o <<"IAC">> /\ replied' = replied
      BY <1>5 DEF SubEnd
    <2>3. sub' = Append(s.sub, "IAC")
      <3>1. \A x \in Seq(Bytes) : x \o <<"IAC">> = Append(x, "IAC")
        BY AppendIsConcat DEF Bytes
      <3>2. QED BY <1>1, <2>2, <3>1
    <2>4. Matches(t)' /\ t.replies = s.replies
      BY <1>1, <1>4, <2>1, <2>2, <2>3 DEF Matches, At
    <2>5. QED BY <1>1, <1>3, <1>4, <2>2, <2>4 DEF Together
  <1>6. CASE b.byte # "IAC"
    <2>1. t = At("data", s.verb, <<>>, s.buf, s.frames, o) /\ b.byte = "SE"
      BY <1>2, <1>6 DEF ParsesSubEnd
    <2>2. pos' = "data" /\ (replied = s.replies => replied' = o)
      BY <1>1, <2>1 DEF SubEnd
    <2> HIDE DEF o
    <2>3. Matches(t)' /\ t.replies = o
      BY <1>1, <1>4, <2>1, <2>2 DEF Matches, At
    <2>4. QED BY <1>1, <1>3, <1>4, <2>2, <2>3 DEF Together
  <1>7. QED BY <1>5, <1>6

\* A reader in step stays in step.
LEMMA InStepStep ==
    ASSUME TypeOK, NEW s \in States, NEW b \in Marks, NEW t \in States,
           Beside(s), ~torn, Parses(s, b, t), Reads(b)
    PROVE  Together(b, s, t)
  BY TogetherData, TogetherEnd, TogetherCommand, TogetherOption, TogetherSub, TogetherSubEnd DEF Reads

-----------------------------------------------------------------------------
\* Every step keeps the reader beside the parser.

Inv == TypeOK /\ Followed

LEMMA BesideStep ==
    ASSUME TypeOK, NEW s \in States, NEW b \in Marks, NEW t \in States,
           Beside(s), Parses(s, b, t), Reads(b), pushed' = <<>>
    PROVE  Beside(t)'
  <1>1. torn \in BOOLEAN /\ scraps \in Nat /\ b.end \in BOOLEAN
    BY DEF TypeOK, Marks
  <1>2. mode' = mode /\ cancels' = cancels /\ next' = Len(t.frames)
    BY ReadsKeep, TakeBeside
  <1>3. CASE ~torn
    <2>1. Together(b, s, t)
      BY <1>3, InStepStep
    <2>2. mode = "negotiation" => cancels = 0
      BY DEF Beside
    <2>3. cancels = 0 => got' = t.frames /\ replied' = t.replies
      <3>1. cancels = 0 => got = s.frames /\ replied = s.replies
        BY DEF Beside
      <3>2. t.frames = IF b.end THEN Append(s.frames, s.buf) ELSE s.frames
        BY ParsesFrames
      <3>3. QED BY <2>1, <3>1, <3>2 DEF Together
    <2>4. scraps' + Weight(t.pos)' <= 2 * cancels'
      <3>1. scraps + Weight(s.pos) <= 2 * cancels /\ Weight(s.pos) = 0
        BY <1>3 DEF Beside, Weight
      <3>2. Weight(t.pos)' = 0 /\ scraps' = scraps
        BY <2>1 DEF Together, Weight
      <3>3. QED BY <1>2, <3>1, <3>2
    <2>5. torn' = FALSE /\ Matches(t)' /\ (mode = "negotiation" => buf' = <<>>)
      BY <2>1 DEF Together
    <2>6. QED BY <1>2, <2>2, <2>3, <2>4, <2>5 DEF Beside
  <1>4. CASE torn
    <2>1. /\ cancels # 0 /\ torn' \in BOOLEAN
          /\ scraps' + Weight(t.pos)' <= 2 * cancels'
          /\ ~FrameEnd(b) => torn'
      BY <1>4, TornStep
    <2>2. mode = "read"
      BY <1>4 DEF Beside
    <2>3. ~torn' => Matches(t)'
      <3> SUFFICES ASSUME ~torn' PROVE Matches(t)'
        OBVIOUS
      <3>1. FrameEnd(b)
        BY <2>1
      <3>2. b.end /\ pos' = "data" /\ buf' = <<>>
        BY <1>1, <1>4, <3>1 DEF FrameEnd
      <3>3. ParsesEnd(s, b, t)
        BY <3>2 DEF Parses, ParsesData, ParsesEnd, ParsesCommand, ParsesOption, ParsesSub, ParsesSubEnd
      <3>4. t.pos = "data" /\ t.buf = <<>>
        BY <3>3 DEF ParsesEnd, At
      <3>5. QED BY <3>2, <3>4, TextsNone DEF Matches
    <2>4. QED BY <1>2, <2>1, <2>2, <2>3 DEF Beside
  <1>5. QED BY <1>1, <1>3, <1>4

LEMMA ReadFollowed ==
    ASSUME Inv, NEW b \in Incoming, Reads(b)
    PROVE  Followed' /\ wire' \in Seq(Marks) /\ pushed' = <<>> /\ b \in Marks
  <1> DEFINE f == Between(<<>>, posted, owed)
  <1>1. PICK s \in States : Beside(s) /\ Reaches(s, pushed \o wire, f)
    BY DEF Inv, Followed
  <1>2. Take(b) /\ f' = f
    BY ReadsKeep DEF Between, At
  <1> HIDE DEF f
  <1>3. /\ b \in Marks /\ wire' \in Seq(Marks) /\ pushed' = <<>>
        /\ \E t \in States : Parses(s, b, t) /\ Reaches(t, pushed' \o wire', f)
    BY <1>1, <1>2, TakeParses DEF Inv
  <1>4. PICK t \in States : Parses(s, b, t) /\ Reaches(t, pushed' \o wire', f)
    BY <1>3
  <1>5. Beside(t)'
    BY <1>1, <1>3, <1>4, BesideStep DEF Inv
  <1>6. Reaches(t, pushed' \o wire', f')
    BY <1>2, <1>4
  <1>7. QED BY <1>3, <1>5, <1>6 DEF Followed, f

LEMMA NegotiationFollowed ==
    ASSUME Inv, EndNegotiation
    PROVE  Followed' /\ wire' \in Seq(Marks) /\ pushed' \in Seq(Marks) /\ Len(pushed') = 1
  <1>1. PICK s \in States : Beside(s) /\ Reaches(s, pushed \o wire, Between(<<>>, posted, owed))
    BY DEF Inv, Followed
  <1>2. /\ mode = "negotiation" /\ pos = "data" /\ wire # <<>> /\ Head(wire).byte # "IAC"
        /\ pushed' = <<Head(wire)>> /\ wire' = Tail(wire) /\ mode' = "read"
    BY DEF EndNegotiation
  <1>3. wire \in Seq(Marks) /\ pushed = <<>> /\ torn = FALSE
    BY <1>1, <1>2 DEF Inv, TypeOK, Marks, Beside
  <1>4. Head(wire) \in Marks /\ Tail(wire) \in Seq(Marks)
    BY <1>2, <1>3
  <1>5. <<Head(wire)>> \o Tail(wire) = wire
    <2> DEFINE y == <<Head(wire)>> \o Tail(wire)
               n == Len(wire)
    <2>1. <<Head(wire)>> \in Seq(Marks) /\ Len(<<Head(wire)>>) = 1
      BY <1>4
    <2>2. n \in Nat /\ n >= 1 /\ Head(wire) = wire[1] /\ Len(Tail(wire)) = n - 1
          /\ \A i \in 1..(n - 1) : Tail(wire)[i] = wire[i + 1]
      BY <1>2, <1>3, EmptySeq
    <2>3. /\ y \in Seq(Marks) /\ Len(y) = 1 + (n - 1)
          /\ \A i \in 1..(1 + (n - 1)) : y[i] = IF i <= 1 THEN <<Head(wire)>>[i] ELSE Tail(wire)[i - 1]
      BY <1>4, <2>1, <2>2, ConcatProperties
    <2>4. <<Head(wire)>>[1] = wire[1]
      BY <1>4, <2>2
    <2> HIDE DEF y, n
    <2>5. Len(y) = n /\ \A i \in 1..n : y[i] = wire[i]
      <3>1. Len(y) = n
        BY <2>2, <2>3
      <3>2. ASSUME NEW i \in 1..n PROVE y[i] = wire[i]
        <4>1. CASE i = 1
          BY <2>2, <2>3, <2>4, <4>1
        <4>2. CASE i # 1
          <5>1. i - 1 \in 1..(n - 1) /\ (i - 1) + 1 = i /\ i \in 1..(1 + (n - 1)) /\ ~(i <= 1)
            BY <2>2, <4>2
          <5>2. QED BY <2>2, <2>3, <5>1
        <4>3. QED BY <4>1, <4>2
      <3>3. QED BY <3>1, <3>2
    <2>6. y = wire
      BY <1>3, <2>3, <2>5, SeqEqual DEF n
    <2>7. QED BY <2>6 DEF y
  <1>6. pushed' \o wire' = pushed \o wire
    <2>1. pushed \o wire = wire
      BY <1>3, ConcatEmptySeq
    <2>2. QED BY <1>2, <1>5, <2>1
  <1>7. pushed'[1] = Head(wire) /\ pushed' \in Seq(Marks) /\ Len(pushed') = 1
    BY <1>2, <1>4
  <1>8. Beside(s)'
    <2>1. UNCHANGED <<pos, verb, buf, sub, got, replied, posted, owed, next, torn, cancels, scraps>>
      BY DEF EndNegotiation, history
    <2>2. Matches(s)' /\ Weight(s.pos)' = Weight(s.pos)
      BY <1>1, <1>3, <2>1 DEF Beside, Matches, Weight, Texts
    <2>3. QED BY <1>1, <1>2, <1>3, <1>7, <2>1, <2>2 DEF Beside
  <1>9. Reaches(s, pushed' \o wire', Between(<<>>, posted', owed'))
    BY <1>1, <1>6 DEF EndNegotiation, history
  <1>10. QED BY <1>2, <1>4, <1>7, <1>8, <1>9 DEF Followed

LEMMA SpareTwo ==
    ASSUME NEW k \in Nat, NEW c \in Nat, NEW w \in {0, 1, 2}, NEW u \in {1, 2}, k + w <= 2 * c
    PROVE  k + u <= 2 * (c + 1)
  OBVIOUS

LEMMA CancelFollowed ==
    ASSUME Inv, CancelRead
    PROVE  Followed'
  <1>1. PICK s \in States : Beside(s) /\ Reaches(s, pushed \o wire, Between(<<>>, posted, owed))
    BY DEF Inv, Followed
  <1>2. /\ mode' = "read" /\ pushed' = <<>> /\ torn' = TRUE /\ cancels' = cancels + 1
        /\ scraps' = scraps /\ next' = next /\ wire' = wire /\ pushed' = pushed
        /\ posted' = posted /\ owed' = owed
    BY DEF CancelRead
  <1>3. scraps \in Nat /\ cancels \in Nat /\ torn \in BOOLEAN
    BY BoundsType DEF Inv, TypeOK
  <1>4. Weight(s.pos) \in {0, 1, 2} /\ Weight(s.pos)' \in {1, 2}
    BY <1>2 DEF Weight
  <1>5. scraps + Weight(s.pos)' <= 2 * (cancels + 1)
    BY <1>1, <1>3, <1>4, SpareTwo DEF Beside
  <1>6. cancels' # 0 /\ next' = Len(s.frames)
    BY <1>1, <1>2, <1>3 DEF Beside
  <1>7. Beside(s)'
    BY <1>2, <1>5, <1>6 DEF Beside
  <1>8. QED BY <1>1, <1>2, <1>7 DEF Followed

LEMMA PostedType ==
    ASSUME TypeOK
    PROVE  posted \in Seq(Seq(Bytes)) /\ owed \in Seq(Seq(Bytes))
  BY PayloadsType DEF TypeOK

\* What the host adds to the wire.
LEMMA HostFollowed ==
    ASSUME Inv, NEW m \in Seq(Marks), wire' = wire \o m,
           UNCHANGED <<reader, got, replied, next, torn, cancels, scraps>>,
           Reaches(Between(<<>>, posted, owed), m, Between(<<>>, posted', owed'))
    PROVE  Followed' /\ wire' \in Seq(Marks)
  <1> DEFINE f == Between(<<>>, posted, owed)
             g == Between(<<>>, posted', owed')
  <1>1. PICK s \in States : Beside(s) /\ Reaches(s, pushed \o wire, f)
    BY DEF Inv, Followed
  <1>2. Reaches(f, m, g)
    OBVIOUS
  <1> HIDE DEF f, g
  <1>3. wire \in Seq(Marks) /\ pushed \in Seq(Marks)
    BY DEF Inv, TypeOK, Marks
  <1>4. pushed \o wire \in Seq(Marks) /\ wire \o m \in Seq(Marks)
    BY <1>3
  <1>5. Reaches(s, (pushed \o wire) \o m, g)
    BY <1>1, <1>2, <1>4, ReachCat
  <1>6. (pushed \o wire) \o m = pushed \o (wire \o m)
    BY <1>3, ConcatAssociative
  <1>7. pushed' = pushed
    BY DEF reader
  <1>8. Reaches(s, pushed' \o wire', g)
    BY <1>5, <1>6, <1>7
  <1>9. Beside(s)'
    <2>1. UNCHANGED <<mode, pos, verb, buf, sub, pushed, got, replied, next, torn, cancels, scraps>>
      BY DEF reader
    <2>2. Matches(s)' <=> Matches(s)
      BY <2>1 DEF Matches, Texts
    <2>3. Weight(s.pos)' = Weight(s.pos)
      BY <2>1 DEF Weight
    <2>4. QED BY <1>1, <2>1, <2>2, <2>3 DEF Beside
  <1>10. QED BY <1>4, <1>8, <1>9 DEF Followed, g

LEMMA HostFrameFollowed ==
    ASSUME Inv, NEW p \in Payloads, HostSendsFrame(p)
    PROVE  Followed' /\ wire' \in Seq(Marks)
  <1> DEFINE m == Marked(Encoded(p), Len(posted) + 1)
  <1>1. /\ wire' = wire \o m /\ posted' = Append(posted, p) /\ owed' = owed
        /\ UNCHANGED <<reader, got, replied, next, torn, cancels, scraps>>
    BY DEF HostSendsFrame
  <1>2. m \in Seq(Marks) /\ Reaches(Between(<<>>, posted, owed), m, Between(<<>>, Append(posted, p), owed))
    BY PostedType, ReachPayload DEF Inv
  <1> HIDE DEF m
  <1>3. Reaches(Between(<<>>, posted, owed), m, Between(<<>>, posted', owed'))
    BY <1>1, <1>2
  <1>4. QED BY <1>1, <1>2, <1>3, HostFollowed

LEMMA HostCommandFollowed ==
    ASSUME Inv, NEW c \in Commands, HostSendsCommand(c)
    PROVE  Followed' /\ wire' \in Seq(Marks)
  <1> DEFINE m == Marked(<<c>>, 0)
             r == owed \o Answer(c)
  <1>1. /\ wire' = wire \o m /\ posted' = posted /\ owed' = r
        /\ UNCHANGED <<reader, got, replied, next, torn, cancels, scraps>>
    BY DEF HostSendsCommand
  <1>2. m = Plain(c, 0) /\ m \in Seq(Marks)
    BY CommandParts, MarkedCommand, PlainType
  <1>3. Reaches(Between(<<>>, posted, owed), Plain(c, 0), Between(<<>>, posted, r))
    <2>1. ReachesOver(c, 0)
      BY ReachAnswer
    <2>2. <<>> \in Seq(Bytes)
      OBVIOUS
    <2>3. QED BY <2>1, <2>2, PostedType, Zenon DEF ReachesOver, Inv
  <1> HIDE DEF m, r
  <1>4. Reaches(Between(<<>>, posted, owed), m, Between(<<>>, posted', owed'))
    BY <1>1, <1>2, <1>3
  <1>5. QED BY <1>1, <1>2, <1>4, HostFollowed

LEMMA HostWithinFollowed ==
    ASSUME Inv, NEW p \in Payloads, NEW c \in Commands, NEW i \in 2..(Len(p) + 1),
           HostSendsWithin(p, c, i)
    PROVE  Followed' /\ wire' \in Seq(Marks)
  <1> DEFINE m == Marked(InsertAt(Encoded(p), i, c), Len(posted) + 1)
             r == owed \o Answer(c)
  <1>1. /\ wire' = wire \o m /\ posted' = Append(posted, p) /\ owed' = r
        /\ UNCHANGED <<reader, got, replied, next, torn, cancels, scraps>>
    BY DEF HostSendsWithin
  <1>2. m \in Seq(Marks) /\ Reaches(Between(<<>>, posted, owed), m, Between(<<>>, Append(posted, p), r))
    BY PostedType, ReachWithin DEF Inv
  <1> HIDE DEF m, r
  <1>3. Reaches(Between(<<>>, posted, owed), m, Between(<<>>, posted', owed'))
    BY <1>1, <1>2
  <1>4. QED BY <1>1, <1>2, <1>3, HostFollowed

\* The frames behind the reader are the first of the host's, and the one the parser
\* is in is the next of them.
LEMMA Behind ==
    ASSUME NEW f \in Seq(Seq(Bytes)), NEW r \in Seq(Seq(Bytes)), NEW w \in Seq(Marks),
           NEW s \in States, Reaches(s, w, Between(<<>>, f, r))
    PROVE  Begins(s.frames, f) /\ Begins(s.replies, r) /\ Len(s.frames) \in 0..Len(f)
  <1> DEFINE g == Between(<<>>, f, r)
  <1>1. g.frames = f /\ g.replies = r
    BY DEF Between, At
  <1>2. <<>> \in Seq(Bytes)
    OBVIOUS
  <1>3. g \in States
    BY <1>2, BetweenType
  <1> HIDE DEF g
  <1>4. Begins(s.frames, g.frames) /\ Begins(s.replies, g.replies)
    BY <1>3, ReachMore DEF g
  <1>5. s.frames \in Seq(Seq(Bytes))
    BY DEF States
  <1>6. QED BY <1>1, <1>4, <1>5 DEF Begins

\* The variables of the reader keep their types.
LEMMA ReadTypes ==
    ASSUME TypeOK, NEW b \in Marks, Reads(b)
    PROVE  /\ buf' \in Seq(Marks) /\ pos' \in Positions /\ verb' \in Verbs /\ sub' \in Seq(Bytes)
           /\ got' \in Seq(Seq(Bytes)) /\ replied' \in Seq(Seq(Bytes))
           /\ torn' \in BOOLEAN /\ scraps' \in Nat
  <1>1. /\ buf \in Seq(Marks) /\ pos \in Positions /\ verb \in Verbs /\ sub \in Seq(Bytes)
        /\ got \in Seq(Seq(Bytes)) /\ replied \in Seq(Seq(Bytes))
        /\ torn \in BOOLEAN /\ scraps \in Nat /\ b.byte \in Bytes /\ b.end \in BOOLEAN
    BY DEF TypeOK, Marks, Positions
  <1>2. CASE Data(b)
    <2>1. UNCHANGED <<verb, sub, got, replied, torn, scraps>> /\ pos' \in {"data", "iac"}
      BY <1>2 DEF Data, InStep
    <2>2. buf' = buf \/ buf' = Append(buf, b)
      BY <1>2 DEF Data
    <2>3. buf \in Seq(Marks) /\ Append(buf, b) \in Seq(Marks)
      BY <1>1, AppendProperties
    <2>4. buf' \in Seq(Marks)
      BY <2>2, <2>3
    <2>5. QED BY <1>1, <2>1, <2>4 DEF Positions
  <1>3. CASE FrameEnd(b)
    <2>1. got' = Append(got, Texts(buf)) /\ buf' = <<>> /\ pos' = "data" /\ verb' = verb /\ sub' = sub
          /\ replied' = replied /\ torn' = (torn /\ ~b.end) /\ scraps' = (IF torn THEN scraps + 1 ELSE scraps)
      BY <1>3 DEF FrameEnd, Texts
    <2>2. Texts(buf) \in Seq(Bytes)
      BY <1>1, TextsType
    <2>3. buf' \in Seq(Marks) /\ pos' \in Positions
      BY <2>1 DEF Positions
    <2>4. got' \in Seq(Seq(Bytes))
      BY <1>1, <2>1, <2>2
    <2>5. QED BY <1>1, <2>1, <2>3, <2>4
  <1>4. CASE Command(b)
    BY <1>1, <1>4 DEF Command, InStep, Positions
  <1>5. CASE Option(b)
    <2>1. replied' = replied \o OptionReply(verb, b.byte) /\ pos' = "data"
          /\ UNCHANGED <<buf, verb, sub, got, torn, scraps>>
      BY <1>5 DEF Option, InStep
    <2>2. OptionReply(verb, b.byte) \in Seq(Seq(Bytes))
      BY <1>1, OptionReplyType
    <2>3. replied' \in Seq(Seq(Bytes)) /\ pos' \in Positions
      BY <1>1, <2>1, <2>2, ConcatProperties DEF Positions
    <2>4. QED BY <1>1, <2>1, <2>3
  <1>6. CASE SubByte(b)
    <2>1. UNCHANGED <<buf, verb, got, replied, torn, scraps>> /\ pos' \in {"sub", "subiac"}
      BY <1>6 DEF SubByte, InStep
    <2>2. sub' = sub \/ sub' = Append(sub, b.byte)
      BY <1>6 DEF SubByte
    <2>3. sub \in Seq(Bytes) /\ Append(sub, b.byte) \in Seq(Bytes)
      BY <1>1, AppendProperties
    <2>4. sub' \in Seq(Bytes)
      BY <2>2, <2>3
    <2>5. QED BY <1>1, <2>1, <2>4 DEF Positions
  <1>7. CASE SubEnd(b)
    <2>1. UNCHANGED <<buf, verb, got, torn, scraps>> /\ pos' \in {"data", "sub"}
      BY <1>7 DEF SubEnd, InStep
    <2>2. replied' \in Seq(Seq(Bytes))
      <3>1. replied' = replied \/ replied' = replied \o SubReply(sub)
        BY <1>7 DEF SubEnd
      <3>2. SubReply(sub) \in Seq(Seq(Bytes))
        BY SubReplyType
      <3>3. replied \o SubReply(sub) \in Seq(Seq(Bytes))
        BY <1>1, <3>2, ConcatProperties
      <3>4. QED BY <1>1, <3>1, <3>3
    <2>3. sub' \in Seq(Bytes)
      <3>1. \A x \in Bytes : <<x>> \in Seq(Bytes) /\ <<"IAC", x>> \in Seq(Bytes)
        BY DEF Bytes
      <3>2. \/ sub' = <<>>
            \/ sub' = sub \o <<"IAC">>
            \/ sub' = sub \o <<"IAC", b.byte>>
        BY <1>7 DEF SubEnd
      <3>3. "IAC" \in Bytes /\ <<>> \in Seq(Bytes)
        BY DEF Bytes
      <3>4. sub \o <<"IAC">> \in Seq(Bytes) /\ sub \o <<"IAC", b.byte>> \in Seq(Bytes)
        BY <1>1, <3>1, <3>3, ConcatProperties
      <3>5. QED BY <3>2, <3>3, <3>4
    <2>4. QED BY <1>1, <2>1, <2>2, <2>3 DEF Positions
  <1>8. QED BY <1>2, <1>3, <1>4, <1>5, <1>6, <1>7 DEF Reads

LEMMA InvInit ==
    Init => Inv
  <1> SUFFICES ASSUME Init PROVE Inv
    OBVIOUS
  <1> DEFINE s == Between(<<>>, posted, owed)
  <1>1. TypeOK
    <2>1. <<>> \in Seq(Marks) /\ <<>> \in Seq(Bytes) /\ <<>> \in Seq(Seq(Bytes)) /\ <<>> \in Seq(Payloads)
      OBVIOUS
    <2>2. /\ wire \in Seq(Marks) /\ buf \in Seq(Marks) /\ pushed \in Seq(Marks) /\ sub \in Seq(Bytes)
          /\ got \in Seq(Seq(Bytes)) /\ replied \in Seq(Seq(Bytes)) /\ owed \in Seq(Seq(Bytes))
          /\ posted \in Seq(Payloads)
      BY <2>1 DEF Init
    <2>3. Len(posted) = 0 /\ Len(pushed) = 0
      BY DEF Init
    <2>4. next \in 0..Len(posted) /\ Len(pushed) <= 1
      BY <2>3 DEF Init
    <2>5. /\ mode \in {"negotiation", "read"} /\ pos \in {"data", "iac", "option", "sub", "subiac"}
          /\ verb \in Verbs /\ torn \in BOOLEAN
      BY DEF Init, Verbs
    <2>6. sentCommands \in 0..MaxCommands /\ cancels \in 0..MaxCancels /\ scraps \in Nat
      <3>1. sentCommands = 0 /\ cancels = 0 /\ scraps = 0
        BY DEF Init
      <3>2. QED BY <3>1, BoundsType
    <2>7. QED BY <2>2, <2>4, <2>5, <2>6 DEF TypeOK, Marks
  <1>2. s \in States
    <2>1. <<>> \in Seq(Bytes) /\ <<>> \in Seq(Seq(Bytes))
      OBVIOUS
    <2>2. QED BY <2>1, BetweenType DEF Init
  <1>3. pushed \o wire = <<>>
    BY DEF Init
  <1>4. Beside(s)
    BY TextsNone DEF Init, Beside, Between, At, Matches, Weight
  <1> HIDE DEF s
  <1>5. Reaches(s, pushed \o wire, s)
    BY <1>2, <1>3, ReachNone
  <1>6. QED BY <1>1, <1>2, <1>4, <1>5 DEF Inv, Followed, s

LEMMA InvStep ==
    Inv /\ [Next]_vars => Inv'
  <1> SUFFICES ASSUME Inv, [Next]_vars PROVE Inv'
    OBVIOUS
  <1>1. TypeOK
    BY DEF Inv
  <1>2. /\ wire \in Seq(Marks) /\ buf \in Seq(Marks) /\ pushed \in Seq(Marks) /\ Len(pushed) <= 1
        /\ mode \in {"negotiation", "read"} /\ pos \in Positions /\ verb \in Verbs /\ sub \in Seq(Bytes)
        /\ got \in Seq(Seq(Bytes)) /\ replied \in Seq(Seq(Bytes)) /\ owed \in Seq(Seq(Bytes))
        /\ posted \in Seq(Payloads) /\ posted \in Seq(Seq(Bytes)) /\ next \in 0..Len(posted)
        /\ torn \in BOOLEAN /\ sentCommands \in 0..MaxCommands /\ cancels \in 0..MaxCancels
        /\ scraps \in Nat
    BY <1>1, PostedType DEF TypeOK, Marks, Positions
  <1>3. ASSUME NEW b \in Incoming, Reads(b) PROVE Inv'
    <2>1. Followed' /\ wire' \in Seq(Marks) /\ pushed' = <<>> /\ b \in Marks
      BY <1>3, ReadFollowed
    <2>2. /\ buf' \in Seq(Marks) /\ pos' \in Positions /\ verb' \in Verbs /\ sub' \in Seq(Bytes)
          /\ got' \in Seq(Seq(Bytes)) /\ replied' \in Seq(Seq(Bytes))
          /\ torn' \in BOOLEAN /\ scraps' \in Nat
      BY <1>1, <1>3, <2>1, ReadTypes
    <2>3. /\ mode' = mode /\ posted' = posted /\ owed' = owed
          /\ sentCommands' = sentCommands /\ cancels' = cancels
      BY <1>3, ReadsKeep
    <2>4. pushed' \in Seq(Marks) /\ Len(pushed') <= 1
      BY <2>1
    <2>5. next' \in 0..Len(posted')
      <3>1. PICK s \in States :
               Beside(s)' /\ Reaches(s, pushed' \o wire', Between(<<>>, posted', owed'))
        BY <2>1 DEF Followed
      <3>2. pushed' \o wire' \in Seq(Marks) /\ posted' \in Seq(Seq(Bytes)) /\ owed' \in Seq(Seq(Bytes))
        BY <1>2, <2>1, <2>3, <2>4, ConcatProperties
      <3>3. Len(s.frames) \in 0..Len(posted')
        BY <3>1, <3>2, Behind
      <3>4. QED BY <3>1, <3>3 DEF Beside
    <2>6. QED BY <1>2, <2>1, <2>2, <2>3, <2>4, <2>5 DEF Inv, TypeOK, Marks, Positions
  <1>4. CASE EndNegotiation
    <2>1. Followed' /\ wire' \in Seq(Marks) /\ pushed' \in Seq(Marks) /\ Len(pushed') = 1
      BY <1>4, NegotiationFollowed
    <2>2. mode' = "read" /\ UNCHANGED <<pos, verb, buf, sub, got, replied, history>>
      BY <1>4 DEF EndNegotiation
    <2>3. QED BY <1>2, <2>1, <2>2 DEF Inv, TypeOK, Marks, Positions, history
  <1>5. CASE CancelRead
    <2>1. Followed'
      BY <1>5, CancelFollowed
    <2>2. /\ pos' = "data" /\ buf' = <<>> /\ sub' = <<>> /\ torn' = TRUE /\ cancels' = cancels + 1
          /\ cancels < MaxCancels
          /\ UNCHANGED <<wire, pushed, mode, verb, got, replied, posted, owed, sentCommands, next, scraps>>
      BY <1>5 DEF CancelRead
    <2>3. cancels' \in 0..MaxCancels
      BY <1>2, <2>2, BoundsType
    <2>4. QED BY <1>2, <2>1, <2>2, <2>3 DEF Inv, TypeOK, Marks, Positions
  <1>6. ASSUME NEW p \in Payloads, HostSendsFrame(p) PROVE Inv'
    <2>1. Followed' /\ wire' \in Seq(Marks)
      BY <1>6, HostFrameFollowed
    <2>2. /\ posted' = Append(posted, p)
          /\ UNCHANGED <<reader, got, replied, owed, sentCommands, next, torn, cancels, scraps>>
      BY <1>6 DEF HostSendsFrame
    <2>3. posted' \in Seq(Payloads) /\ next' \in 0..Len(posted')
      BY <1>2, <2>2
    <2>4. QED BY <1>2, <2>1, <2>2, <2>3 DEF Inv, TypeOK, Marks, Positions, reader
  <1>7. ASSUME NEW c \in Commands, HostSendsCommand(c) PROVE Inv'
    <2>1. Followed' /\ wire' \in Seq(Marks)
      BY <1>7, HostCommandFollowed
    <2>2. /\ owed' = owed \o Answer(c) /\ sentCommands' = sentCommands + 1 /\ sentCommands < MaxCommands
          /\ UNCHANGED <<reader, got, replied, posted, next, torn, cancels, scraps>>
      BY <1>7 DEF HostSendsCommand
    <2>3. owed' \in Seq(Seq(Bytes))
      BY <1>2, <1>7, <2>2, AnswerType, ConcatProperties
    <2>4. sentCommands' \in 0..MaxCommands
      BY <1>2, <2>2, BoundsType
    <2>5. QED BY <1>2, <2>1, <2>2, <2>3, <2>4 DEF Inv, TypeOK, Marks, Positions, reader
  <1>8. ASSUME NEW p \in Payloads, NEW c \in Commands, NEW i \in 2..(Len(p) + 1),
               HostSendsWithin(p, c, i)
        PROVE  Inv'
    <2>1. Followed' /\ wire' \in Seq(Marks)
      BY <1>8, HostWithinFollowed
    <2>2. /\ posted' = Append(posted, p)
          /\ owed' = owed \o Answer(c) /\ sentCommands' = sentCommands + 1 /\ sentCommands < MaxCommands
          /\ UNCHANGED <<reader, got, replied, next, torn, cancels, scraps>>
      BY <1>8 DEF HostSendsWithin
    <2>3. owed' \in Seq(Seq(Bytes))
      BY <1>2, <1>8, <2>2, AnswerType, ConcatProperties
    <2>4. sentCommands' \in 0..MaxCommands
      BY <1>2, <2>2, BoundsType
    <2>5. posted' \in Seq(Payloads) /\ next' \in 0..Len(posted')
      BY <1>2, <2>2
    <2>6. QED BY <1>2, <2>1, <2>2, <2>3, <2>4, <2>5 DEF Inv, TypeOK, Marks, Positions, reader
  <1>9. CASE UNCHANGED vars
    BY <1>1, <1>9 DEF Inv, TypeOK, Followed, Beside, Matches, Weight, Texts, vars, reader, history
  <1>10. QED BY <1>3, <1>4, <1>5, <1>6, <1>7, <1>8, <1>9 DEF Next, ReadNext, HostNext, Reads

LEMMA InvTheorem ==
    Spec => []Inv
  BY InvInit, InvStep, PTL DEF Spec

\* The type of every variable.
THEOREM TypeTheorem ==
    Spec => []TypeOK
  <1>1. Inv => TypeOK
    BY DEF Inv
  <1>2. QED BY <1>1, InvTheorem, PTL

LEMMA BeginsIsPrefix ==
    ASSUME NEW S, NEW x \in Seq(S), NEW y \in Seq(S), Begins(x, y)
    PROVE  IsPrefix(x, y)
  <1> DEFINE n == Len(x)
             a == SubSeq(x, 1, n)
             b == SubSeq(y, 1, n)
  <1>1. n \in Nat /\ n <= Len(y) /\ \A i \in 1..n : y[i] = x[i]
    BY DEF Begins
  <1>2. a \in Seq(S) /\ Len(a) = n /\ b \in Seq(S) /\ Len(b) = n
    BY <1>1
  <1>3. \A i \in 1..n : a[i] = x[i] /\ b[i] = y[i]
    BY <1>1
  <1> HIDE DEF a, b
  <1>4. a = b
    BY <1>1, <1>2, <1>3, SeqEqual
  <1>5. QED BY <1>1, <1>4 DEF IsPrefix, a, b

\* Once all bytes are read and no read was cancelled, the session has had every
\* frame of the host, in order and whole (read_frame(), _pushback).
THEOREM NothingLostTheorem ==
    Spec => []NothingLost
  <1>1. Inv => NothingLost
    <2> SUFFICES ASSUME Inv, wire = <<>>, pushed = <<>>, cancels = 0 PROVE got = posted
      BY DEF NothingLost
    <2> DEFINE f == Between(<<>>, posted, owed)
    <2>1. PICK s \in States : Beside(s) /\ Reaches(s, pushed \o wire, f)
      BY DEF Inv, Followed
    <2>2. pushed \o wire = <<>>
      OBVIOUS
    <2>3. f.frames = posted
      BY DEF Between, At
    <2> HIDE DEF f
    <2>4. s = f
      BY <2>1, <2>2, ReachEnd
    <2>5. got = s.frames
      BY <2>1 DEF Beside
    <2>6. QED BY <2>3, <2>4, <2>5
  <1>2. QED BY <1>1, InvTheorem, PTL

\* What the negotiator has answered is the beginning of what the host's commands
\* call for, and all of it once they are read: each is answered once and in its
\* turn, and no data is taken for one (_handle_option(), _handle_subnegotiation()).
THEOREM AnswersTheorem ==
    Spec => []AnswersInOrder
  <1>1. Inv => AnswersInOrder
    <2> SUFFICES ASSUME Inv, cancels = 0
                 PROVE  IsPrefix(replied, owed) /\ (wire = <<>> => replied = owed)
      BY DEF AnswersInOrder
    <2> DEFINE f == Between(<<>>, posted, owed)
               w == pushed \o wire
    <2>1. PICK s \in States : Beside(s) /\ Reaches(s, w, f)
      BY DEF Inv, Followed
    <2>2. /\ wire \in Seq(Marks) /\ pushed \in Seq(Marks) /\ Len(pushed) <= 1
          /\ replied \in Seq(Seq(Bytes)) /\ owed \in Seq(Seq(Bytes)) /\ posted \in Seq(Seq(Bytes))
      BY PostedType DEF Inv, TypeOK, Marks
    <2>3. w \in Seq(Marks)
      BY <2>2
    <2>4. replied = s.replies /\ ~torn
      BY <2>1 DEF Beside
    <2>5. Begins(s.replies, owed)
      BY <2>1, <2>2, <2>3, Behind
    <2>6. IsPrefix(replied, owed)
      BY <2>2, <2>4, <2>5, BeginsIsPrefix
    <2>7. f.replies = owed
      BY DEF Between, At
    <2>8. ASSUME wire = <<>> PROVE replied = owed
      <3>1. w = pushed
        BY <2>2, <2>8, ConcatEmptySeq
      <3> HIDE DEF f, w
      <3>2. CASE pushed = <<>>
        <4>1. s = f
          BY <2>1, <3>1, <3>2, ReachEnd
        <4>2. QED BY <2>4, <2>7, <4>1
      <3>3. CASE pushed # <<>>
        <4>1. Len(pushed) = 1 /\ pushed[1] \in Marks /\ Tail(pushed) = <<>> /\ Head(pushed) = pushed[1]
          BY <2>2, <3>3, OneByte
        <4>2. PICK t \in States : Parses(s, pushed[1], t) /\ Reaches(t, <<>>, f)
          BY <2>1, <2>2, <3>1, <3>3, <4>1, ReachFirst
        <4>3. t = f
          BY <4>2, ReachEnd
        <4>4. s.pos = "data"
          BY <2>1, <2>4, <3>3 DEF Beside, Matches
        <4>5. ParsesData(s, pushed[1], t)
          BY <4>2, <4>4 DEF Parses, ParsesData, ParsesEnd, ParsesCommand, ParsesOption, ParsesSub, ParsesSubEnd
        <4>6. t.replies = s.replies
          BY <4>5 DEF ParsesData, At
        <4>7. QED BY <2>4, <2>7, <4>3, <4>6
      <3>4. QED BY <3>2, <3>3
    <2>9. QED BY <2>6, <2>8
  <1>2. QED BY <1>1, InvTheorem, PTL

-----------------------------------------------------------------------------
\* The channel of frames.

LEMMA AppendBegins ==
    ASSUME NEW S, NEW x \in Seq(S), NEW e \in S
    PROVE  Len(Append(x, e)) = Len(x) + 1 /\ SubSeq(Append(x, e), 1, Len(x)) = x
  <1> DEFINE y == Append(x, e)
             n == Len(x)
             z == SubSeq(y, 1, n)
  <1>1. n \in Nat /\ y \in Seq(S) /\ Len(y) = n + 1 /\ \A i \in 1..n : y[i] = x[i]
    OBVIOUS
  <1>2. z \in Seq(S) /\ Len(z) = n /\ \A i \in 1..n : z[i] = y[i]
    BY <1>1
  <1> HIDE DEF y, z
  <1>3. z = x
    BY <1>1, <1>2, SeqEqual DEF n
  <1>4. QED BY <1>1, <1>3 DEF y, z

\* The frame the parser ends is the next of the host's.
LEMMA EndsNext ==
    ASSUME NEW f \in Seq(Seq(Bytes)), NEW r \in Seq(Seq(Bytes)), NEW w \in Seq(Marks),
           NEW s \in States, NEW b, b.end, NEW t \in States, Parses(s, b, t),
           Reaches(t, w, Between(<<>>, f, r))
    PROVE  Len(s.frames) < Len(f) /\ f[Len(s.frames) + 1] = s.buf
  <1>1. t.frames = Append(s.frames, s.buf)
    BY ParsesFrames
  <1>2. s.frames \in Seq(Seq(Bytes)) /\ s.buf \in Seq(Bytes)
    BY DEF States
  <1>3. Begins(t.frames, f)
    BY Behind
  <1> DEFINE n == Len(s.frames)
  <1>4. n \in Nat /\ Len(t.frames) = n + 1 /\ t.frames[n + 1] = s.buf
    BY <1>1, <1>2
  <1>5. Len(f) \in Nat
    OBVIOUS
  <1> HIDE DEF n
  <1>6. n + 1 \in 1..(n + 1)
    BY <1>4
  <1>7. n + 1 <= Len(f) /\ \A i \in 1..(n + 1) : f[i] = t.frames[i]
    BY <1>3, <1>4, Zenon DEF Begins
  <1>8. n + 1 <= Len(f) /\ f[n + 1] = s.buf
    BY <1>4, <1>6, <1>7
  <1>9. QED BY <1>4, <1>5, <1>8 DEF n

LEMMA ChannelRead ==
    ASSUME Inv, NEW b \in Incoming, Reads(b)
    PROVE  [Channel!Next]_Channel!vars
  <1> DEFINE f == Between(<<>>, posted, owed)
  <1>1. PICK s \in States : Beside(s) /\ Reaches(s, pushed \o wire, f)
    BY DEF Inv, Followed
  <1>2. /\ Take(b) /\ posted' = posted /\ owed' = owed /\ cancels' = cancels
        /\ ~FrameEnd(b) => torn' = torn /\ scraps' = scraps /\ got' = got
    BY ReadsKeep
  <1>3. /\ b \in Marks /\ wire' \in Seq(Marks) /\ pushed' = <<>>
        /\ \E t \in States : Parses(s, b, t) /\ Reaches(t, pushed' \o wire', f)
    BY <1>1, <1>2, TakeParses DEF Inv
  <1>4. PICK t \in States : Parses(s, b, t) /\ Reaches(t, pushed' \o wire', f)
    BY <1>3
  <1>5. pushed' \o wire' \in Seq(Marks)
    BY <1>3
  <1>6. /\ posted \in Seq(Seq(Bytes)) /\ owed \in Seq(Seq(Bytes)) /\ got \in Seq(Seq(Bytes))
        /\ buf \in Seq(Marks)
        /\ torn \in BOOLEAN /\ scraps \in Nat /\ cancels \in Nat /\ b.end \in BOOLEAN
        /\ s.frames \in Seq(Seq(Bytes)) /\ s.buf \in Seq(Bytes)
    BY <1>3, PostedType, BoundsType DEF Inv, TypeOK, Marks, States
  <1>7. next = Len(s.frames) /\ next' = Len(t.frames)
    BY <1>1, <1>3, <1>4, <1>2, TakeBeside DEF Beside
  <1>8. /\ t.frames = IF b.end THEN Append(s.frames, s.buf) ELSE s.frames
        /\ Len(t.frames) \in 0..Len(posted)
    BY <1>4, <1>5, <1>6, ParsesFrames, Behind
  <1>9. next \in Nat /\ next' = (IF b.end THEN next + 1 ELSE next) /\ next' <= Len(posted)
    BY <1>6, <1>7, <1>8
  <1>10. CASE ~torn
    <2>1. Together(b, s, t)
      BY <1>1, <1>3, <1>4, <1>10, InStepStep DEF Inv
    <2>2. torn' = FALSE /\ torn = FALSE /\ scraps' = scraps
          /\ got' = IF b.end THEN Append(got, s.buf) ELSE got
      BY <1>6, <1>10, <2>1 DEF Together
    <2>3. CASE b.end
      <3>1. next < Len(posted) /\ posted[next + 1] = s.buf
        BY <1>4, <1>5, <1>6, <1>7, <2>3, EndsNext
      <3>2. Channel!Read
        BY <1>2, <1>9, <2>2, <2>3, <3>1 DEF Channel!Read
      <3>3. QED BY <3>2 DEF Channel!Next
    <2>4. CASE ~b.end
      BY <1>2, <1>9, <2>2, <2>4 DEF Channel!vars
    <2>5. QED BY <1>6, <2>3, <2>4
  <1>11. CASE torn
    <2>1. /\ FrameEnd(b) => scraps' = scraps + 1 /\ scraps < 2 * cancels
          /\ torn' \in BOOLEAN
      BY <1>1, <1>3, <1>4, <1>11, TornStep DEF Inv
    <2>2. Channel!Passed
      BY <1>2, <1>6, <1>9 DEF Channel!Passed
    <2>3. CASE FrameEnd(b)
      <3>1. got' = Append(got, Texts(buf)) /\ Texts(buf) \in Seq(Bytes)
        BY <1>6, <2>3, TextsType DEF FrameEnd, Texts
      <3>2. Len(got') = Len(got) + 1 /\ SubSeq(got', 1, Len(got)) = got
        BY <1>6, <3>1, AppendBegins
      <3>3. 2 * cancels - scraps > 0 /\ 2 * cancels' - scraps' = (2 * cancels - scraps) - 1
        BY <1>2, <1>6, <2>1, <2>3
      <3>4. Channel!Scrap
        BY <1>2, <1>11, <2>1, <2>2, <3>2, <3>3 DEF Channel!Scrap
      <3>5. QED BY <3>4 DEF Channel!Next
    <2>4. CASE ~FrameEnd(b)
      <3>1. Channel!Pass
        BY <1>2, <1>11, <2>2, <2>4 DEF Channel!Pass
      <3>2. QED BY <3>1 DEF Channel!Next
    <2>5. QED BY <2>3, <2>4
  <1>12. QED BY <1>6, <1>10, <1>11

LEMMA ChannelPost ==
    ASSUME Inv, NEW p \in Payloads, posted' = Append(posted, p),
           UNCHANGED <<got, next, torn, scraps, cancels>>
    PROVE  Channel!Next
  <1>1. posted \in Seq(Payloads)
    BY DEF Inv, TypeOK
  <1>2. Len(posted') = Len(posted) + 1 /\ SubSeq(posted', 1, Len(posted)) = posted
    BY <1>1, AppendBegins
  <1>3. QED BY <1>2 DEF Channel!Next, Channel!Post

LEMMA ChannelStep ==
    Inv /\ [Next]_vars => [Channel!Next]_Channel!vars
  <1> SUFFICES ASSUME Inv, [Next]_vars PROVE [Channel!Next]_Channel!vars
    OBVIOUS
  <1>1. ASSUME NEW b \in Incoming, Reads(b) PROVE [Channel!Next]_Channel!vars
    BY <1>1, ChannelRead
  <1>2. CASE EndNegotiation
    BY <1>2 DEF EndNegotiation, history, Channel!vars
  <1>3. CASE CancelRead
    <2>1. scraps \in Nat /\ cancels \in Nat
      BY BoundsType DEF Inv, TypeOK
    <2>2. torn' = TRUE /\ cancels' = cancels + 1 /\ scraps' = scraps /\ UNCHANGED <<posted, got, next>>
      BY <1>3 DEF CancelRead
    <2>3. 2 * cancels' - scraps' = (2 * cancels - scraps) + 2
      BY <2>1, <2>2
    <2>4. QED BY <2>2, <2>3 DEF Channel!Next, Channel!Cancel
  <1>4. ASSUME NEW p \in Payloads, HostSendsFrame(p) PROVE Channel!Next
    BY <1>4, ChannelPost DEF HostSendsFrame
  <1>5. ASSUME NEW c \in Commands, HostSendsCommand(c) PROVE UNCHANGED Channel!vars
    BY <1>5 DEF HostSendsCommand, Channel!vars
  <1>6. ASSUME NEW p \in Payloads, NEW c \in Commands, NEW i \in 2..(Len(p) + 1),
               HostSendsWithin(p, c, i)
        PROVE  Channel!Next
    BY <1>6, ChannelPost DEF HostSendsWithin
  <1>7. CASE UNCHANGED vars
    BY <1>7 DEF vars, history, Channel!vars
  <1>8. QED BY <1>1, <1>2, <1>3, <1>4, <1>5, <1>6, <1>7 DEF Next, ReadNext, HostNext, Reads

\* Stream and negotiator implement the channel of frames: the session gets the
\* host's frames whole and in order whatever commands come between and within them,
\* and a cancelled read costs it frames and at most two scraps, until the reader
\* has found the end of a frame (TelnetStream, TelnetNegotiator).
THEOREM ChannelTheorem ==
    Spec => ChannelSpec
  <1>1. Init => Channel!Init
    <2>1. Init => 2 * cancels - scraps = 0
      BY DEF Init
    <2>2. QED BY <2>1 DEF Init, Channel!Init
  <1>2. QED BY <1>1, ChannelStep, InvTheorem, PTL DEF Spec, ChannelSpec, Channel!Spec

=============================================================================
