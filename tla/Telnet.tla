------------------------------- MODULE Telnet -------------------------------
(***************************************************************************)
(* TelnetStream (tn5250/stream.py) and TelnetNegotiator (protocol.py), byte *)
(* by byte: frames delimited by IAC EOR with IAC doubled inside, telnet     *)
(* commands between and within them, the negotiation that ends with the     *)
(* first byte of data, and read_frame() cancelled at any of its awaits.     *)
(*                                                                         *)
(* A byte is named for its meaning; any of them may be data as well.  The   *)
(* frame a byte belongs to, and whether it is the last of it, is history:   *)
(* no action tests it.                                                      *)
(***************************************************************************)
EXTENDS Integers, Sequences, SequencesExt

CONSTANTS
    Payloads,    \* the frames the host sends
    Commands,    \* the telnet commands it sends
    MaxFrames,   \* bound: frames
    MaxCommands, \* bound: telnet commands
    MaxSent,     \* bound: frames and commands together
    MaxCancels   \* bound: reads cancelled

\* BIN stands for BINARY and END-OF-RECORD, which the code treats alike; OTHER for
\* an option it refuses, NOP for a command it does not know.
Verbs == {"DO", "DONT", "WILL", "WONT"}
Bytes == Verbs \cup {"IAC", "EOR", "SB", "SE", "NOP", "TTYPE", "ENV", "BIN", "OTHER",
                     "SEND", "x"}

\* Every IAC of s is doubled; first holds the places of the first of each two.
Escaped(s) ==
    \E first \in SUBSET (1..(Len(s) - 1)) :
        /\ \A i \in 1..Len(s) : s[i] = "IAC" <=> i \in first \/ i - 1 \in first
        /\ \A i \in first : i + 1 \notin first

\* A telnet command: an option, a subnegotiation, or another of two bytes that is
\* neither a doubled IAC nor the end of a frame.
IsCommand(c) ==
    /\ Len(c) >= 2 /\ c[1] = "IAC"
    /\ \/ c[2] \in Verbs /\ Len(c) = 3 /\ c[3] # "IAC"
       \/ /\ c[2] = "SB" /\ Len(c) >= 4 /\ c[Len(c) - 1] = "IAC" /\ c[Len(c)] = "SE"
          /\ Escaped(SubSeq(c, 3, Len(c) - 2))
       \/ c[2] \notin Verbs \cup {"SB", "IAC", "EOR"} /\ Len(c) = 2

\* A frame starts with the high byte of its length, which is never IAC.
ASSUME PayloadsType == Payloads \subseteq {p \in Seq(Bytes) : p # <<>> /\ p[1] # "IAC"}
ASSUME CommandsType == Commands \subseteq {c \in Seq(Bytes) : IsCommand(c)}
ASSUME BoundsType   ==
    MaxFrames \in Nat /\ MaxCommands \in Nat /\ MaxSent \in Nat /\ MaxCancels \in Nat

VARIABLES
    \* the bytes on the wire, and the one _pushback holds
    wire, pushed,
    \* the coroutine that reads: run_initial_negotiation() or read_frame(), what
    \* it expects next, the verb it has read, its two local buffers
    mode, pos, verb, buf, sub,
    \* what read_frame() returned, what the negotiator answered
    got, replied,
    \* history: the host's frames and the answers owed to its commands, how many
    \* of each it sent, the last frame whose end was read, whether the reader is
    \* out of step with the frames, cancelled reads, frames returned out of step
    posted, owed, sentCommands, next, torn, cancels, scraps

reader  == <<mode, pos, verb, buf, sub, pushed>>
history == <<posted, owed, sentCommands, next, torn, cancels, scraps>>
vars    == <<wire, reader, got, replied, history>>

Init ==
    /\ wire = <<>> /\ pushed = <<>>
    /\ mode = "negotiation" /\ pos = "data" /\ verb = "DO" /\ buf = <<>> /\ sub = <<>>
    /\ got = <<>> /\ replied = <<>>
    /\ posted = <<>> /\ owed = <<>> /\ sentCommands = 0 /\ next = 0 /\ torn = FALSE
    /\ cancels = 0 /\ scraps = 0

-----------------------------------------------------------------------------
\* The answers of the negotiator.

\* _handle_option(): agree to what a 5250 needs, refuse the rest.
OptionReply(v, option) ==
    CASE v = "DO"   -> <<<<IF option \in {"TTYPE", "ENV", "BIN"} THEN "WILL" ELSE "WONT", option>>>>
      [] v = "WILL" -> <<<<IF option = "BIN" THEN "DO" ELSE "DONT", option>>>>
      [] OTHER      -> <<>>

\* _handle_subnegotiation(): the terminal type when asked for, the environment
\* whatever is asked.
SubReply(s) ==
    CASE s # <<>> /\ s[1] = "ENV"                                 -> <<<<"SB", "ENV">>>>
      [] s # <<>> /\ s[1] = "TTYPE" /\ Len(s) > 1 /\ s[2] = "SEND" -> <<<<"SB", "TTYPE">>>>
      [] OTHER                                                    -> <<>>

-----------------------------------------------------------------------------
\* The reader.

\* _read_raw_byte(): the next byte, the pushed back one first.
Incoming == IF pushed \o wire = <<>> THEN {} ELSE {Head(pushed \o wire)}

Take(b) ==
    /\ IF pushed = <<>>
       THEN wire' = Tail(wire) /\ pushed' = <<>>
       ELSE UNCHANGED wire /\ pushed' = Tail(pushed)
    /\ next' = IF b.end THEN b.frame ELSE next
    /\ UNCHANGED <<posted, owed, sentCommands, cancels>>

InStep == UNCHANGED <<torn, scraps>>

\* A mistake NothingLost must catch: the byte that ends the loop is not pushed back.
FirstByteDropped ==
    /\ mode = "negotiation" /\ pos = "data" /\ wire # <<>> /\ Head(wire).byte # "IAC"
    /\ wire' = Tail(wire) /\ mode' = "read"
    /\ UNCHANGED <<pushed, pos, verb, buf, sub, got, replied, history>>

\* The first byte of data ends the negotiation and goes back.
EndNegotiation ==
    /\ mode = "negotiation" /\ pos = "data" /\ wire # <<>> /\ Head(wire).byte # "IAC"
    /\ pushed' = <<Head(wire)>> /\ wire' = Tail(wire)
    /\ mode' = "read"
    /\ UNCHANGED <<pos, verb, buf, sub, got, replied, history>>

Data(b) ==
    /\ pos = "data" /\ Take(b)
    /\ \/ b.byte = "IAC" /\ pos' = "iac" /\ UNCHANGED buf
       \/ b.byte # "IAC" /\ mode = "read" /\ buf' = Append(buf, b) /\ UNCHANGED pos
    /\ InStep /\ UNCHANGED <<mode, verb, sub, got, replied>>

\* IAC EOR ends the frame.  The negotiation skips it, as it does a doubled IAC.
FrameEnd(b) ==
    /\ mode = "read" /\ pos = "iac" /\ Take(b) /\ b.byte = "EOR"
    /\ got' = Append(got, [i \in 1..Len(buf) |-> buf[i].byte])
    /\ buf' = <<>> /\ pos' = "data"
    /\ torn' = (torn /\ ~b.end)
    /\ scraps' = IF torn THEN scraps + 1 ELSE scraps
    /\ UNCHANGED <<mode, verb, sub, replied>>

\* A mistake TypeOK must catch: every command is taken to have an option.
OptionExpected(b) ==
    /\ pos = "iac" /\ Take(b) /\ ~(mode = "read" /\ b.byte = "EOR")
    /\ pos' = CASE b.byte = "SB"  -> "sub"
                [] b.byte = "IAC" -> "data"
                [] OTHER          -> "option"
    /\ verb' = b.byte /\ sub' = <<>>
    /\ buf' = IF mode = "read" /\ b.byte = "IAC" THEN Append(buf, b) ELSE buf
    /\ InStep /\ UNCHANGED <<mode, got, replied>>

Command(b) ==
    /\ pos = "iac" /\ Take(b) /\ ~(mode = "read" /\ b.byte = "EOR")
    /\ pos' = CASE b.byte \in Verbs -> "option"
                [] b.byte = "SB"    -> "sub"
                [] OTHER            -> "data"
    /\ verb' = IF b.byte \in Verbs THEN b.byte ELSE verb
    /\ sub' = <<>>
    /\ buf' = IF mode = "read" /\ b.byte = "IAC" THEN Append(buf, b) ELSE buf
    /\ InStep /\ UNCHANGED <<mode, got, replied>>

\* A mistake AnswersInOrder must catch: a later answer overtakes an earlier one.
AnswersOvertake(b) ==
    /\ pos = "option" /\ Take(b)
    /\ replied' = OptionReply(verb, b.byte) \o replied
    /\ pos' = "data"
    /\ InStep /\ UNCHANGED <<mode, verb, buf, sub, got>>

Option(b) ==
    /\ pos = "option" /\ Take(b)
    /\ replied' = replied \o OptionReply(verb, b.byte)
    /\ pos' = "data"
    /\ InStep /\ UNCHANGED <<mode, verb, buf, sub, got>>

\* _read_subnegotiation(): up to IAC SE, in whichever mode.
SubByte(b) ==
    /\ pos = "sub" /\ Take(b)
    /\ \/ b.byte = "IAC" /\ pos' = "subiac" /\ UNCHANGED sub
       \/ b.byte # "IAC" /\ sub' = Append(sub, b.byte) /\ UNCHANGED pos
    /\ InStep /\ UNCHANGED <<mode, verb, buf, got, replied>>

SubEnd(b) ==
    /\ pos = "subiac" /\ Take(b)
    /\ \/ /\ b.byte = "SE"
          /\ replied' = replied \o SubReply(sub)
          /\ pos' = "data" /\ sub' = <<>>
       \/ /\ b.byte # "SE"
          /\ sub' = sub \o (IF b.byte = "IAC" THEN <<"IAC">> ELSE <<"IAC", b.byte>>)
          /\ pos' = "sub" /\ UNCHANGED replied
    /\ InStep /\ UNCHANGED <<mode, verb, buf, got>>

\* wait_for cancels read_frame() at an await: its local buffers and its place are
\* gone.  Only a byte from the wire is awaited.
CancelRead ==
    /\ mode = "read" /\ pushed = <<>> /\ cancels < MaxCancels
    /\ pos # "data" \/ buf # <<>>
    /\ pos' = "data" /\ buf' = <<>> /\ sub' = <<>>
    /\ torn' = TRUE /\ cancels' = cancels + 1
    /\ UNCHANGED <<wire, pushed, mode, verb, got, replied, posted, owed, sentCommands, next, scraps>>

-----------------------------------------------------------------------------
\* The host.  It encodes as write_frame() does.

\* A mistake the channel must catch: IAC is not doubled.
Undoubled(b) == <<b>>

Doubled(b) == IF b = "IAC" THEN <<"IAC", "IAC">> ELSE <<b>>

\* write_frame(): what goes out for each byte of the payload, then IAC EOR.
Encoded(payload) == [i \in 1..Len(payload) |-> Doubled(payload[i])] \o <<<<"IAC", "EOR">>>>

\* The bytes of units, marked with the frame they are of.
Marked(units, frame) ==
    LET bytes == FlattenSeq(units)
    IN  [i \in 1..Len(bytes) |-> [byte |-> bytes[i], frame |-> frame,
                                  end |-> frame > 0 /\ i = Len(bytes)]]

\* The answer a command calls for.
Answer(command) ==
    CASE command[2] \in Verbs -> OptionReply(command[2], command[3])
      [] command[2] = "SB"    -> SubReply(SubSeq(command, 3, Len(command) - 2))
      [] OTHER                -> <<>>

HostSendsFrame(payload) ==
    /\ Len(posted) < MaxFrames /\ Len(posted) + sentCommands < MaxSent
    /\ wire' = wire \o Marked(Encoded(payload), Len(posted) + 1)
    /\ posted' = Append(posted, payload)
    /\ UNCHANGED <<reader, got, replied, owed, sentCommands, next, torn, cancels, scraps>>

HostSendsCommand(command) ==
    /\ sentCommands < MaxCommands /\ Len(posted) + sentCommands < MaxSent
    /\ wire' = wire \o Marked(<<command>>, 0)
    /\ owed' = owed \o Answer(command) /\ sentCommands' = sentCommands + 1
    /\ UNCHANGED <<reader, got, replied, posted, next, torn, cancels, scraps>>

\* A command inside a frame, before its unit i.
HostSendsWithin(payload, command, i) ==
    /\ Len(posted) < MaxFrames /\ sentCommands < MaxCommands
    /\ Len(posted) + sentCommands + 1 < MaxSent
    /\ wire' = wire \o Marked(InsertAt(Encoded(payload), i, command), Len(posted) + 1)
    /\ posted' = Append(posted, payload)
    /\ owed' = owed \o Answer(command) /\ sentCommands' = sentCommands + 1
    /\ UNCHANGED <<reader, got, replied, next, torn, cancels, scraps>>

HostNext ==
    \/ \E p \in Payloads : HostSendsFrame(p)
    \/ \E c \in Commands : HostSendsCommand(c)
    \/ \E p \in Payloads, c \in Commands : \E i \in 2..(Len(p) + 1) : HostSendsWithin(p, c, i)

ReadNext ==
    \/ EndNegotiation
    \/ \E b \in Incoming :
          Data(b) \/ FrameEnd(b) \/ Command(b) \/ Option(b) \/ SubByte(b) \/ SubEnd(b)

Next == ReadNext \/ CancelRead \/ HostNext

Spec == Init /\ [][Next]_vars

-----------------------------------------------------------------------------
\* Properties

\* The type of every variable.
TypeOK ==
    /\ wire \in Seq([byte : Bytes, frame : Nat, end : BOOLEAN])
    /\ buf \in Seq([byte : Bytes, frame : Nat, end : BOOLEAN])
    /\ pushed \in Seq([byte : Bytes, frame : Nat, end : BOOLEAN]) /\ Len(pushed) <= 1
    /\ mode \in {"negotiation", "read"} /\ pos \in {"data", "iac", "option", "sub", "subiac"}
    /\ verb \in Verbs /\ sub \in Seq(Bytes) /\ got \in Seq(Seq(Bytes))
    /\ replied \in Seq(Seq(Bytes)) /\ owed \in Seq(Seq(Bytes))
    /\ posted \in Seq(Payloads) /\ next \in 0..Len(posted) /\ torn \in BOOLEAN
    /\ sentCommands \in 0..MaxCommands /\ cancels \in 0..MaxCancels /\ scraps \in Nat

\* Stream and negotiator implement the channel of frames: telnet commands
\* anywhere, escapes, the pushed back byte and the cancelled reads make no other
\* difference to the session than FrameChannel says.
Channel == INSTANCE FrameChannel WITH scraps <- 2 * cancels - scraps
ChannelSpec == Channel!Spec

\* Nothing is lost on the way: when all bytes have been read and no read was
\* cancelled, the session has had every frame (read_frame, _pushback).
NothingLost == wire = <<>> /\ pushed = <<>> /\ cancels = 0 => got = posted

\* Every telnet command is answered once and in its turn, wherever it comes, and
\* no data is taken for one (_handle_option, _handle_subnegotiation).
AnswersInOrder ==
    cancels = 0 => /\ IsPrefix(replied, owed)
                   /\ wire = <<>> => replied = owed
=============================================================================
