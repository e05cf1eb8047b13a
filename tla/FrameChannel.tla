---------------------------- MODULE FrameChannel ----------------------------
(***************************************************************************)
(* What TelnetStream.read_frame() promises the session, without a byte:    *)
(* the peer's frames come whole and in order, none left out, until a read  *)
(* is cancelled by its timeout.  From there on frames may be passed over,  *)
(* and at most two scraps for each cancelled read are taken for frames,    *)
(* until the reader has found a frame's end again.                         *)
(***************************************************************************)
EXTENDS Integers, Sequences

VARIABLES
    posted,   \* the frames of the peer
    got,      \* what read_frame() returned
    next,     \* how many of the peer's frames are behind the reader
    torn,     \* a cancelled read has left the reader inside a frame
    scraps    \* scraps that may still be taken for frames

vars == <<posted, got, next, torn, scraps>>

Init == posted = <<>> /\ got = <<>> /\ next = 0 /\ torn = FALSE /\ scraps = 0

Post ==
    /\ Len(posted') = Len(posted) + 1 /\ SubSeq(posted', 1, Len(posted)) = posted
    /\ UNCHANGED <<got, next, torn, scraps>>

Read ==
    /\ ~torn /\ next < Len(posted)
    /\ got' = Append(got, posted[next + 1])
    /\ next' = next + 1
    /\ UNCHANGED <<posted, torn, scraps>>

Cancel ==
    /\ torn' = TRUE /\ scraps' = scraps + 2
    /\ UNCHANGED <<posted, got, next>>

Passed == next' \in next..Len(posted)

Scrap ==
    /\ torn /\ scraps > 0 /\ scraps' = scraps - 1
    /\ Len(got') = Len(got) + 1 /\ SubSeq(got', 1, Len(got)) = got
    /\ Passed /\ torn' \in BOOLEAN
    /\ UNCHANGED posted

Pass == torn /\ Passed /\ UNCHANGED <<posted, got, torn, scraps>>

Next == Post \/ Read \/ Cancel \/ Scrap \/ Pass

Spec == Init /\ [][Next]_vars
=============================================================================
