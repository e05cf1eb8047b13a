---------------------------- MODULE SessionCalls ----------------------------
(***************************************************************************)
(* What a Tn5250Session promises the server about a key: how the call may  *)
(* end, given the state of the connection when it ends.  Module Session is *)
(* shown to keep the promise, module Server relies on it.                  *)
(***************************************************************************)

\* The stream still has its writer, so that a key can be written and close() has
\* something to close.
Writable == {"open", "eof", "reset", "closing"}

\* A screen, with or without the timeout warning; an OSError, which makes the
\* server reconnect; or another exception, which does not.
KeyOutcomes(conn) ==
    CASE conn \in {"open", "eof"} -> {"screen", "timeout", "error"}
      [] conn = "reset"           -> {"timeout", "oserror"}
      [] conn = "closing"         -> {"screen", "timeout", "error", "oserror"}
      [] conn = "closed"          -> {"timeout", "error", "oserror"}
=============================================================================
