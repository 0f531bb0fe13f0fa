------------------------------- MODULE SseHub -------------------------------
(***************************************************************************)
(* The SSE hub of internal/server/ssehub.go, for one session key: the one  *)
(* slot that the key has in Hub.active, and the streams that compete for   *)
(* it.  The hub treats keys independently, so one key shows every case.    *)
(*                                                                         *)
(* Closing a stream takes two critical sections, the stream's own mutex    *)
(* first and the hub's second.  They are two actions here: between them    *)
(* the slot is still taken, by a stream that no longer accepts a write.    *)
(*                                                                         *)
(* Heartbeats and the bytes of an event are not modelled.                  *)
(***************************************************************************)
CONSTANTS
    Handlers,   \* the HTTP requests that open a stream, one stream each
    None        \* no stream, no run

ASSUME HandlersAssumption == None \notin Handlers

VARIABLES
    active,     \* the stream Hub.active holds for the key, or None
    closed      \* the streams whose closedCh is closed

hubVars == <<active, closed>>

HubTypeOK ==
    /\ active \in Handlers \cup {None}
    /\ closed \subseteq Handlers

HubInit ==
    /\ active = None
    /\ closed = {}

Free == active = None

\* A mutant: Open replaces whatever stream the slot holds.
OpenReplacing(h) ==
    /\ active' = h
    /\ UNCHANGED closed

\* Hub.Open, when the key has no stream; otherwise it fails with the conflict
\* that the handlers answer 409.
Open(h) ==
    /\ Free
    /\ active' = h
    /\ UNCHANGED closed

\* The first half of Stream.Close: under the stream's mutex, once.
MarkClosed(h) ==
    /\ closed' = closed \cup {h}
    /\ UNCHANGED active

\* The second half, Hub.remove: a stream removes itself, never a successor.
Remove(h) ==
    /\ active' = IF active = h THEN None ELSE active
    /\ UNCHANGED closed

\* Stream.Send writes unless the stream is closed.
Writable(h) == h \notin closed
=============================================================================
