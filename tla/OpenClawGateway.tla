--------------------------- MODULE OpenClawGateway ---------------------------
(***************************************************************************)
(* The OpenClaw gateway as the platform sees it over one user's WebSocket: *)
(* the runs of one session.  The gateway is not part of the repository.    *)
(* This module is what internal/server and internal/openclaw/ws rely on:   *)
(*                                                                         *)
(*  - a session executes one run at a time; a message sent to a busy       *)
(*    session waits and is promoted as the run ahead of it ends;           *)
(*  - a run may park on a question or an approval until a human (or the    *)
(*    gateway's own expiry) settles it;                                    *)
(*  - chat.abort with a run id stops that run or nothing;                  *)
(*  - the gateway handles the frames of a connection in the order they     *)
(*    were written, and its events and replies arrive in the order it      *)
(*    sent them.                                                           *)
(***************************************************************************)
EXTENDS Sequences, FiniteSets

CONSTANTS
    Runs        \* run ids; the platform generates its own before it sends

VARIABLES
    run,        \* each run: "new", "queued", "running" or "over"
    ending,     \* how it ended: "completed", "error", "stopped", or "none"
    ask,        \* its human decision: "none", the kind that is pending
                \* ("question", "approval"), "answered", "cancelled"
    connected,  \* the user's WebSocket is up
    subscribed, \* sessions.messages.subscribe is in force on it
    events,     \* terminal frames on their way to the platform, by run
    wire        \* frames whose senders gave up, still on their way

gatewayVars == <<run, ending, ask, connected, subscribed, events, wire>>

Endings == {"completed", "error", "stopped"}
Frames  == [op : {"send", "abort"}, run : Runs]

GatewayTypeOK ==
    /\ run \in [Runs -> {"new", "queued", "running", "over"}]
    /\ ending \in [Runs -> Endings \cup {"none"}]
    /\ ask \in [Runs -> {"none", "question", "approval", "answered", "cancelled"}]
    /\ connected \in BOOLEAN
    /\ subscribed \in BOOLEAN
    /\ events \in Seq(Runs)
    /\ wire \subseteq Frames

GatewayInit ==
    /\ run = [r \in Runs |-> "new"]
    /\ ending = [r \in Runs |-> "none"]
    /\ ask = [r \in Runs |-> "none"]
    /\ connected = FALSE
    /\ subscribed = FALSE
    /\ events = <<>>
    /\ wire = {}

InFlight == {r \in Runs : run[r] = "running"}
Queued   == {r \in Runs : run[r] = "queued"}
Busy     == InFlight # {}

Pending(kind) == {r \in Runs : ask[r] = kind}
Parked        == Pending("question") \cup Pending("approval")

\* A call gets its reply: whatever was written before it has been handled.
Answers == connected /\ wire = {}

\* sessions.send: the run starts, or waits behind the one in flight.
Accept(r) ==
    run' = IF run[r] # "new" THEN run
           ELSE [run EXCEPT ![r] = IF Busy THEN "queued" ELSE "running"]

\* Run r ends and the next queued run is promoted.  The approval of r is
\* cancelled with it; its question may be left behind, which is why a Stop
\* settles even an idle session.
Finish(r, how) ==
    /\ \/ Queued = {} /\ run' = [run EXCEPT ![r] = "over"]
       \/ \E q \in Queued : run' = [run EXCEPT ![r] = "over", ![q] = "running"]
    /\ ending' = [ending EXCEPT ![r] = how]
    /\ events' = IF subscribed THEN Append(events, r) ELSE events
    /\ \/ ask' = [ask EXCEPT ![r] = IF r \in Parked THEN "cancelled" ELSE @]
       \/ ask[r] = "question" /\ UNCHANGED ask

\* chat.abort with a run id; `aborted` is what it answers.  A run in flight
\* may refuse it ("session-abortable-only").
Kill(r, aborted) ==
    \/ /\ aborted
       /\ r \in InFlight
       /\ Finish(r, "stopped")
    \/ /\ ~aborted
       /\ UNCHANGED <<run, ending, ask, events>>

\* A run asks a human and waits.
Park(r) ==
    /\ r \in InFlight
    /\ ask[r] = "none"
    /\ \E kind \in {"question", "approval"} : ask' = [ask EXCEPT ![r] = kind]
    /\ UNCHANGED <<run, ending, connected, subscribed, events, wire>>

\* The human answers, or the gateway expires the record: the run continues.
Decide(r) ==
    /\ r \in Parked
    /\ ask' = [ask EXCEPT ![r] = "answered"]
    /\ UNCHANGED <<run, ending, connected, subscribed, events, wire>>

\* A run that waits for nobody ends by itself.
End(r) ==
    /\ r \in InFlight \ Parked
    /\ \E how \in {"completed", "error"} : Finish(r, how)
    /\ UNCHANGED <<connected, subscribed, wire>>

\* A frame whose sender gave up on the reply is handled after all.
HandleLate(f) ==
    /\ connected
    /\ f \in wire
    /\ wire' = wire \ {f}
    /\ \/ f.op = "send" /\ Accept(f.run) /\ UNCHANGED <<ending, ask, events>>
       \/ f.op = "abort" /\ \E aborted \in BOOLEAN : Kill(f.run, aborted)
    /\ UNCHANGED <<connected, subscribed>>
=============================================================================
