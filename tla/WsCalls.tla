------------------------------ MODULE WsCalls ------------------------------
(***************************************************************************)
(* The calls over one connection to a gateway: callers register what they  *)
(* wait for under a fresh id, write their frame one at a time, and wait;   *)
(* the read pump hands each reply to the caller that the table names, and  *)
(* when the connection dies it fails everybody.                            *)
(*                                                                         *)
(* Calls are numbered, for the properties: call is the number, id what the *)
(* frames bear.  A reply is the number of the call that the gateway        *)
(* answers.  Frames that are no replies and the handshake are left out.    *)
(***************************************************************************)
EXTENDS Naturals

CONSTANTS Callers,
          Reason,       \* the frame that failAllPending queues
          Bare,         \* "ws: connection closed"
          Error,        \* the write failed, or the context ended
          Nobody,
          MaxCalls      \* calls that are ever made

ASSUME CallAssumption ==
    /\ MaxCalls \in Nat
    /\ Reason \notin {Bare, Error, Nobody} /\ Bare \notin {Error, Nobody} /\ Error # Nobody
    /\ {Reason, Bare, Error, Nobody} \cap Nat = {}
    /\ Nobody \notin Callers

VARIABLES caller,       \* the callers: where, under what id, for what request, with what result
          nextID,
          pending,      \* the table: who waits for an id
          queued,       \* what is in the channel of an id
          writer,       \* who holds the write token
          wire,         \* requests that the gateway has
          replies,      \* replies on their way
          pump,         \* the read pump
          hand,         \* the reply that it is handing over
          socket        \* whether the connection is open at this end

callVars == <<caller, nextID, pending, queued, writer, wire, replies, pump, hand, socket>>

Ids == 1..MaxCalls

IsAt(c, step) == caller[c].step = step
Goes(c, step) == caller' = [caller EXCEPT ![c].step = step]
Returns(c, result) == caller' = [caller EXCEPT ![c] = [@ EXCEPT !.step = "idle", !.result = result]]
Forget(id) == pending' = [pending EXCEPT ![id] = Nobody]

-----------------------------------------------------------------------------
\* Call.

NewId == nextID + 1

Register(c) ==
    /\ IsAt(c, "idle") /\ nextID < MaxCalls
    /\ nextID' = nextID + 1
    /\ pending' = [pending EXCEPT ![NewId] = c]
    /\ queued' = [queued EXCEPT ![NewId] = Nobody]
    /\ caller' = [caller EXCEPT ![c] = [step |-> "token", id |-> NewId, call |-> nextID + 1,
                                       result |-> Nobody]]
    /\ UNCHANGED <<writer, wire, replies, pump, hand, socket>>

\* acquireWrite, under the caller's context.
Acquire(c) ==
    /\ IsAt(c, "token") /\ writer = Nobody
    /\ writer' = c
    /\ Goes(c, "write")
    /\ UNCHANGED <<nextID, pending, queued, wire, replies, pump, hand, socket>>

\* A write that fails, the context's end included, releases the token too.
ReleaseUnlessDead(c) == writer' = IF socket = "open" THEN Nobody ELSE writer
Release(c) == writer' = IF writer = c THEN Nobody ELSE writer

WriteFrame(c) ==
    /\ IsAt(c, "write") /\ socket = "open"
    /\ wire' = wire \cup {[id |-> caller[c].id, call |-> caller[c].call]}
    /\ Release(c)
    /\ Goes(c, "wait")
    /\ UNCHANGED <<nextID, pending, queued, replies, pump, hand, socket>>

WriteFails(c) ==
    /\ IsAt(c, "write")
    /\ Release(c)
    /\ Forget(caller[c].id)
    /\ Returns(c, Error)
    /\ UNCHANGED <<nextID, queued, wire, replies, pump, hand, socket>>

Abandon(c) ==
    /\ IsAt(c, "token") \/ IsAt(c, "wait")
    /\ Forget(caller[c].id)
    /\ Returns(c, Error)
    /\ UNCHANGED <<nextID, queued, writer, wire, replies, pump, hand, socket>>

Receive(c) ==
    /\ IsAt(c, "wait") /\ queued[caller[c].id] # Nobody
    /\ Returns(c, queued[caller[c].id])
    /\ UNCHANGED <<nextID, pending, queued, writer, wire, replies, pump, hand, socket>>

\* done is closed: drainedOutcome looks into the channel once more.
DoneFirst(id) == IF pump = "done" THEN Bare ELSE queued[id]
Drained(id) == IF queued[id] # Nobody THEN queued[id] ELSE Bare

SeesDone(c) ==
    /\ IsAt(c, "wait") /\ pump = "done"
    /\ Returns(c, Drained(caller[c].id))
    /\ UNCHANGED <<nextID, pending, queued, writer, wire, replies, pump, hand, socket>>

-----------------------------------------------------------------------------
\* The gateway answers in any order, or never.

Answer(request) ==
    /\ request \in wire
    /\ wire' = wire \ {request} /\ replies' = replies \cup {request}
    /\ UNCHANGED <<caller, nextID, pending, queued, writer, pump, hand, socket>>

\* The read pump.  deliver takes the channel out of the table under the lock, and
\* queues the frame after.
Take(reply) ==
    /\ pump = "read" /\ reply \in replies
    /\ replies' = replies \ {reply}
    /\ IF pending[reply.id] = Nobody THEN UNCHANGED <<pump, hand>>
       ELSE pump' = "deliver" /\ hand' = reply
    /\ Forget(reply.id)
    /\ UNCHANGED <<caller, nextID, queued, writer, wire, socket>>

Deliver ==
    /\ pump = "deliver" /\ pump' = "read"
    /\ queued' = [queued EXCEPT ![hand.id] = hand.call]
    /\ hand' = Nobody
    /\ UNCHANGED <<caller, nextID, pending, writer, wire, replies, socket>>

\* The connection dies, or is closed: the pump's Read fails.
Die ==
    /\ pump = "read"
    /\ pump' = "broken"
    /\ UNCHANGED <<caller, nextID, pending, queued, writer, wire, replies, hand, socket>>

\* What the pump does then: close the connection, so that no frame is written any
\* more, and only then fail what is pending.
CloseSocket(here, next) ==
    /\ pump = here /\ pump' = next
    /\ socket' = "closed"
    /\ UNCHANGED <<caller, nextID, pending, queued, writer, wire, replies, hand>>

FailAllPending(here, next) ==
    /\ pump = here /\ pump' = next
    /\ pending' = [id \in Ids |-> Nobody]
    /\ queued' = [id \in Ids |-> IF pending[id] # Nobody /\ queued[id] = Nobody
                                 THEN Reason ELSE queued[id]]
    /\ UNCHANGED <<caller, nextID, writer, wire, replies, hand, socket>>

UnwindAfterFailing == FailAllPending("broken", "fail") \/ CloseSocket("fail", "closing")
Unwind == CloseSocket("broken", "fail") \/ FailAllPending("fail", "closing")

CloseDone ==
    /\ pump = "closing" /\ pump' = "done"
    /\ UNCHANGED <<caller, nextID, pending, queued, writer, wire, replies, hand, socket>>

-----------------------------------------------------------------------------
CallInit ==
    /\ caller = [c \in Callers |-> [step |-> "idle", id |-> 0, call |-> 0, result |-> Nobody]]
    /\ nextID = 0
    /\ pending = [id \in Ids |-> Nobody] /\ queued = [id \in Ids |-> Nobody]
    /\ writer = Nobody
    /\ wire = {} /\ replies = {}
    /\ pump = "read" /\ hand = Nobody /\ socket = "open"

PumpStep == (\E r \in replies : Take(r)) \/ Deliver \/ Unwind \/ CloseDone

CallStep(c) == WriteFrame(c) \/ WriteFails(c) \/ Receive(c) \/ SeesDone(c)

CallNext ==
    \/ \E c \in Callers : Register(c) \/ Acquire(c) \/ CallStep(c) \/ Abandon(c)
    \/ \E request \in wire : Answer(request)
    \/ PumpStep \/ Die

CallSpec == CallInit /\ [][CallNext]_callVars

\* The pump reads on, a write ends, and the token is handed to each in turn.
CallFairness ==
    /\ WF_callVars(PumpStep)
    /\ \A c \in Callers : WF_callVars(CallStep(c)) /\ SF_callVars(Acquire(c))

-----------------------------------------------------------------------------
\* A reply reaches the call that asked, even when a call before it on the same
\* connection has given up and its reply comes late; and a caller whose frame says why
\* the connection died is not told less (client.go:577-593).
OwnReply ==
    \A c \in Callers : IsAt(c, "idle") =>
        /\ caller[c].result \in Ids => caller[c].result = caller[c].call
        /\ caller[c].result = Bare => queued[caller[c].id] = Nobody

\* The table has the calls that are under way and no others: a call that registers
\* while the pump comes to its end leaves nothing behind.
NoneLeaks ==
    \A id \in Ids : pending[id] # Nobody =>
        LET c == pending[id] IN caller[c].id = id /\ ~IsAt(c, "idle")

\* When the connection has died every call returns, without its context's help, and none
\* keeps the write token.
CallsEnd ==
    \A c \in Callers :
      []<>(pump \in {"read", "deliver"} \/ (IsAt(c, "idle") /\ writer # c))
=============================================================================
