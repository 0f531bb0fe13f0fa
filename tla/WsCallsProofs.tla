--------------------------- MODULE WsCallsProofs ---------------------------
(***************************************************************************)
(* Proofs about WsCalls, for any number of callers and of calls.           *)
(***************************************************************************)
EXTENDS WsCalls, Integers, TLAPS

-----------------------------------------------------------------------------
(* The inductive invariant.                                                *)

Marks == {Reason, Bare, Error, Nobody}

CallerState == [step : {"idle", "token", "write", "wait"}, id : 0..MaxCalls,
                call : 0..MaxCalls, result : Ids \cup Marks]

Types ==
    /\ caller \in [Callers -> CallerState]
    /\ nextID \in 0..MaxCalls
    /\ pending \in [Ids -> Callers \cup {Nobody}]
    /\ queued \in [Ids -> Ids \cup {Reason, Nobody}]

\* A frame bears the number of its call, which has been given out.
Numbered(frame) == frame.id \in 1..nextID /\ frame.call = frame.id

Frames == \A frame \in wire \cup replies : Numbered(frame)

\* Every id is somebody's: nobody waits for one that is answered or under way to its
\* channel, and what is in its channel is its own reply, or the reason.
Channel(id) ==
    /\ pending[id] # Nobody =>
         /\ id <= nextID
         /\ caller[pending[id]].id = id
         /\ ~IsAt(pending[id], "idle")
    /\ queued[id] # Nobody => pending[id] = Nobody
    /\ queued[id] \in Ids => queued[id] = id

Waits(c) ==
    /\ caller[c].id <= nextID /\ caller[c].call = caller[c].id
    /\ ~IsAt(c, "idle") => caller[c].id \in Ids
    /\ caller[c].result \in Ids => caller[c].result = caller[c].call
    /\ caller[c].result = Bare =>
         caller[c].id \in Ids /\ pump = "done" /\ queued[caller[c].id] = Nobody
    \* Who wrote its frame did so before the socket was closed, and the pump has failed it.
    /\ IsAt(c, "wait") /\ pump \in {"closing", "done"} => pending[caller[c].id] = Nobody

Pump ==
    /\ pump = "deliver" => Numbered(hand) /\ pending[hand.id] = Nobody
    /\ pump \in {"fail", "closing", "done"} => socket = "closed"

Inv ==
    /\ Types /\ Frames /\ Pump
    /\ \A id \in Ids : Channel(id)
    /\ \A c \in Callers : Waits(c)

-----------------------------------------------------------------------------
LEMMA InvInit == CallInit => Inv
  <1> SUFFICES ASSUME CallInit PROVE Inv
    OBVIOUS
  <1> USE CallAssumption
  <1>1. Types
    BY DEF CallInit, Types, CallerState, Marks, Ids
  <1>2. Frames /\ Pump
    BY DEF CallInit, Frames, Pump
  <1>3. ASSUME NEW id \in Ids PROVE Channel(id)
    BY <1>3 DEF CallInit, Channel, Ids
  <1>4. ASSUME NEW c \in Callers PROVE Waits(c)
    BY DEF CallInit, Waits, IsAt, Ids
  <1> QED BY <1>1, <1>2, <1>3, <1>4 DEF Inv

\* A caller that is in the table is so under its own id only.
LEMMA OwnEntry ==
  ASSUME Inv, NEW c \in Callers, NEW id \in Ids, pending[id] = c
  PROVE  caller[c].id = id /\ ~IsAt(c, "idle")
  BY CallAssumption DEF Inv, Channel

-----------------------------------------------------------------------------
(* The caller's steps.                                                     *)

LEMMA RegisterStep == ASSUME Inv, NEW c \in Callers, Register(c) PROVE Inv'
  <1> USE CallAssumption
  <1> DEFINE k == [step |-> "token", id |-> NewId, call |-> nextID + 1, result |-> Nobody]
  <1>1. /\ IsAt(c, "idle") /\ NewId = nextID + 1 /\ NewId \in Ids /\ nextID \in 0..MaxCalls
        /\ nextID' = nextID + 1 /\ nextID' \in 0..MaxCalls
        /\ pending' = [pending EXCEPT ![NewId] = c]
        /\ queued' = [queued EXCEPT ![NewId] = Nobody]
        /\ caller' = [caller EXCEPT ![c] = k]
        /\ UNCHANGED <<wire, replies, pump, hand, socket>>
    BY DEF Register, NewId, Ids, Inv, Types
  <1>2. k \in CallerState /\ k.step = "token" /\ k.id = NewId /\ k.call = NewId /\ k.result = Nobody
    BY <1>1 DEF CallerState, Marks, Ids
  <1> HIDE DEF k
  <1>3. Types'
    BY <1>1, <1>2 DEF Inv, Types
  <1>4. Frames'
    BY <1>1 DEF Inv, Frames, Numbered
  <1>5. Pump'
    BY <1>1 DEF Inv, Pump, Numbered, Types, Ids
  <1>6. ASSUME NEW id \in Ids PROVE Channel(id)'
    <2>1. CASE id = NewId
      BY <2>1, <1>1, <1>2 DEF Inv, Types, Channel, IsAt, Ids
    <2>2. CASE id # NewId
      <3>1. pending'[id] = pending[id] /\ queued'[id] = queued[id]
        BY <2>2, <1>1 DEF Inv, Types
      <3>2. ASSUME pending[id] # Nobody PROVE pending[id] \in Callers \ {c}
        BY <3>2, <1>1, OwnEntry DEF Inv, Types
      <3> QED BY <1>1, <3>1, <3>2 DEF Inv, Types, Channel, IsAt
    <2> QED BY <2>1, <2>2
  <1>7. ASSUME NEW d \in Callers PROVE Waits(d)'
    <2>1. CASE d = c
      BY <2>1, <1>1, <1>2 DEF Inv, Types, Waits, IsAt, Ids
    <2>2. CASE d # c
      <3>1. caller'[d] = caller[d] /\ Waits(d) /\ caller[d].id # NewId /\ caller[d] \in CallerState
        BY <2>2, <1>1 DEF Inv, Types, Waits, CallerState
      <3>2. caller[d].id \in Ids => pending'[caller[d].id] = pending[caller[d].id]
                                     /\ queued'[caller[d].id] = queued[caller[d].id]
        BY <1>1, <3>1 DEF Inv, Types
      <3> QED BY <1>1, <3>1, <3>2 DEF Waits, IsAt, CallerState
    <2> QED BY <2>1, <2>2
  <1> QED BY <1>3, <1>4, <1>5, <1>6, <1>7 DEF Inv

\* A call moves on, without a change to the table.
LEMMA MoveStep ==
  ASSUME Inv, NEW c \in Callers, NEW step \in {"write", "wait"}, ~IsAt(c, "idle"), Goes(c, step),
         step = "wait" => socket = "open",
         UNCHANGED <<nextID, pending, queued, replies, pump, hand, socket>>,
         wire' \subseteq wire \cup {[id |-> caller[c].id, call |-> caller[c].call]}
  PROVE  Inv'
  <1> USE CallAssumption
  <1>0. caller[c] \in CallerState /\ caller[c].id \in 1..nextID /\ caller[c].call = caller[c].id
    BY DEF Inv, Types, Waits, CallerState, Ids
  <1>1. caller' = [caller EXCEPT ![c] = [caller[c] EXCEPT !.step = step]]
    BY DEF Goes
  <1>2. caller' \in [Callers -> CallerState]
    BY <1>0, <1>1 DEF Inv, Types, CallerState
  <1>3. \A d \in Callers : /\ caller'[d].id = caller[d].id /\ caller'[d].call = caller[d].call
                           /\ caller'[d].result = caller[d].result
                           /\ (IsAt(d, "idle")' <=> IsAt(d, "idle"))
                           /\ IsAt(d, "wait")' => IsAt(d, "wait") \/ socket = "open"
    BY <1>0, <1>1 DEF Inv, Types, CallerState, IsAt
  <1>4. Types'
    BY <1>2 DEF Inv, Types
  <1>5. Frames'
    BY <1>0 DEF Inv, Frames, Numbered
  <1>6. Pump'
    BY DEF Inv, Pump, Numbered
  <1>7. ASSUME NEW id \in Ids PROVE Channel(id)'
    BY <1>3 DEF Inv, Types, Channel
  <1>8. ASSUME NEW d \in Callers PROVE Waits(d)'
    BY <1>3 DEF Inv, Waits, Pump
  <1> QED BY <1>4, <1>5, <1>6, <1>7, <1>8 DEF Inv

\* A call returns, and nobody waits under its id any more.
LEMMA ReturnStep ==
  ASSUME Inv, NEW c \in Callers, NEW result \in Ids \cup Marks, ~IsAt(c, "idle"),
         Returns(c, result),
         result \in Ids => result = caller[c].call,
         result = Bare => pump = "done" /\ queued[caller[c].id] = Nobody,
         \/ pending' = pending /\ pending[caller[c].id] = Nobody
         \/ Forget(caller[c].id),
         UNCHANGED <<nextID, queued, wire, replies, pump, hand, socket>>
  PROVE  Inv'
  <1> USE CallAssumption
  <1>0. caller[c] \in CallerState /\ caller[c].id \in Ids /\ caller[c].call = caller[c].id
    BY DEF Inv, Types, Waits
  <1>1. caller' = [caller EXCEPT ![c] = [caller[c] EXCEPT !.step = "idle", !.result = result]]
    BY DEF Returns
  <1>2. caller' \in [Callers -> CallerState]
    BY <1>0, <1>1 DEF Inv, Types, CallerState
  <1>3. /\ pending' \in [Ids -> Callers \cup {Nobody}]
        /\ \A id \in Ids : pending'[id] \in {pending[id], Nobody}
        /\ pending'[caller[c].id] = Nobody
    BY <1>0 DEF Inv, Types, Forget
  <1>4. /\ \A d \in Callers : d # c => caller'[d] = caller[d]
        /\ caller'[c].id = caller[c].id /\ caller'[c].call = caller[c].call
        /\ caller'[c].step = "idle" /\ caller'[c].result = result
    BY <1>0, <1>1 DEF Inv, Types, CallerState
  <1>5. Types'
    BY <1>2, <1>3 DEF Inv, Types
  <1>6. Frames'
    BY DEF Inv, Frames, Numbered
  <1>7. Pump'
    BY <1>3 DEF Inv, Pump, Numbered, Types, Ids
  <1>8. ASSUME NEW id \in Ids PROVE Channel(id)'
    <2>1. ASSUME pending'[id] # Nobody PROVE pending'[id] = pending[id] /\ pending[id] \in Callers \ {c}
      BY <2>1, <1>3, OwnEntry DEF Inv, Types
    <2> QED BY <1>3, <1>4, <2>1 DEF Inv, Channel, IsAt
  <1>9. ASSUME NEW d \in Callers PROVE Waits(d)'
    <2>1. CASE d = c
      BY <2>1, <1>0, <1>4 DEF Inv, Waits, IsAt, Marks
    <2>2. CASE d # c
      BY <2>2, <1>3, <1>4 DEF Inv, Waits, IsAt
    <2> QED BY <2>1, <2>2
  <1> QED BY <1>5, <1>6, <1>7, <1>8, <1>9 DEF Inv

LEMMA CallerStep ==
  ASSUME Inv, NEW c \in Callers, Acquire(c) \/ CallStep(c) \/ Abandon(c)
  PROVE  Inv'
  <1> USE CallAssumption
  <1>0. caller[c] \in CallerState /\ Waits(c)
    BY DEF Inv, Types
  <1>1. CASE Acquire(c)
    BY <1>1, MoveStep DEF Acquire, IsAt
  <1>2. CASE WriteFrame(c)
    <2>1. wire' = wire \cup {[id |-> caller[c].id, call |-> caller[c].call]}
      BY <1>2 DEF WriteFrame
    <2> QED BY <1>2, <2>1, MoveStep DEF WriteFrame, IsAt
  <1>3. CASE WriteFails(c) \/ Abandon(c)
    <2>1. ~IsAt(c, "idle") /\ Error \in Marks /\ Error # Bare /\ Error \notin Ids
      BY <1>3 DEF WriteFails, Abandon, IsAt, Marks, Ids
    <2> QED BY <1>3, <2>1, ReturnStep DEF WriteFails, Abandon
  <1>4. CASE Receive(c)
    <2> DEFINE id == caller[c].id
    <2>1. ~IsAt(c, "idle") /\ id \in Ids
      BY <1>0, <1>4 DEF Receive, IsAt, Waits
    <2>2. pending[id] = Nobody /\ queued[id] \in Ids \cup {Reason}
          /\ (queued[id] \in Ids => queued[id] = id)
      BY <1>4, <2>1 DEF Receive, Inv, Types, Channel
    <2>3. queued[id] \in Ids \cup Marks /\ queued[id] # Bare
      BY <2>2 DEF Marks, Ids
    <2> QED BY <1>0, <1>4, <2>1, <2>2, <2>3, ReturnStep DEF Receive, Waits
  <1>5. CASE SeesDone(c)
    <2> DEFINE id == caller[c].id
    <2>1. ~IsAt(c, "idle") /\ id \in Ids /\ pump = "done" /\ pending[id] = Nobody
      BY <1>0, <1>5 DEF SeesDone, IsAt, Waits
    <2>2. /\ Drained(id) \in Ids \cup Marks
          /\ Drained(id) \in Ids => Drained(id) = id
          /\ Drained(id) = Bare => queued[id] = Nobody
      BY <2>1 DEF Drained, Marks, Ids, Inv, Types, Channel
    <2> QED BY <1>0, <1>5, <2>1, <2>2, ReturnStep DEF SeesDone, Waits
  <1> QED BY <1>1, <1>2, <1>3, <1>4, <1>5 DEF CallStep

-----------------------------------------------------------------------------
(* The gateway and the read pump.                                          *)

LEMMA TakeStep == ASSUME Inv, NEW reply \in replies, Take(reply) PROVE Inv'
  <1> USE CallAssumption
  <1>0. reply.id \in Ids /\ Numbered(reply) /\ pump = "read"
    BY DEF Take, Inv, Frames, Numbered, Types, Ids
  <1>1. /\ pending' = [pending EXCEPT ![reply.id] = Nobody]
        /\ pump' \in {"read", "deliver"} /\ (pump' = "deliver" => hand' = reply)
        /\ replies' \subseteq replies
        /\ UNCHANGED <<caller, nextID, queued, wire, socket>>
    BY <1>0 DEF Take, Forget
  <1>2. Types' /\ \A id \in Ids : pending'[id] \in {pending[id], Nobody}
    BY <1>1 DEF Inv, Types
  <1>3. Frames'
    BY <1>1 DEF Inv, Frames, Numbered
  <1>4. Pump'
    BY <1>0, <1>1 DEF Inv, Types, Pump, Numbered
  <1>5. ASSUME NEW id \in Ids PROVE Channel(id)'
    BY <1>1, <1>2 DEF Inv, Channel, IsAt
  <1>6. ASSUME NEW c \in Callers PROVE Waits(c)'
    BY <1>0, <1>1 DEF Inv, Waits, IsAt
  <1> QED BY <1>2, <1>3, <1>4, <1>5, <1>6 DEF Inv

LEMMA DeliverStep == ASSUME Inv, Deliver PROVE Inv'
  <1> USE CallAssumption
  <1>0. hand.id \in Ids /\ hand.call = hand.id /\ pending[hand.id] = Nobody
        /\ pump = "deliver" /\ pump' = "read"
    BY DEF Deliver, Inv, Pump, Numbered, Types, Ids
  <1>1. /\ queued' = [queued EXCEPT ![hand.id] = hand.id]
        /\ UNCHANGED <<caller, nextID, pending, wire, replies, socket>>
    BY <1>0 DEF Deliver
  <1>2. Types'
    BY <1>0, <1>1 DEF Inv, Types
  <1>3. Frames' /\ Pump'
    BY <1>0, <1>1 DEF Inv, Frames, Pump, Numbered
  <1>4. ASSUME NEW id \in Ids PROVE Channel(id)'
    BY <1>0, <1>1 DEF Inv, Types, Channel, IsAt
  <1>5. ASSUME NEW c \in Callers PROVE Waits(c)'
    BY <1>0, <1>1 DEF Inv, Waits, IsAt
  <1> QED BY <1>2, <1>3, <1>4, <1>5 DEF Inv

LEMMA FailStep == ASSUME Inv, FailAllPending("fail", "closing") PROVE Inv'
  <1> USE CallAssumption
  <1>0. /\ pump = "fail" /\ pump' = "closing" /\ socket = "closed"
        /\ UNCHANGED <<caller, nextID, wire, replies, hand, socket>>
        /\ pending' = [id \in Ids |-> Nobody]
        /\ queued' = [id \in Ids |-> IF pending[id] # Nobody /\ queued[id] = Nobody
                                     THEN Reason ELSE queued[id]]
    BY DEF FailAllPending, Inv, Pump
  <1>1. Types'
    BY <1>0 DEF Inv, Types
  <1>2. Frames' /\ Pump'
    BY <1>0 DEF Inv, Frames, Pump, Numbered
  <1>3. ASSUME NEW id \in Ids PROVE Channel(id)'
    <2>1. pending'[id] = Nobody /\ queued'[id] \in {queued[id], Reason} /\ Reason \notin Ids
      BY <1>0 DEF Ids
    <2> QED BY <2>1 DEF Inv, Channel
  <1>4. ASSUME NEW c \in Callers PROVE Waits(c)'
    BY <1>0 DEF Inv, Waits, IsAt
  <1> QED BY <1>1, <1>2, <1>3, <1>4 DEF Inv

LEMMA InvNext == Inv /\ [CallNext]_callVars => Inv'
  <1> SUFFICES ASSUME Inv, [CallNext]_callVars PROVE Inv'
    OBVIOUS
  <1>1. ASSUME NEW c \in Callers, Register(c) PROVE Inv'
    BY <1>1, RegisterStep
  <1>2. ASSUME NEW c \in Callers, Acquire(c) \/ CallStep(c) \/ Abandon(c) PROVE Inv'
    BY <1>2, CallerStep
  <1>3. ASSUME NEW reply \in replies, Take(reply) PROVE Inv'
    BY <1>3, TakeStep
  <1>4. CASE Deliver
    BY <1>4, DeliverStep
  <1>5. CASE FailAllPending("fail", "closing")
    BY <1>5, FailStep
  <1>6. ASSUME NEW request \in wire, Answer(request) PROVE Inv'
    <2>1. wire' \cup replies' = wire \cup replies
          /\ UNCHANGED <<caller, nextID, pending, queued, pump, hand, socket>>
      BY <1>6 DEF Answer
    <2> QED BY <2>1 DEF Inv, Types, Frames, Pump, Numbered, Channel, Waits, IsAt
  <1>7. CASE Die \/ CloseSocket("broken", "fail") \/ CloseDone \/ UNCHANGED callVars
    <2>1. /\ UNCHANGED <<caller, nextID, pending, queued, wire, replies, hand>>
          /\ \/ pump = "read" /\ pump' = "broken" /\ socket' = socket
             \/ pump = "broken" /\ pump' = "fail" /\ socket' = "closed"
             \/ pump = "closing" /\ pump' = "done" /\ socket' = socket
             \/ pump' = pump /\ socket' = socket
      BY <1>7 DEF Die, CloseSocket, CloseDone, callVars
    <2>2. Types' /\ Frames'
      BY <2>1 DEF Inv, Types, Frames, Numbered
    <2>3. Pump'
      BY <2>1 DEF Inv, Pump, Numbered
    <2>4. \A id \in Ids : Channel(id)'
      BY <2>1 DEF Inv, Channel, IsAt
    <2>5. \A c \in Callers : Waits(c)'
      BY <2>1 DEF Inv, Waits, IsAt
    <2> QED BY <2>2, <2>3, <2>4, <2>5 DEF Inv
  <1> QED BY <1>1, <1>2, <1>3, <1>4, <1>5, <1>6, <1>7 DEF CallNext, PumpStep, Unwind

LEMMA Invariant == CallSpec => []Inv
  <1> QED BY InvInit, InvNext, PTL DEF CallSpec

-----------------------------------------------------------------------------
\* For any number of calls, of which any give up and any are answered late: a caller
\* that gets a reply gets its own, and one that is told nothing but that the connection
\* is closed had nothing better waiting (deliver, drainedOutcome).
THEOREM OwnReplyCorrect == CallSpec => []OwnReply
  <1>1. Inv => OwnReply
    BY DEF Inv, Waits, OwnReply
  <1> QED BY <1>1, Invariant, PTL

\* The table of pending calls has no call that has returned, whatever the order of
\* registration, failure and the pump's end (Call, failAllPending).
THEOREM NoneLeaksCorrect == CallSpec => []NoneLeaks
  <1>1. Inv => NoneLeaks
    BY DEF Inv, Channel, NoneLeaks, Ids
  <1> QED BY <1>1, Invariant, PTL
=============================================================================
