-------------------------- MODULE SessionTurnsProofs --------------------------
(***************************************************************************)
(* Proofs about SessionTurns, for any number of messages, observers, Stops *)
(* and outside runs, any number of lost connections, and whether or not an *)
(* unsubscribe may be lost.                                                *)
(***************************************************************************)
EXTENDS SessionTurns, TLAPS

-----------------------------------------------------------------------------
(* Types.                                                                  *)

LEMMA TypeInit == Init => TypeOK
  <1> SUFFICES ASSUME Init PROVE TypeOK
    OBVIOUS
  <1>1. HubTypeOK
    BY DEF Init, HubInit, HubTypeOK
  <1>2. GatewayTypeOK
    <2>1. <<>> \in Seq(Runs)
      OBVIOUS
    <2> QED BY <2>1 DEF Init, GatewayInit, GatewayTypeOK
  <1>3. PcTypeOK
    BY ProcessesAssumption DEF Init, PcTypeOK, HandlerPC, StopPC
  <1>4. TurnTypeOK
    BY DEF Init, TurnTypeOK, Outcomes
  <1>5. StopTypeOK /\ drops \in 0..MaxDrops
    BY BoundsAssumption DEF Init, StopTypeOK
  <1> QED BY <1>1, <1>2, <1>3, <1>4, <1>5 DEF TypeOK

(* A handler that moves to a handler's label keeps the labels in their type. *)
LEMMA HandlerGoto ==
  ASSUME PcTypeOK, NEW h \in Handlers, NEW next \in HandlerPC, Goto(h, next),
         \A s \in Stops : target'[s] = target[s]
  PROVE  PcTypeOK'
  BY ProcessesAssumption DEF PcTypeOK, Goto

LEMMA StopGoto ==
  ASSUME PcTypeOK, NEW s \in Stops, NEW next \in StopPC, Goto(s, next),
         \A x \in Stops \ {s} : target'[x] = target[x],
         next = "abort" => target'[s] # None
  PROVE  PcTypeOK'
  BY ProcessesAssumption DEF PcTypeOK, Goto

LEMMA FinishType ==
  ASSUME GatewayTypeOK, NEW r \in Runs, NEW how \in Endings, Finish(r, how)
  PROVE  /\ run' \in [Runs -> {"new", "queued", "running", "over"}]
         /\ ending' \in [Runs -> Endings \cup {"none"}]
         /\ ask' \in [Runs -> {"none", "question", "approval", "answered", "cancelled"}]
         /\ events' \in Seq(Runs)
  BY DEF GatewayTypeOK, Finish, Queued

LEMMA AcceptType ==
  ASSUME GatewayTypeOK, NEW r \in Runs, Accept(r)
  PROVE  run' \in [Runs -> {"new", "queued", "running", "over"}]
  BY DEF GatewayTypeOK, Accept

LEMMA KillType ==
  ASSUME GatewayTypeOK, NEW r \in Runs, NEW aborted, Kill(r, aborted)
  PROVE  /\ run' \in [Runs -> {"new", "queued", "running", "over"}]
         /\ ending' \in [Runs -> Endings \cup {"none"}]
         /\ ask' \in [Runs -> {"none", "question", "approval", "answered", "cancelled"}]
         /\ events' \in Seq(Runs)
  <1>1. CASE Finish(r, "stopped")
    BY <1>1, FinishType DEF Endings
  <1>2. CASE UNCHANGED <<run, ending, ask, events>>
    BY <1>2 DEF GatewayTypeOK
  <1> QED BY <1>1, <1>2 DEF Kill

LEMMA GiveUpType ==
  ASSUME TurnTypeOK, PcTypeOK, NEW h \in Handlers, GiveUp(h), UNCHANGED target
  PROVE  TurnTypeOK' /\ PcTypeOK'
  <1>1. PcTypeOK'
    BY HandlerGoto DEF GiveUp, HandlerPC
  <1>2. TurnTypeOK'
    BY DEF GiveUp, TurnTypeOK, Failure, Outcomes, Endings
  <1> QED BY <1>1, <1>2

LEMMA HandlerType ==
  ASSUME TypeOK, NEW h \in Handlers, HandlerStep(h)
  PROVE  TypeOK'
  <1> USE DEF TypeOK, hubVars, gatewayVars, turnVars, stopVars
  <1>1. CASE OpenStream(h)
    <2>1. PcTypeOK'
      BY <1>1, HandlerGoto DEF OpenStream, HandlerPC
    <2> QED BY <1>1, <2>1 DEF OpenStream, Open, HubTypeOK, GatewayTypeOK, TurnTypeOK, StopTypeOK
  <1>2. CASE Prepare(h)
    <2>1. PcTypeOK'
      BY <1>2, HandlerGoto DEF Prepare, HandlerPC
    <2>2. TurnTypeOK'
      BY <1>2 DEF Prepare, TurnTypeOK, Failure, Outcomes, Endings
    <2> QED BY <1>2, <2>1, <2>2 DEF Prepare, HubTypeOK, GatewayTypeOK, StopTypeOK
  <1>3. CASE Arm(h)
    <2>1. PcTypeOK'
      BY <1>3, HandlerGoto DEF Arm, HandlerPC
    <2>2. TurnTypeOK'
      BY <1>3, ProcessesAssumption DEF Arm, ExpectedRun, TurnTypeOK, StopTypeOK
    <2> QED BY <1>3, <2>1, <2>2 DEF Arm, HubTypeOK, GatewayTypeOK, StopTypeOK
  <1>4. CASE Subscribe(h)
    <2>1. PcTypeOK' /\ TurnTypeOK'
      BY <1>4, HandlerGoto, GiveUpType DEF Subscribe, HandlerPC, TurnTypeOK
    <2> QED BY <1>4, <2>1 DEF Subscribe, HubTypeOK, GatewayTypeOK, StopTypeOK
  <1>5. CASE Release(h)
    <2>1. PcTypeOK'
      BY <1>5, HandlerGoto DEF Release, HandlerPC
    <2> QED BY <1>5, <2>1 DEF Release, HubTypeOK, GatewayTypeOK, TurnTypeOK, StopTypeOK
  <1>6. CASE Say(h)
    <2>1. PcTypeOK'
      BY <1>6, HandlerGoto DEF Say, HandlerPC
    <2> QED BY <1>6, <2>1 DEF Say, HubTypeOK, GatewayTypeOK, TurnTypeOK, StopTypeOK
  <1>7. CASE Close(h)
    <2>1. PcTypeOK'
      BY <1>7, HandlerGoto DEF Close, HandlerPC
    <2> QED BY <1>7, <2>1 DEF Close, MarkClosed, HubTypeOK, GatewayTypeOK, TurnTypeOK, StopTypeOK
  <1>8. CASE Leave(h)
    <2>1. PcTypeOK'
      BY <1>8, HandlerGoto DEF Leave, HandlerPC
    <2>2. TurnTypeOK'
      BY <1>8 DEF Leave, TurnTypeOK, Outcomes
    <2> QED BY <1>8, <2>1, <2>2 DEF Leave, Remove, HubTypeOK, GatewayTypeOK, StopTypeOK
  <1> QED BY <1>1, <1>2, <1>3, <1>4, <1>5, <1>6, <1>7, <1>8 DEF HandlerStep

LEMMA PostType ==
  ASSUME TypeOK, NEW p \in Posts, PostStep(p)
  PROVE  TypeOK'
  <1> USE DEF TypeOK, hubVars, gatewayVars, turnVars, stopVars
  <1>p. p \in Handlers /\ p \in Runs
    BY ProcessesAssumption
  <1>1. CASE Send(p)
    <2>1. PcTypeOK' /\ TurnTypeOK'
      BY <1>1, <1>p, HandlerGoto, GiveUpType DEF Send, HandlerPC, TurnTypeOK
    <2>2. run' \in [Runs -> {"new", "queued", "running", "over"}]
      BY <1>1, <1>p, AcceptType DEF Send, GatewayTypeOK
    <2>3. wire' \subseteq Frames
      BY <1>1, <1>p DEF Send, GatewayTypeOK, Frames
    <2> QED BY <1>1, <2>1, <2>2, <2>3 DEF Send, HubTypeOK, GatewayTypeOK, StopTypeOK
  <1>2. ASSUME NEW how \in Outcomes, EndWait(p, how)
        PROVE  TypeOK'
    <2>1. PcTypeOK'
      BY <1>2, <1>p, HandlerGoto DEF EndWait, HandlerPC
    <2> QED BY <1>2, <2>1, <1>p DEF EndWait, HubTypeOK, GatewayTypeOK, TurnTypeOK, StopTypeOK
  <1>3. \A how : EndWait(p, how) /\ how \in Outcomes => TypeOK'
    BY <1>2
  <1>4. fin[p] \in Outcomes /\ {"error", "completed"} \subseteq Outcomes
    BY <1>p DEF TurnTypeOK, Outcomes, Endings
  <1>5. CASE SeeTerminal(p)
    BY <1>3, <1>4, <1>5 DEF SeeTerminal
  <1>6. CASE SeeBackstop(p)
    BY <1>3, <1>4, <1>6 DEF SeeBackstop
  <1>7. CASE SeeConnectionLost(p) \/ SeeClientGone(p)
    BY <1>3, <1>4, <1>7 DEF SeeConnectionLost, SeeClientGone
  <1> QED BY <1>1, <1>5, <1>6, <1>7 DEF PostStep

LEMMA AttachType ==
  ASSUME TypeOK, NEW o \in Attaches, AttachStep(o)
  PROVE  TypeOK'
  <1> USE DEF TypeOK, hubVars, gatewayVars, turnVars, stopVars
  <1>o. o \in Handlers
    BY ProcessesAssumption
  <1>1. CASE Gate(o)
    <2>1. PcTypeOK'
      <3>1. \A s \in Stops : target'[s] = target[s]
        BY <1>1, ProcessesAssumption DEF Gate, StopTypeOK
      <3> QED BY <1>1, <3>1, <1>o, HandlerGoto DEF Gate, HandlerPC
    <2>2. target' \in [Attaches \cup Stops -> Runs \cup {None}]
      BY <1>1 DEF Gate, StopTypeOK, Pending
    <2> QED BY <1>1, <2>1, <2>2 DEF Gate, HubTypeOK, GatewayTypeOK, TurnTypeOK, StopTypeOK
  <1>2. CASE Revalidate(o)
    <2>1. PcTypeOK' /\ TurnTypeOK'
      BY <1>2, <1>o, HandlerGoto, GiveUpType DEF Revalidate, HandlerPC, TurnTypeOK
    <2> QED BY <1>2, <2>1 DEF Revalidate, HubTypeOK, GatewayTypeOK, StopTypeOK
  <1>3. CASE Observe(o)
    <2>1. PcTypeOK'
      BY <1>3, <1>o, HandlerGoto DEF Observe, HandlerPC
    <2> QED BY <1>3, <1>o, <2>1 DEF Observe, HubTypeOK, GatewayTypeOK, TurnTypeOK, StopTypeOK
  <1> QED BY <1>1, <1>2, <1>3 DEF AttachStep

LEMMA AnswerType ==
  ASSUME TypeOK, NEW s \in Stops, NEW how \in StopPC, Answer(s, how),
         \A x \in Stops \ {s} : target'[x] = target[x],
         how = "abort" => target'[s] # None
  PROVE  PcTypeOK' /\ todo' \in [Stops -> SUBSET Runs]
  BY StopGoto DEF TypeOK, Answer, StopTypeOK

LEMMA StopType ==
  ASSUME TypeOK, NEW s \in Stops, StopStep(s)
  PROVE  TypeOK'
  <1> USE DEF TypeOK, hubVars, gatewayVars, turnVars
  <1>t. target[s] \in Runs \cup {None}
    BY DEF StopTypeOK
  <1>1. CASE NameTarget(s)
    <2>1. PcTypeOK' /\ todo' \in [Stops -> SUBSET Runs]
      <3>1. \A x \in Stops \ {s} : target'[x] = target[x]
        BY <1>1 DEF NameTarget, StopTypeOK
      <3>2. CASE /\ target' = [target EXCEPT ![s] = LiveRunID]
                 /\ LiveRunID # None
                 /\ Answer(s, "abort")
        BY <3>1, <3>2, AnswerType DEF StopTypeOK, StopPC
      <3>3. CASE /\ \E r \in InFlight : target' = [target EXCEPT ![s] = r]
                 /\ Answer(s, "abort")
        BY <3>1, <3>3, AnswerType, ProcessesAssumption DEF StopTypeOK, StopPC, InFlight
      <3>4. CASE UNCHANGED target /\ (Answer(s, "settle") \/ Answer(s, "failed"))
        BY <3>4, AnswerType DEF StopPC
      <3> QED BY <1>1, <3>2, <3>3, <3>4 DEF NameTarget
    <2>2. target' \in [Attaches \cup Stops -> Runs \cup {None}]
      BY <1>1 DEF NameTarget, StopTypeOK, TurnTypeOK, LiveRunID, InFlight
    <2> QED BY <1>1, <2>1, <2>2 DEF NameTarget, HubTypeOK, GatewayTypeOK, TurnTypeOK, StopTypeOK
  <1>2. CASE Abort(s)
    <2>1. PcTypeOK' /\ todo' \in [Stops -> SUBSET Runs]
      BY <1>2, AnswerType DEF Abort, StopPC
    <2>2. GatewayTypeOK'
      <3>1. target[s] \in Runs
        BY <1>2, <1>t DEF Abort, At, PcTypeOK
      <3>2. wire' \subseteq Frames
        <4>1. [op |-> "abort", run |-> target[s]] \in Frames
          BY <3>1 DEF Frames
        <4>2. wire' \in {wire, wire \cup {[op |-> "abort", run |-> target[s]]}}
          BY <1>2 DEF Abort
        <4> QED BY <4>1, <4>2 DEF GatewayTypeOK
      <3>3. CASE \E r \in Scope(s), aborted \in BOOLEAN : Kill(r, aborted)
        <4>1. PICK r \in Scope(s), aborted \in BOOLEAN : Kill(r, aborted)
          BY <3>3
        <4>2. r \in Runs
          BY <3>1 DEF Scope
        <4>3. /\ run' \in [Runs -> {"new", "queued", "running", "over"}]
              /\ ending' \in [Runs -> Endings \cup {"none"}]
              /\ ask' \in [Runs -> {"none", "question", "approval", "answered", "cancelled"}]
              /\ events' \in Seq(Runs)
          BY <4>1, <4>2, KillType
        <4> QED BY <1>2, <3>2, <4>3 DEF Abort, GatewayTypeOK
      <3>4. CASE UNCHANGED <<run, ending, ask, events>>
        BY <1>2, <3>2, <3>4 DEF Abort, GatewayTypeOK
      <3> QED BY <1>2, <3>3, <3>4 DEF Abort
    <2> QED BY <1>2, <2>1, <2>2 DEF Abort, HubTypeOK, TurnTypeOK, StopTypeOK
  <1>3. CASE Reconcile(s) \/ Cancelled(s) \/ SeeHubIdle(s) \/ AskGateway(s)
             \/ SeeHubStillIdle(s) \/ GiveUpWaiting(s)
    <2>1. PcTypeOK' /\ todo' \in [Stops -> SUBSET Runs]
      BY <1>3, AnswerType DEF Reconcile, Cancelled, SeeHubIdle, AskGateway,
         SeeHubStillIdle, GiveUpWaiting, StopPC
    <2>2. UNCHANGED <<hubVars, gatewayVars, turnVars, target, drops>>
      BY <1>3 DEF Reconcile, Cancelled, SeeHubIdle, AskGateway, SeeHubStillIdle, GiveUpWaiting
    <2> QED BY <2>1, <2>2 DEF HubTypeOK, GatewayTypeOK, TurnTypeOK, StopTypeOK
  <1>4. CASE ListQuestions(s)
    <2>1. PcTypeOK'
      BY <1>4, StopGoto DEF ListQuestions, StopPC
    <2> QED BY <1>4, <2>1 DEF ListQuestions, Pending, HubTypeOK, GatewayTypeOK, TurnTypeOK, StopTypeOK
  <1>5. CASE \E r \in Runs : CancelQuestion(s, r)
    BY <1>5 DEF CancelQuestion, HubTypeOK, GatewayTypeOK, PcTypeOK, TurnTypeOK, StopTypeOK
  <1> QED BY <1>1, <1>2, <1>3, <1>4, <1>5 DEF StopStep

LEMMA OtherType ==
  ASSUME TypeOK,
         \/ RouteTerminal
         \/ GatewayStep
         \/ \E r \in Outside : OutsideSend(r)
         \/ TurnStatus
         \/ Drop
  PROVE  TypeOK'
  <1> USE DEF TypeOK, hubVars, gatewayVars, turnVars, stopVars, HubTypeOK, PcTypeOK, StopTypeOK
  <1>1. CASE RouteTerminal
    <2>1. Head(events) \in Runs /\ Tail(events) \in Seq(Runs)
      <3>1. events \in Seq(Runs) /\ events # <<>>
        BY <1>1 DEF RouteTerminal, GatewayTypeOK
      <3> QED BY <3>1
    <2>2. fin' \in [Handlers -> Outcomes]
      <3>1. ending[Head(events)] \in Outcomes /\ "error" \in Outcomes
        BY <2>1 DEF GatewayTypeOK, Outcomes, Endings
      <3>2. UNCHANGED fin \/ \E how \in Outcomes : fin' = [fin EXCEPT ![live] = how]
        BY <1>1, <3>1 DEF RouteTerminal
      <3> QED BY <3>2 DEF TurnTypeOK
    <2> QED BY <1>1, <2>1, <2>2 DEF RouteTerminal, GatewayTypeOK, TurnTypeOK
  <1>2. CASE GatewayStep
    <2>1. GatewayTypeOK'
      <3>1. CASE \E r \in Runs : Park(r) \/ Decide(r)
        BY <3>1 DEF Park, Decide, GatewayTypeOK
      <3>2. CASE \E r \in Runs : End(r)
        BY <3>2, FinishType DEF End, GatewayTypeOK, Endings
      <3>3. CASE \E f \in wire : HandleLate(f)
        BY <3>3, KillType, AcceptType DEF HandleLate, GatewayTypeOK, Frames
      <3> QED BY <1>2, <3>1, <3>2, <3>3 DEF GatewayStep
    <2> QED BY <1>2, <2>1 DEF GatewayStep, TurnTypeOK
  <1>3. CASE \E r \in Outside : OutsideSend(r)
    BY <1>3, ProcessesAssumption, AcceptType DEF OutsideSend, GatewayTypeOK, TurnTypeOK
  <1>4. CASE TurnStatus
    BY <1>4 DEF TurnStatus, GatewayTypeOK, TurnTypeOK
  <1>5. CASE Drop
    <2>1. <<>> \in Seq(Runs)
      OBVIOUS
    <2>2. GatewayTypeOK'
      BY <1>5, <2>1 DEF Drop, GatewayTypeOK
    <2>3. TurnTypeOK'
      BY <1>5 DEF Drop, TurnTypeOK
    <2>4. drops' \in 0..MaxDrops
      BY <1>5, BoundsAssumption DEF Drop
    <2> QED BY <1>5, <2>2, <2>3, <2>4 DEF Drop
  <1> QED BY <1>1, <1>2, <1>3, <1>4, <1>5

LEMMA TypeNext == TypeOK /\ [Next]_vars => TypeOK'
  <1> SUFFICES ASSUME TypeOK, [Next]_vars PROVE TypeOK'
    OBVIOUS
  <1>1. CASE UNCHANGED vars
    BY <1>1 DEF TypeOK, HubTypeOK, GatewayTypeOK, PcTypeOK, TurnTypeOK, StopTypeOK,
       vars, hubVars, gatewayVars, turnVars, stopVars
  <1> QED BY <1>1, HandlerType, PostType, AttachType, StopType, OtherType DEF Next

(* Every variable stays in its type, in every behaviour. *)
THEOREM TypeCorrect == Spec => []TypeOK
  <1> QED BY TypeInit, TypeNext, PTL DEF Spec

-----------------------------------------------------------------------------
(* The hub's slot and the live turn.                                       *)

\* The labels between hub.Open and the end of stream.Close, and those between
\* registerLive and releaseLive.
Registered == {"arm", "subscribe", "send", "await", "revalidate", "observe", "release"}
Holding    == Registered \cup {"prepare", "say", "close", "remove"}

\* A handler that opened its stream holds the slot until it has removed itself,
\* its stream accepts writes until it closes it, and the live turn is that of a
\* handler between registration and release.
SlotInv ==
    /\ \A h \in Handlers : pc[h] \in Holding => active = h
    /\ \A h \in closed : pc[h] \in {"remove", "end"}
    /\ live # None => pc[live] \in Registered

LEMMA SlotInit == Init => SlotInv
  BY ProcessesAssumption DEF Init, HubInit, SlotInv, Holding, Registered

LEMMA SlotHandler ==
  ASSUME TypeOK, SlotInv, NEW h \in Handlers, HandlerStep(h)
  PROVE  SlotInv'
  <1> USE ProcessesAssumption, HandlersAssumption
      DEF TypeOK, HubTypeOK, PcTypeOK, TurnTypeOK, SlotInv, Holding, Registered,
          At, Goto, turnVars, hubVars
  <1>1. CASE OpenStream(h)
    BY <1>1 DEF OpenStream, Open, Free
  <1>2. CASE Prepare(h)
    BY <1>2 DEF Prepare
  <1>3. CASE Arm(h)
    BY <1>3 DEF Arm
  <1>4. CASE Subscribe(h)
    BY <1>4 DEF Subscribe, GiveUp
  <1>5. CASE Release(h)
    BY <1>5 DEF Release
  <1>6. CASE Say(h)
    BY <1>6 DEF Say
  <1>7. CASE Close(h)
    BY <1>7 DEF Close, MarkClosed
  <1>8. CASE Leave(h)
    BY <1>8 DEF Leave, Remove
  <1> QED BY <1>1, <1>2, <1>3, <1>4, <1>5, <1>6, <1>7, <1>8 DEF HandlerStep

(* Every other step leaves the slot and the registration alone, and moves a    *)
(* handler, if any, from one registered label to another, or before the slot.  *)
LEMMA SlotFrame ==
  ASSUME TypeOK, SlotInv, NEW h \in Handlers, Goto(h, pc'[h]),
         UNCHANGED <<active, closed, live>>,
         \/ pc[h] \in Registered /\ pc'[h] \in Registered
         \/ pc[h] = "gate" /\ pc'[h] \in {"open", "end"}
  PROVE  SlotInv'
  BY HandlersAssumption
  DEF TypeOK, HubTypeOK, PcTypeOK, TurnTypeOK, SlotInv, Holding, Registered, Goto

LEMMA SlotStay ==
  ASSUME TypeOK, SlotInv, UNCHANGED <<active, closed, live>>,
         \A h \in Handlers : pc'[h] = pc[h]
  PROVE  SlotInv'
  BY DEF TypeOK, HubTypeOK, TurnTypeOK, SlotInv

LEMMA SlotPost ==
  ASSUME TypeOK, SlotInv, NEW p \in Posts, PostStep(p)
  PROVE  SlotInv'
  <1>p. p \in Handlers
    BY ProcessesAssumption
  <1>1. UNCHANGED <<active, closed, live>>
    BY DEF PostStep, Send, SeeTerminal, SeeBackstop, SeeConnectionLost,
       SeeClientGone, EndWait, GiveUp, hubVars, turnVars
  <1>2. /\ pc[p] \in {"send", "await"}
        /\ Goto(p, "await") \/ Goto(p, "release")
    BY DEF PostStep, Send, SeeTerminal, SeeBackstop, SeeConnectionLost,
       SeeClientGone, EndWait, GiveUp, At
  <1>3. Goto(p, pc'[p]) /\ pc'[p] \in {"await", "release"}
    BY <1>p, <1>2 DEF Goto, TypeOK, PcTypeOK
  <1> QED BY <1>p, <1>1, <1>2, <1>3, SlotFrame DEF Registered

LEMMA SlotAttach ==
  ASSUME TypeOK, SlotInv, NEW o \in Attaches, AttachStep(o)
  PROVE  SlotInv'
  <1>o. o \in Handlers
    BY ProcessesAssumption
  <1>1. UNCHANGED <<active, closed, live>>
    BY DEF AttachStep, Gate, Revalidate, Observe, GiveUp, hubVars, turnVars
  <1>2. \/ pc[o] = "gate" /\ (Goto(o, "open") \/ Goto(o, "end"))
        \/ pc[o] \in {"revalidate", "observe"} /\ (Goto(o, "observe") \/ Goto(o, "release"))
    BY DEF AttachStep, Gate, Revalidate, Observe, GiveUp, At
  <1>3. /\ Goto(o, pc'[o])
        /\ \/ pc[o] = "gate" /\ pc'[o] \in {"open", "end"}
           \/ pc[o] \in {"revalidate", "observe"} /\ pc'[o] \in {"observe", "release"}
    BY <1>o, <1>2 DEF Goto, TypeOK, PcTypeOK
  <1> QED BY <1>o, <1>1, <1>3, SlotFrame DEF Registered

(* A Stop moves only itself. *)
LEMMA StopMoves ==
  ASSUME TypeOK, NEW s \in Stops, StopStep(s)
  PROVE  /\ UNCHANGED <<hubVars, turnVars, drops, connected, subscribed>>
         /\ \A p \in (Handlers \cup Stops) \ {s} : pc'[p] = pc[p]
         /\ \A p \in (Attaches \cup Stops) \ {s} : target'[p] = target[p]
  BY DEF StopStep, NameTarget, Abort, Reconcile, ListQuestions, CancelQuestion,
     Cancelled, SeeHubIdle, AskGateway, SeeHubStillIdle, GiveUpWaiting, Answer,
     Goto, TypeOK, PcTypeOK, StopTypeOK, gatewayVars

LEMMA SlotNext == TypeOK /\ SlotInv /\ [Next]_vars => SlotInv'
  <1> SUFFICES ASSUME TypeOK, SlotInv, [Next]_vars PROVE SlotInv'
    OBVIOUS
  <1>1. CASE \E s \in Stops : StopStep(s)
    BY <1>1, StopMoves, SlotStay, ProcessesAssumption DEF hubVars, turnVars
  <1>2. CASE \/ RouteTerminal
             \/ GatewayStep
             \/ \E r \in Outside : OutsideSend(r)
             \/ TurnStatus
             \/ Drop
             \/ UNCHANGED vars
    <2>1. UNCHANGED <<active, closed, live, pc>>
      BY <1>2 DEF RouteTerminal, GatewayStep, OutsideSend, TurnStatus, Drop, vars,
         hubVars, turnVars
    <2> QED BY <2>1, SlotStay
  <1> QED BY <1>1, <1>2, SlotHandler, SlotPost, SlotAttach DEF Next

(* The registered live turn always belongs to the request whose stream holds   *)
(* the session's slot, and that stream accepts events: registerLive and        *)
(* releaseLive nest inside hub.Open and stream.Close.                          *)
THEOREM LiveTurnCorrect == Spec => []LiveTurnHoldsStream
  <1>1. TypeOK /\ SlotInv => LiveTurnHoldsStream
    BY DEF TypeOK, TurnTypeOK, HubTypeOK, SlotInv, LiveTurnHoldsStream, Writable,
       Holding, Registered
  <1> QED BY <1>1, TypeInit, TypeNext, SlotInit, SlotNext, PTL DEF Spec

-----------------------------------------------------------------------------
(* The gateway's runs, and what each step does to them.                    *)

\* One run at a time, none waiting behind nothing, and only a run that was
\* promoted or started ever asked a human.
RunInv ==
    /\ \A r, q \in InFlight : r = q
    /\ Queued # {} => Busy
    /\ \A r \in Runs : ask[r] # "none" => run[r] \in {"running", "over"}

Began(r) == run[r] \in {"running", "over"}

(* A run that ends leaves RunInv true, and begins no run that was new. *)
LEMMA FinishRuns ==
  ASSUME GatewayTypeOK, RunInv, NEW r \in InFlight, NEW how, Finish(r, how)
  PROVE  /\ RunInv'
         /\ run'[r] = "over"
         /\ \A q \in Runs : Began(q) => Began(q)'
         /\ \A q \in Runs : run[q] = "over" => run'[q] = "over"
         /\ \A q \in Runs : run[q] = "new" => run'[q] = "new"
  <1> USE DEF InFlight, Queued, Busy, Parked, Pending, Began, RunInv, GatewayTypeOK
  <1>1. /\ ask' \in [Runs -> {"none", "question", "approval", "answered", "cancelled"}]
        /\ \A q \in Runs : ask'[q] # "none" => ask[q] # "none"
    BY DEF Finish
  <1>2. CASE Queued = {} /\ run' = [run EXCEPT ![r] = "over"]
    BY <1>1, <1>2
  <1>3. ASSUME NEW q \in Queued, run' = [run EXCEPT ![r] = "over", ![q] = "running"]
        PROVE  /\ RunInv'
               /\ run'[r] = "over"
               /\ \A x \in Runs : Began(x) => Began(x)'
               /\ \A x \in Runs : run[x] = "over" => run'[x] = "over"
               /\ \A x \in Runs : run[x] = "new" => run'[x] = "new"
    BY <1>1, <1>3
  <1> QED BY <1>2, <1>3 DEF Finish

LEMMA KillRuns ==
  ASSUME GatewayTypeOK, RunInv, NEW r, NEW aborted, Kill(r, aborted)
  PROVE  /\ RunInv'
         /\ aborted => run'[r] = "over"
         /\ \A q \in Runs : Began(q) => Began(q)'
         /\ \A q \in Runs : run[q] = "over" => run'[q] = "over"
         /\ \A q \in Runs : run[q] = "new" => run'[q] = "new"
  <1>1. CASE aborted /\ r \in InFlight /\ Finish(r, "stopped")
    BY <1>1, FinishRuns
  <1>2. CASE ~aborted /\ UNCHANGED <<run, ending, ask, events>>
    BY <1>2 DEF RunInv, InFlight, Queued, Busy, Began
  <1> QED BY <1>1, <1>2 DEF Kill

LEMMA AcceptRuns ==
  ASSUME GatewayTypeOK, RunInv, NEW r \in Runs, Accept(r), UNCHANGED ask
  PROVE  /\ RunInv'
         /\ \A q \in Runs : Began(q) => Began(q)'
         /\ \A q \in Runs : run[q] = "over" => run'[q] = "over"
         /\ \A q \in Runs \ {r} : run[q] = "new" => run'[q] = "new"
  BY DEF GatewayTypeOK, RunInv, Accept, InFlight, Queued, Busy, Began

\* The step in which run q can begin: its own message's, when its handler sends
\* it or when it is on its way, or the outside writer's.
Sends(p) == At(p, "send") /\ pc'[p] # "send"

MayStart(q) ==
    \/ q \in Posts /\ Sends(q)
    \/ [op |-> "send", run |-> q] \in wire
    \/ q \in Outside

(* A step of Send takes its handler on.                                         *)
LEMMA SendSends ==
  ASSUME TypeOK, NEW p \in Posts, Send(p)
  PROVE  Sends(p)
  BY ProcessesAssumption DEF TypeOK, PcTypeOK, Send, Sends, GiveUp, At, Goto

RunsAdvance ==
    /\ RunInv'
    /\ \A q \in Runs : Began(q) => Began(q)'
    /\ \A q \in Runs : run[q] = "over" => run'[q] = "over"
    /\ \A q \in Runs : run[q] = "new" /\ ~MayStart(q) => run'[q] = "new"

LEMMA RunsStay ==
  ASSUME RunInv, UNCHANGED <<run, ask>>
  PROVE  RunsAdvance
  BY DEF RunInv, InFlight, Queued, Busy, Began, RunsAdvance

LEMMA RunsNext == TypeOK /\ RunInv /\ [Next]_vars => RunsAdvance
  <1> SUFFICES ASSUME TypeOK, RunInv, [Next]_vars PROVE RunsAdvance
    OBVIOUS
  <1>g. GatewayTypeOK
    BY DEF TypeOK
  <1>1. ASSUME NEW h \in Handlers, HandlerStep(h) PROVE RunsAdvance
    BY <1>1, RunsStay DEF HandlerStep, OpenStream, Prepare, Arm, Subscribe, Release,
       Say, Close, Leave, gatewayVars
  <1>2. ASSUME NEW p \in Posts, PostStep(p) PROVE RunsAdvance
    <2>1. CASE Send(p) /\ Accept(p)
      <3>1. p \in Runs /\ Sends(p) /\ UNCHANGED ask
        BY <2>1, SendSends, ProcessesAssumption DEF Send
      <3> QED BY <1>g, <2>1, <3>1, AcceptRuns DEF RunsAdvance, MayStart
    <2>2. CASE UNCHANGED <<run, ask>>
      BY <2>2, RunsStay
    <2> QED BY <1>2, <2>1, <2>2 DEF PostStep, Send, SeeTerminal, SeeBackstop,
         SeeConnectionLost, SeeClientGone, EndWait, gatewayVars
  <1>3. ASSUME NEW o \in Attaches, AttachStep(o) PROVE RunsAdvance
    BY <1>3, RunsStay DEF AttachStep, Gate, Revalidate, Observe, gatewayVars
  <1>4. ASSUME NEW s \in Stops, StopStep(s) PROVE RunsAdvance
    <2>1. CASE Abort(s)
      <3>1. CASE \E r \in Scope(s), aborted \in BOOLEAN : Kill(r, aborted)
        BY <1>g, <3>1, KillRuns DEF RunsAdvance
      <3>2. CASE UNCHANGED <<run, ask>>
        BY <3>2, RunsStay
      <3> QED BY <2>1, <3>1, <3>2 DEF Abort
    <2>2. CASE \E r \in Runs : CancelQuestion(s, r)
      BY <2>2, <1>g DEF CancelQuestion, RunInv, RunsAdvance, InFlight, Queued, Busy, Began,
         Parked, Pending, GatewayTypeOK
    <2>3. CASE UNCHANGED <<run, ask>>
      BY <2>3, RunsStay
    <2> QED BY <1>4, <2>1, <2>2, <2>3 DEF StopStep, NameTarget, Reconcile, ListQuestions,
         Cancelled, SeeHubIdle, AskGateway, SeeHubStillIdle, GiveUpWaiting, gatewayVars
  <1>5. CASE GatewayStep
    <2>1. ASSUME NEW r \in Runs, Park(r) PROVE RunsAdvance
      BY <2>1, <1>g DEF Park, RunInv, RunsAdvance, InFlight, Queued, Busy, Began, GatewayTypeOK
    <2>2. ASSUME NEW r \in Runs, Decide(r) PROVE RunsAdvance
      BY <2>2, <1>g DEF Decide, RunInv, RunsAdvance, InFlight, Queued, Busy, Began,
         Parked, Pending, GatewayTypeOK
    <2>3. ASSUME NEW r \in Runs, End(r) PROVE RunsAdvance
      BY <2>3, <1>g, FinishRuns DEF End, RunsAdvance
    <2>4. ASSUME NEW f \in wire, HandleLate(f) PROVE RunsAdvance
      <3>1. f \in Frames
        BY <1>g DEF GatewayTypeOK
      <3>2. CASE f.op = "send" /\ Accept(f.run) /\ UNCHANGED ask
        <4>1. f.run \in Runs /\ f = [op |-> "send", run |-> f.run]
          BY <3>1, <3>2 DEF Frames
        <4>2. MayStart(f.run)
          BY <4>1 DEF MayStart
        <4> QED BY <1>g, <3>2, <4>1, <4>2, AcceptRuns DEF RunsAdvance
      <3>3. CASE \E aborted \in BOOLEAN : Kill(f.run, aborted)
        BY <1>g, <3>3, KillRuns DEF RunsAdvance
      <3> QED BY <2>4, <3>2, <3>3 DEF HandleLate
    <2> QED BY <1>5, <2>1, <2>2, <2>3, <2>4 DEF GatewayStep
  <1>6. ASSUME NEW r \in Outside, OutsideSend(r) PROVE RunsAdvance
    <2>1. r \in Runs /\ MayStart(r) /\ UNCHANGED ask
      BY <1>6, ProcessesAssumption DEF OutsideSend, MayStart
    <2> QED BY <1>6, <1>g, <2>1, AcceptRuns DEF RunsAdvance, OutsideSend
  <1>7. CASE RouteTerminal \/ TurnStatus \/ Drop \/ UNCHANGED vars
    BY <1>7, RunsStay DEF RouteTerminal, TurnStatus, Drop, vars, gatewayVars
  <1> QED BY <1>1, <1>2, <1>3, <1>4, <1>5, <1>6, <1>7 DEF Next

-----------------------------------------------------------------------------
(* What a Stop named.                                                      *)

\* A run that a Stop may name: it began, or its message is past registration,
\* so that it can begin only while its handler holds the slot or its frame is
\* on the wire.
Nameable(r) == Began(r) \/ (r \in Posts /\ pc[r] \in Holding \cup {"end"})

\* The same, once the hub was seen idle: the handler is gone.
Left(r) == Began(r) \/ (r \in Posts /\ pc[r] = "end")

\* The same, once the gateway then answered "not busy": over, or never to begin.
Settled(r) ==
    \/ run[r] = "over"
    \/ /\ run[r] = "new"
       /\ r \in Posts /\ pc[r] = "end"
       /\ [op |-> "send", run |-> r] \notin wire

\* A handler expects its own run: a post from the moment it arms its turn, an
\* attach the run it was gated on, which had begun.
HandlersNamed ==
    /\ \A p \in Posts : runID[p] # None => runID[p] = p /\ pc[p] \in Holding
    /\ \A o \in Attaches : /\ runID[o] \in {None, target[o]}
                           /\ target[o] # None => Began(target[o])
                           /\ pc[o] = "gate" => runID[o] = None /\ target[o] = None

\* What a Stop knows of the run it named grows with its label.
Named(s) ==
    target[s] # None =>
        /\ Nameable(target[s])
        /\ pc[s] \in {"recheck", "confirm", "ok"} => Left(target[s])
        /\ pc[s] \in {"confirm", "ok"} => Settled(target[s])

NameInv == HandlersNamed /\ \A s \in Stops : Named(s)

LEMMA NameInit == Init => RunInv /\ NameInv
  BY ProcessesAssumption
  DEF Init, GatewayInit, RunInv, NameInv, HandlersNamed, Named, InFlight, Queued, Busy

(* A step that starts no run outside its place keeps every named run as it is  *)
(* known: what began stays begun, what cannot begin still cannot.              *)
LEMMA NamedStay ==
  ASSUME TypeOK, NameInv, RunsAdvance,
         \A p \in Posts : pc[p] \in Holding /\ pc'[p] # pc[p] => pc'[p] \in Holding \cup {"end"},
         \A p \in Posts : pc[p] = "end" =>
            /\ pc'[p] = "end"
            /\ [op |-> "send", run |-> p] \in wire' => [op |-> "send", run |-> p] \in wire
  PROVE  \A r \in Runs : /\ Nameable(r) => Nameable(r)'
                         /\ Left(r) => Left(r)'
                         /\ Settled(r) => Settled(r)'
  <1> SUFFICES ASSUME NEW r \in Runs
               PROVE  /\ Nameable(r) => Nameable(r)'
                      /\ Left(r) => Left(r)'
                      /\ Settled(r) => Settled(r)'
    OBVIOUS
  <1>1. Nameable(r) => Nameable(r)'
    BY DEF Nameable, RunsAdvance, Holding, Registered
  <1>2. Left(r) => Left(r)'
    BY DEF Left, RunsAdvance
  <1>3. Settled(r) => Settled(r)'
    BY ProcessesAssumption DEF Settled, RunsAdvance, MayStart, Sends, At
  <1> QED BY <1>1, <1>2, <1>3

\* What every step of Next gives of the premises of NamedStay.
HandlersAdvance ==
    \A p \in Posts :
        /\ pc[p] \in Holding => pc'[p] \in Holding \cup {"end"}
        /\ pc[p] = "end" =>
              /\ pc'[p] = "end"
              /\ [op |-> "send", run |-> p] \in wire' => [op |-> "send", run |-> p] \in wire

(* The frame of a message is written by its handler alone.                     *)
LEMMA FrameOfItsSend ==
  ASSUME TypeOK, [Next]_vars, NEW p \in Posts, ~Sends(p), [op |-> "send", run |-> p] \in wire'
  PROVE  [op |-> "send", run |-> p] \in wire
  <1> DEFINE frame == [op |-> "send", run |-> p]
  <1>1. ASSUME NEW q \in Posts, Send(q) PROVE frame \in wire
    <2>1. q # p
      BY <1>1, SendSends
    <2>2. frame # [op |-> "send", run |-> q]
      BY <2>1
    <2> QED BY <1>1, <2>2 DEF Send
  <1>2. ASSUME NEW s \in Stops, StopStep(s) PROVE frame \in wire
    <2>1. wire' \in {wire, wire \cup {[op |-> "abort", run |-> target[s]]}}
      BY <1>2 DEF StopStep, NameTarget, Abort, Reconcile, ListQuestions, CancelQuestion,
         Cancelled, SeeHubIdle, AskGateway, SeeHubStillIdle, GiveUpWaiting, gatewayVars
    <2>2. frame.op # [op |-> "abort", run |-> target[s]].op
      OBVIOUS
    <2> QED BY <2>1, <2>2
  <1>3. CASE wire' \subseteq wire
    BY <1>3
  <1>4. ASSUME GatewayStep \/ Drop PROVE wire' \subseteq wire
    BY <1>4 DEF GatewayStep, Park, Decide, End, HandleLate, Drop
  <1> QED BY <1>1, <1>2, <1>3, <1>4 DEF Next, HandlerStep, OpenStream, Prepare, Arm,
       Subscribe, Release, Say, Close, Leave, PostStep, SeeTerminal, SeeBackstop,
       SeeConnectionLost, SeeClientGone, EndWait, AttachStep, Gate, Revalidate, Observe,
       RouteTerminal, OutsideSend, TurnStatus, vars, gatewayVars

LEMMA HandlersNext == TypeOK /\ [Next]_vars => HandlersAdvance
  <1> SUFFICES ASSUME TypeOK, [Next]_vars PROVE HandlersAdvance
    OBVIOUS
  <1> DEFINE Moves == \A p \in Posts : /\ pc[p] \in Holding => pc'[p] \in Holding \cup {"end"}
                                       /\ pc[p] = "end" => pc'[p] = "end"
  <1> USE DEF Holding, Registered
  <1>1. ASSUME NEW h \in Handlers, HandlerStep(h) PROVE Moves
    <2>1. \/ pc[h] = "open" /\ (Goto(h, "prepare") \/ Goto(h, "end"))
          \/ pc[h] \in Holding /\ \E next \in Holding \cup {"end"} : Goto(h, next)
      <3>1. CASE OpenStream(h)
        BY <3>1 DEF OpenStream, At
      <3>2. CASE Prepare(h)
        BY <3>2 DEF Prepare, At
      <3>3. CASE Arm(h)
        BY <3>3 DEF Arm, At
      <3>4. CASE Subscribe(h)
        BY <3>4 DEF Subscribe, GiveUp, At
      <3>5. CASE Release(h) \/ Say(h) \/ Close(h) \/ Leave(h)
        BY <3>5 DEF Release, Say, Close, Leave, At
      <3> QED BY <1>1, <3>1, <3>2, <3>3, <3>4, <3>5 DEF HandlerStep
    <2> QED BY <2>1, ProcessesAssumption DEF Goto, TypeOK, PcTypeOK
  <1>2. ASSUME NEW p \in Posts, PostStep(p) PROVE Moves
    <2>1. pc[p] \in {"send", "await"} /\ (Goto(p, "await") \/ Goto(p, "release"))
      BY <1>2 DEF PostStep, Send, GiveUp, SeeTerminal, SeeBackstop, SeeConnectionLost,
         SeeClientGone, EndWait, At
    <2> QED BY <2>1, ProcessesAssumption DEF Goto, TypeOK, PcTypeOK
  <1>3. ASSUME NEW o \in Attaches, AttachStep(o) PROVE Moves
    <2>1. \A p \in Posts : pc'[p] = pc[p]
      BY <1>3, ProcessesAssumption DEF AttachStep, Gate, Revalidate, Observe, GiveUp, Goto,
         TypeOK, PcTypeOK
    <2> QED BY <2>1
  <1>4. ASSUME NEW s \in Stops, StopStep(s) PROVE Moves
    BY <1>4, StopMoves, ProcessesAssumption
  <1>5. ASSUME \/ RouteTerminal
               \/ GatewayStep
               \/ \E r \in Outside : OutsideSend(r)
               \/ TurnStatus
               \/ Drop
               \/ UNCHANGED vars
        PROVE  Moves
    <2>1. UNCHANGED pc
      BY <1>5 DEF RouteTerminal, GatewayStep, OutsideSend, TurnStatus, Drop, vars
    <2> QED BY <2>1
  <1>6. Moves
    BY <1>1, <1>2, <1>3, <1>4, <1>5 DEF Next
  <1> SUFFICES ASSUME NEW p \in Posts
               PROVE  /\ pc[p] \in Holding => pc'[p] \in Holding \cup {"end"}
                      /\ pc[p] = "end" =>
                            /\ pc'[p] = "end"
                            /\ [op |-> "send", run |-> p] \in wire' =>
                               [op |-> "send", run |-> p] \in wire
    BY Zenon DEF HandlersAdvance
  <1>7. ASSUME pc[p] = "end", [op |-> "send", run |-> p] \in wire'
        PROVE  [op |-> "send", run |-> p] \in wire
    BY <1>7, FrameOfItsSend DEF Sends, At
  <1> QED BY <1>6, <1>7

LEMMA NamedNext ==
  ASSUME TypeOK, RunInv, NameInv, [Next]_vars
  PROVE  \A r \in Runs : /\ Nameable(r) => Nameable(r)'
                         /\ Left(r) => Left(r)'
                         /\ Settled(r) => Settled(r)'
                         /\ Began(r) => Began(r)'
  <1>1. RunsAdvance /\ HandlersAdvance
    BY RunsNext, HandlersNext
  <1>2. \A r \in Runs : Began(r) => Began(r)'
    BY <1>1 DEF RunsAdvance
  <1> QED BY <1>1, <1>2, NamedStay DEF HandlersAdvance

(* The live turn of a handler names a run that began or whose handler runs.    *)
LEMMA LiveRunNameable ==
  ASSUME TypeOK, SlotInv, HandlersNamed, LiveRunID # None
  PROVE  LiveRunID \in Runs /\ Nameable(LiveRunID)
  <1>1. live \in Handlers /\ LiveRunID = runID[live] /\ runID[live] \in Runs
    BY DEF LiveRunID, TypeOK, TurnTypeOK
  <1>2. CASE live \in Posts
    BY <1>1, <1>2 DEF HandlersNamed, Nameable
  <1>3. CASE live \in Attaches
    BY <1>1, <1>3 DEF HandlersNamed, Nameable
  <1> QED BY <1>1, <1>2, <1>3, ProcessesAssumption

LEMMA HandlersNamedNext ==
  ASSUME TypeOK, RunInv, NameInv, [Next]_vars
  PROVE  HandlersNamed'
  <1> USE ProcessesAssumption
  <1> HandlersNamed /\ PcTypeOK /\ TurnTypeOK /\ StopTypeOK /\ GatewayTypeOK
    BY DEF NameInv, TypeOK
  <1>b. \A r \in Runs : Began(r) => Began(r)'
    BY NamedNext
  <1>u. ASSUME UNCHANGED <<runID, target>>,
               \A p \in Posts : pc[p] \in Holding => pc'[p] \in Holding,
               \A o \in Attaches : pc'[o] = "gate" => pc[o] = "gate"
        PROVE  HandlersNamed'
    BY <1>b, <1>u DEF HandlersNamed, StopTypeOK
  <1>1. ASSUME NEW h \in Handlers, HandlerStep(h) PROVE HandlersNamed'
    <2>1. CASE Arm(h)
      <3>1. runID' = [runID EXCEPT ![h] = ExpectedRun(h)] /\ UNCHANGED target
        BY <2>1 DEF Arm, stopVars
      <3>2. pc[h] = "arm" /\ pc' = [pc EXCEPT ![h] = "subscribe"]
        BY <2>1 DEF Arm, At, Goto
      <3> QED BY <1>b, <3>1, <3>2 DEF HandlersNamed, ExpectedRun, Holding, Registered,
           PcTypeOK, TurnTypeOK, StopTypeOK
    <2>2. CASE Leave(h)
      <3>1. runID' = [runID EXCEPT ![h] = None] /\ UNCHANGED target
        BY <2>2 DEF Leave, stopVars
      <3>2. pc' = [pc EXCEPT ![h] = "end"]
        BY <2>2 DEF Leave, Goto
      <3> QED BY <1>b, <3>1, <3>2 DEF HandlersNamed, PcTypeOK, TurnTypeOK, StopTypeOK
    <2>3. CASE OpenStream(h)
      <3>1. UNCHANGED <<runID, target>> /\ pc[h] = "open"
        BY <2>3 DEF OpenStream, At, stopVars, turnVars
      <3>2. pc' = [pc EXCEPT ![h] = "prepare"] \/ pc' = [pc EXCEPT ![h] = "end"]
        BY <2>3 DEF OpenStream, Goto
      <3> QED BY <1>u, <3>1, <3>2 DEF Holding, Registered, PcTypeOK
    <2>4. CASE Prepare(h) \/ Subscribe(h) \/ Release(h) \/ Say(h) \/ Close(h)
      <3>1. UNCHANGED <<runID, target>>
        BY <2>4 DEF Prepare, Subscribe, GiveUp, Release, Say, Close, stopVars, turnVars
      <3>2. \E next \in Holding : pc' = [pc EXCEPT ![h] = next]
        <4>1. CASE Prepare(h)
          BY <4>1 DEF Prepare, Goto, Holding, Registered
        <4>2. CASE Subscribe(h)
          BY <4>2 DEF Subscribe, GiveUp, Goto, Holding, Registered
        <4>3. CASE Release(h) \/ Say(h) \/ Close(h)
          BY <4>3 DEF Release, Say, Close, Goto, Holding, Registered
        <4> QED BY <2>4, <4>1, <4>2, <4>3
      <3> QED BY <1>u, <3>1, <3>2 DEF Holding, Registered, PcTypeOK
    <2> QED BY <1>1, <2>1, <2>2, <2>3, <2>4 DEF HandlerStep
  <1>2. ASSUME NEW p \in Posts, PostStep(p) PROVE HandlersNamed'
    <2>1. UNCHANGED <<runID, target>>
      BY <1>2 DEF PostStep, Send, SeeTerminal, SeeBackstop, SeeConnectionLost,
         SeeClientGone, EndWait, GiveUp, stopVars, turnVars
    <2>2. pc' = [pc EXCEPT ![p] = "await"] \/ pc' = [pc EXCEPT ![p] = "release"]
      BY <1>2 DEF PostStep, Send, SeeTerminal, SeeBackstop, SeeConnectionLost,
         SeeClientGone, EndWait, GiveUp, Goto
    <2> QED BY <1>u, <2>1, <2>2 DEF Holding, Registered, PcTypeOK
  <1>3. ASSUME NEW o \in Attaches, AttachStep(o) PROVE HandlersNamed'
    <2>1. CASE Gate(o)
      <3>1. UNCHANGED runID /\ pc[o] = "gate"
        BY <2>1 DEF Gate, At, turnVars
      <3>2. pc' = [pc EXCEPT ![o] = "open"] \/ pc' = [pc EXCEPT ![o] = "end"]
        BY <2>1 DEF Gate, Goto
      <3>3. \/ UNCHANGED target
            \/ \E r \in Pending("question") : target' = [target EXCEPT ![o] = r]
        BY <2>1 DEF Gate
      <3>4. \A r \in Pending("question") : r \in Runs /\ Began(r)
        BY DEF Pending, NameInv, RunInv, Began
      <3> QED BY <1>b, <3>1, <3>2, <3>3, <3>4 DEF HandlersNamed, PcTypeOK, TurnTypeOK, StopTypeOK
    <2>2. CASE Revalidate(o) \/ Observe(o)
      <3>1. UNCHANGED <<runID, target>>
        BY <2>2 DEF Revalidate, Observe, GiveUp, stopVars, turnVars
      <3>2. pc' = [pc EXCEPT ![o] = "observe"] \/ pc' = [pc EXCEPT ![o] = "release"]
        BY <2>2 DEF Revalidate, Observe, GiveUp, Goto
      <3> QED BY <1>u, <3>1, <3>2 DEF PcTypeOK
    <2> QED BY <1>3, <2>1, <2>2 DEF AttachStep
  <1>4. ASSUME NEW s \in Stops, StopStep(s) PROVE HandlersNamed'
    <2>1. UNCHANGED runID /\ \A o \in Attaches : target'[o] = target[o]
      BY <1>4, StopMoves DEF turnVars
    <2>2. \A h \in Handlers : pc'[h] = pc[h]
      BY <1>4, StopMoves
    <2> QED BY <1>b, <2>1, <2>2 DEF HandlersNamed, StopTypeOK
  <1>5. CASE \/ RouteTerminal
             \/ GatewayStep
             \/ \E r \in Outside : OutsideSend(r)
             \/ TurnStatus
             \/ Drop
             \/ UNCHANGED vars
    <2>1. UNCHANGED <<runID, target, pc>>
      BY <1>5 DEF RouteTerminal, GatewayStep, OutsideSend, TurnStatus, Drop, vars,
         turnVars, stopVars
    <2> QED BY <1>u, <2>1
  <1> QED BY <1>1, <1>2, <1>3, <1>4, <1>5 DEF Next

(* A step of its own leaves a Stop with what it must know of the run it named. *)
LEMMA NamedStop ==
  ASSUME TypeOK, SlotInv, RunInv, NameInv, NEW s \in Stops, StopStep(s)
  PROVE  Named(s)'
  <1> USE ProcessesAssumption
  <1> HandlersNamed /\ Named(s) /\ PcTypeOK /\ TurnTypeOK /\ StopTypeOK /\ GatewayTypeOK
    BY DEF NameInv, TypeOK
  <1>n. \A r \in Runs : /\ Nameable(r) => Nameable(r)'
                        /\ Left(r) => Left(r)'
                        /\ Settled(r) => Settled(r)'
    BY NamedNext DEF Next
  <1>1. CASE NameTarget(s)
    <2>1. pc'[s] \notin {"recheck", "confirm", "ok"}
      BY <1>1 DEF NameTarget, Answer, Goto, PcTypeOK
    <2>2. \/ target' = target
          \/ target' = [target EXCEPT ![s] = LiveRunID] /\ LiveRunID # None
          \/ \E r \in InFlight : target' = [target EXCEPT ![s] = r]
      BY <1>1 DEF NameTarget
    <2>3. \A r \in InFlight : r \in Runs /\ Nameable(r)
      BY DEF InFlight, Nameable, Began
    <2>4. target'[s] # None => target'[s] \in Runs /\ Nameable(target'[s])
      BY <2>2, <2>3, LiveRunNameable DEF Named, StopTypeOK
    <2> QED BY <1>n, <2>1, <2>4 DEF Named
  <1>2. CASE \/ Abort(s) \/ Reconcile(s) \/ ListQuestions(s)
             \/ (\E r \in Runs : CancelQuestion(s, r)) \/ Cancelled(s) \/ GiveUpWaiting(s)
    <2>1. UNCHANGED target
      BY <1>2 DEF Abort, Reconcile, ListQuestions, CancelQuestion, Cancelled, GiveUpWaiting
    <2>2. pc'[s] \notin {"recheck", "confirm", "ok"}
      BY <1>2 DEF Abort, Reconcile, ListQuestions, CancelQuestion, Cancelled, GiveUpWaiting,
         Answer, Goto, At, PcTypeOK
    <2> QED BY <1>n, <2>1, <2>2 DEF Named, StopTypeOK
  <1>3. CASE SeeHubIdle(s)
    <2>1. UNCHANGED target /\ Free /\ pc'[s] = "recheck"
      BY <1>3 DEF SeeHubIdle, Answer, Goto, PcTypeOK
    <2>2. \A p \in Posts : pc[p] \notin Holding
      BY <2>1, HandlersAssumption DEF SlotInv, Free
    <2>3. target[s] # None => target[s] \in Runs /\ Left(target[s])
      BY <2>2 DEF Named, Nameable, Left, StopTypeOK
    <2> QED BY <1>n, <2>1, <2>3 DEF Named
  <1>4. CASE AskGateway(s)
    <2>1. UNCHANGED target /\ pc[s] = "recheck"
      BY <1>4 DEF AskGateway, At
    <2>2. CASE pc'[s] # "confirm"
      <3>1. pc'[s] \in {"wait", "failed"}
        BY <1>4, <2>2 DEF AskGateway, Answer, Goto, PcTypeOK
      <3> QED BY <1>n, <2>1, <3>1 DEF Named, StopTypeOK
    <2>3. CASE pc'[s] = "confirm"
      <3>1. wire = {} /\ ~Busy
        BY <1>4, <2>3 DEF AskGateway, Answer, Answers, Goto, PcTypeOK
      <3>2. \A r \in Runs : Left(r) => Settled(r)
        BY <3>1 DEF Left, Settled, Began, RunInv, InFlight, Queued, Busy, GatewayTypeOK
      <3>3. target[s] # None => target[s] \in Runs /\ Left(target[s])
        BY <2>1 DEF Named, StopTypeOK
      <3> QED BY <1>n, <2>1, <2>3, <3>2, <3>3 DEF Named
    <2> QED BY <2>2, <2>3
  <1>5. CASE SeeHubStillIdle(s)
    <2>1. UNCHANGED target /\ pc[s] = "confirm" /\ pc'[s] \in {"ok", "wait"}
      BY <1>5 DEF SeeHubStillIdle, At, Answer, Goto, PcTypeOK
    <2> QED BY <1>n, <2>1 DEF Named, StopTypeOK
  <1> QED BY <1>1, <1>2, <1>3, <1>4, <1>5 DEF StopStep

(* What the steps of the handlers and of the gateway leave alone of a Stop.    *)
LEMMA StopsWait ==
  ASSUME TypeOK, [Next]_vars, ~\E s \in Stops : StopStep(s)
  PROVE  \A s \in Stops : target'[s] = target[s] /\ pc'[s] = pc[s]
  <1>1. \A s \in Stops : target'[s] = target[s]
    <2>1. ASSUME NEW o \in Attaches, Gate(o)
          PROVE  \A s \in Stops : target'[s] = target[s]
      BY <2>1, ProcessesAssumption DEF Gate, TypeOK, StopTypeOK
    <2>2. CASE UNCHANGED target
      BY <2>2
    <2> QED BY <2>1, <2>2 DEF Next, HandlerStep, OpenStream, Prepare, Arm, Subscribe,
         Release, Say, Close, Leave, PostStep, Send, SeeTerminal, SeeBackstop,
         SeeConnectionLost, SeeClientGone, EndWait, AttachStep, Revalidate, Observe,
         RouteTerminal, GatewayStep, OutsideSend, TurnStatus, Drop, vars, stopVars
  <1>2. \A s \in Stops : pc'[s] = pc[s]
    <2>1. ASSUME NEW h \in Handlers, NEW next, Goto(h, next)
          PROVE  \A s \in Stops : pc'[s] = pc[s]
      BY <2>1, ProcessesAssumption DEF Goto, TypeOK, PcTypeOK
    <2>2. ASSUME NEW h \in Handlers, HandlerStep(h) PROVE \E next : Goto(h, next)
      BY <2>2 DEF HandlerStep, OpenStream, Prepare, Arm, Subscribe, GiveUp, Release, Say,
         Close, Leave
    <2>3. ASSUME NEW p \in Posts, PostStep(p) PROVE \E next : Goto(p, next)
      BY <2>3 DEF PostStep, Send, SeeTerminal, SeeBackstop, SeeConnectionLost,
         SeeClientGone, EndWait, GiveUp
    <2>4. ASSUME NEW o \in Attaches, AttachStep(o) PROVE \E next : Goto(o, next)
      BY <2>4 DEF AttachStep, Gate, Revalidate, Observe, GiveUp
    <2>5. ASSUME \/ RouteTerminal
                 \/ GatewayStep
                 \/ \E r \in Outside : OutsideSend(r)
                 \/ TurnStatus
                 \/ Drop
                 \/ UNCHANGED vars
          PROVE  UNCHANGED pc
      BY <2>5 DEF RouteTerminal, GatewayStep, OutsideSend, TurnStatus, Drop, vars
    <2>6. Posts \subseteq Handlers /\ Attaches \subseteq Handlers
      BY ProcessesAssumption
    <2>7. CASE \E h \in Handlers : HandlerStep(h)
      BY <2>1, <2>2, <2>7
    <2>8. CASE \E p \in Posts : PostStep(p)
      BY <2>1, <2>3, <2>6, <2>8
    <2>9. CASE \E o \in Attaches : AttachStep(o)
      BY <2>1, <2>4, <2>6, <2>9
    <2> QED BY <2>5, <2>7, <2>8, <2>9 DEF Next
  <1> QED BY <1>1, <1>2

LEMMA NameNext ==
  TypeOK /\ SlotInv /\ RunInv /\ NameInv /\ [Next]_vars => NameInv'
  <1> SUFFICES ASSUME TypeOK, SlotInv, RunInv, NameInv, [Next]_vars PROVE NameInv'
    OBVIOUS
  <1>1. HandlersNamed'
    BY HandlersNamedNext
  <1>2. ASSUME NEW s \in Stops, pc'[s] = pc[s], target'[s] = target[s]
        PROVE  Named(s)'
    <2>1. target[s] \in Runs \cup {None} /\ Named(s)
      BY DEF NameInv, TypeOK, StopTypeOK
    <2> QED BY <1>2, <2>1, NamedNext DEF Named
  <1>3. ASSUME NEW t \in Stops, StopStep(t), NEW s \in Stops PROVE Named(s)'
    <2>1. CASE s = t
      BY <1>3, <2>1, NamedStop
    <2>2. CASE s # t
      BY <1>2, <1>3, <2>2, StopMoves
    <2> QED BY <2>1, <2>2
  <1>4. CASE ~\E t \in Stops : StopStep(t)
    BY <1>1, <1>2, <1>4, StopsWait DEF NameInv
  <1> QED BY <1>1, <1>3, <1>4 DEF NameInv

(* A Stop that answered 200 stopped the run it named: by the time it has seen  *)
(* the hub idle the handler of the run is gone, and the gateway's "not busy"   *)
(* that follows leaves a run that is over or that nothing can start any more.  *)
THEOREM StopProvenCorrect == Spec => []StopProven
  <1>1. TypeOK /\ NameInv => StopProven
    BY DEF NameInv, Named, Settled, StopProven, At
  <1>2. Init => RunInv /\ NameInv
    BY NameInit
  <1>3. TypeOK /\ RunInv /\ [Next]_vars => RunInv'
    BY RunsNext DEF RunsAdvance
  <1> QED BY <1>1, <1>2, <1>3, TypeInit, TypeNext, SlotInit, SlotNext, NameNext, PTL DEF Spec

-----------------------------------------------------------------------------
(* What a Stop may stop, and when it may settle.                           *)

\* A Stop names its run once, and an abort frame on the wire is a named one.
AimInv ==
    /\ \A s \in Stops : pc[s] = "target" => target[s] = None
    /\ \A f \in wire : f.op = "abort" => \E s \in Stops : target[s] = f.run

LEMMA AimInit == Init => AimInv
  BY ProcessesAssumption DEF Init, GatewayInit, AimInv

LEMMA AimStay ==
  ASSUME TypeOK, AimInv, wire' \subseteq wire \cup [op : {"send"}, run : Runs],
         \A s \in Stops : target'[s] = target[s] /\ (pc'[s] = "target" => pc[s] = "target")
  PROVE  AimInv'
  <1>1. ASSUME NEW f \in wire', f.op = "abort" PROVE f \in wire
    <2>1. f \notin [op : {"send"}, run : Runs]
      BY <1>1
    <2> QED BY <1>1, <2>1
  <1> QED BY <1>1 DEF AimInv

LEMMA AimStop ==
  ASSUME TypeOK, AimInv, NEW s \in Stops, StopStep(s)
  PROVE  AimInv'
  <1> USE DEF At, Answer, Goto, TypeOK, PcTypeOK, StopTypeOK
  <1>1. CASE NameTarget(s)
    <2>1. UNCHANGED wire /\ pc[s] = "target" /\ pc'[s] # "target" /\ target[s] = None
      BY <1>1 DEF NameTarget, AimInv, gatewayVars
    <2>2. \A t \in Stops \ {s} : target'[t] = target[t] /\ pc'[t] = pc[t]
      BY <1>1, StopMoves
    <2>3. ASSUME NEW f \in wire, f.op = "abort" PROVE \E t \in Stops : target'[t] = f.run
      <3>1. PICK t \in Stops : target[t] = f.run
        BY <2>3 DEF AimInv
      <3>2. f.run \in Runs
        BY DEF GatewayTypeOK, Frames
      <3> QED BY <2>1, <2>2, <3>1, <3>2, ProcessesAssumption
    <2> QED BY <2>1, <2>2, <2>3 DEF AimInv
  <1>2. CASE ~NameTarget(s)
    <2>1. \A t \in Stops : target'[t] = target[t] /\ (pc'[t] = "target" => pc[t] = "target")
      <3>1. UNCHANGED target
        BY <1>2 DEF StopStep, Abort, Reconcile, ListQuestions, CancelQuestion, Cancelled,
           SeeHubIdle, AskGateway, SeeHubStillIdle, GiveUpWaiting
      <3>2. pc'[s] # "target"
        BY <1>2 DEF StopStep, Abort, Reconcile, ListQuestions, CancelQuestion, Cancelled,
           SeeHubIdle, AskGateway, SeeHubStillIdle, GiveUpWaiting
      <3> QED BY <3>1, <3>2, StopMoves
    <2>2. CASE Abort(s) /\ wire' = wire \cup {[op |-> "abort", run |-> target[s]]}
      BY <2>1, <2>2 DEF AimInv
    <2>3. CASE UNCHANGED wire
      BY <2>1, <2>3, AimStay
    <2> QED BY <1>2, <2>2, <2>3 DEF StopStep, Abort, Reconcile, ListQuestions, CancelQuestion,
         Cancelled, SeeHubIdle, AskGateway, SeeHubStillIdle, GiveUpWaiting, gatewayVars
  <1> QED BY <1>1, <1>2

LEMMA AimNext == TypeOK /\ AimInv /\ [Next]_vars => AimInv'
  <1> SUFFICES ASSUME TypeOK, AimInv, [Next]_vars PROVE AimInv'
    OBVIOUS
  <1>1. CASE \E s \in Stops : StopStep(s)
    BY <1>1, AimStop
  <1>2. CASE ~\E s \in Stops : StopStep(s)
    <2>1. wire' \subseteq wire \cup [op : {"send"}, run : Runs]
      <3>1. ASSUME NEW p \in Posts, Send(p)
            PROVE  wire' \subseteq wire \cup [op : {"send"}, run : Runs]
        <4>1. [op |-> "send", run |-> p] \in [op : {"send"}, run : Runs]
          BY ProcessesAssumption
        <4> QED BY <3>1, <4>1 DEF Send
      <3>2. CASE wire' \subseteq wire
        BY <3>2
      <3>3. ASSUME GatewayStep PROVE wire' \subseteq wire
        BY <3>3 DEF GatewayStep, Park, Decide, End, HandleLate
      <3>4. ASSUME Drop PROVE wire' \subseteq wire
        BY <3>4 DEF Drop
      <3> QED BY <1>2, <3>1, <3>2, <3>3, <3>4 DEF Next, HandlerStep, OpenStream, Prepare, Arm,
           Subscribe, Release, Say, Close, Leave, PostStep, SeeTerminal, SeeBackstop,
           SeeConnectionLost, SeeClientGone, EndWait, AttachStep, Gate, Revalidate, Observe,
           RouteTerminal, OutsideSend, TurnStatus, vars, gatewayVars
    <2> QED BY <1>2, <2>1, StopsWait, AimStay
  <1> QED BY <1>1, <1>2

(* A step stops a run only when a Stop named it.                               *)
LEMMA StopsNamedRun ==
  ASSUME TypeOK, AimInv, [Next]_vars, NEW r \in Runs,
         ending'[r] = "stopped", ending[r] # "stopped"
  PROVE  \E s \in Stops : target[s] = r
  <1> GatewayTypeOK
    BY DEF TypeOK
  <1>f. ASSUME NEW q, NEW how, Finish(q, how) PROVE q = r /\ how = "stopped"
    BY <1>f DEF Finish, GatewayTypeOK
  <1>k. ASSUME NEW q, NEW aborted, Kill(q, aborted) PROVE q = r
    BY <1>k, <1>f DEF Kill
  <1>1. ASSUME NEW s \in Stops, StopStep(s) PROVE target[s] = r
    <2>1. Abort(s) /\ \E q \in Scope(s), aborted \in BOOLEAN : Kill(q, aborted)
      BY <1>1 DEF StopStep, NameTarget, Abort, Reconcile, ListQuestions, CancelQuestion,
         Cancelled, SeeHubIdle, AskGateway, SeeHubStillIdle, GiveUpWaiting, gatewayVars
    <2> QED BY <2>1, <1>k DEF Scope
  <1>2. ASSUME NEW q \in Runs, End(q) PROVE FALSE
    BY <1>2, <1>f DEF End
  <1>3. ASSUME NEW f \in wire, HandleLate(f) PROVE f.op = "abort" /\ f.run = r
    BY <1>3, <1>k DEF HandleLate
  <1>4. CASE GatewayStep
    <2>1. \E f \in wire : HandleLate(f)
      BY <1>2, <1>4 DEF GatewayStep, Park, Decide
    <2> QED BY <2>1, <1>3 DEF AimInv
  <1>5. CASE ~GatewayStep /\ ~\E s \in Stops : StopStep(s)
    <2>1. UNCHANGED ending
      BY <1>5 DEF Next, HandlerStep, OpenStream, Prepare, Arm, Subscribe, Release, Say, Close,
         Leave, PostStep, Send, SeeTerminal, SeeBackstop, SeeConnectionLost, SeeClientGone,
         EndWait, AttachStep, Gate, Revalidate, Observe, RouteTerminal, OutsideSend,
         TurnStatus, Drop, vars, gatewayVars
    <2> QED BY <2>1
  <1> QED BY <1>1, <1>4, <1>5

(* A run is stopped only by a Stop that named it, even when the abort is late  *)
(* and another run has been promoted meanwhile.                                *)
THEOREM OnlyNamedRunsCorrect == Spec => OnlyNamedRunsAreStopped
  <1>1. TypeOK /\ AimInv /\ [Next]_vars =>
          [\A r \in Runs : ending'[r] = "stopped" /\ ending[r] # "stopped" =>
              \E s \in Stops : target[s] = r]_vars
    BY StopsNamedRun
  <1> QED BY <1>1, TypeInit, TypeNext, AimInit, AimNext, PTL DEF Spec, OnlyNamedRunsAreStopped

(* A step to the settling of records has its proof.                            *)
LEMMA SettleHasProof ==
  ASSUME TypeOK, RunInv, AimInv, [Next]_vars, NEW s \in Stops,
         pc[s] # "settle", pc'[s] = "settle"
  PROVE  IF target[s] = None THEN ~Busy ELSE run'[target[s]] \in {"new", "over"}
  <1> USE DEF At, Answer, Goto, TypeOK, PcTypeOK, StopTypeOK
  <1> GatewayTypeOK
    BY DEF TypeOK
  <1>1. StopStep(s)
    BY StopsWait, StopMoves
  <1>2. CASE NameTarget(s)
    BY <1>2 DEF NameTarget, AimInv
  <1>3. CASE Reconcile(s)
    <2>1. ~Busy /\ UNCHANGED run
      BY <1>3 DEF Reconcile, Landed, gatewayVars
    <2>2. \A r \in Runs : run[r] \in {"new", "over"}
      BY <2>1 DEF Busy, RunInv, InFlight, Queued, GatewayTypeOK
    <2> QED BY <2>1, <2>2
  <1>4. CASE Abort(s)
    <2>1. Kill(target[s], TRUE) /\ target[s] # None
      BY <1>4 DEF Abort, Scope
    <2>2. run'[target[s]] = "over"
      BY <2>1, KillRuns
    <2> QED BY <2>1, <2>2
  <1> QED BY <1>1, <1>2, <1>3, <1>4 DEF StopStep, ListQuestions, CancelQuestion, Cancelled,
       SeeHubIdle, AskGateway, SeeHubStillIdle, GiveUpWaiting

(* A Stop settles the session's records only after its proof: the abort's own  *)
(* aborted=true for the run it named, or a positive "not busy".                *)
THEOREM SettleOnProofCorrect == Spec => SettleOnProof
  <1>1. TypeOK /\ RunInv /\ AimInv /\ [Next]_vars =>
          [\A s \in Stops : ~At(s, "settle") /\ pc'[s] = "settle" =>
              IF target[s] = None THEN ~Busy ELSE run'[target[s]] \in {"new", "over"}]_vars
    BY SettleHasProof DEF At
  <1>2. Init => RunInv
    BY NameInit
  <1>3. TypeOK /\ RunInv /\ [Next]_vars => RunInv'
    BY RunsNext DEF RunsAdvance
  <1> QED BY <1>1, <1>2, <1>3, TypeInit, TypeNext, AimInit, AimNext, PTL DEF Spec, SettleOnProof
-----------------------------------------------------------------------------
(* What a stream tells of its run.                                         *)

\* What is over has an ending, and only of such a run is a terminal frame.
EndingsInv ==
    /\ \A r \in Runs : run[r] = "over" <=> ending[r] # "none"
    /\ \A i \in DOMAIN events : run[events[i]] = "over"

Frame(r) == \E i \in DOMAIN events : events[i] = r

\* What a step of the system does to the endings and to the frames on their way.
EndingsAdvance ==
    /\ EndingsInv'
    /\ \A r \in Runs : run[r] = "over" => run'[r] = "over" /\ ending'[r] = ending[r]

LEMMA EndingsInit == Init => EndingsInv
  BY DEF Init, GatewayInit, EndingsInv

(* A run that ends leaves the others as they ended, and is told of.            *)
LEMMA FinishEnds ==
  ASSUME GatewayTypeOK, NEW r \in InFlight, NEW how \in Endings, Finish(r, how)
  PROVE  /\ run'[r] = "over" /\ ending'[r] = how
         /\ \A q \in Runs \ {r} : ending'[q] = ending[q] /\ (run'[q] = "over" <=> run[q] = "over")
         /\ events' \in {events, Append(events, r)}
         /\ subscribed => events' = Append(events, r)
         /\ ~subscribed => events' = events
  <1>1. /\ run'[r] = "over"
        /\ \A q \in Runs \ {r} : run'[q] = "over" <=> run[q] = "over"
    BY DEF Finish, GatewayTypeOK, InFlight, Queued
  <1> QED BY <1>1 DEF Finish, GatewayTypeOK, InFlight

(* The frames of a sequence, as it grows and shrinks.                          *)
LEMMA FramesAppend ==
  ASSUME NEW e \in Seq(Runs), NEW r \in Runs
  PROVE  /\ \A i \in DOMAIN Append(e, r) : Append(e, r)[i] = r \/ \E j \in DOMAIN e : Append(e, r)[i] = e[j]
         /\ \A j \in DOMAIN e : \E i \in DOMAIN Append(e, r) : Append(e, r)[i] = e[j]
         /\ \E i \in DOMAIN Append(e, r) : Append(e, r)[i] = r
         /\ Append(e, r) # <<>>
  <1>1. /\ Len(e) \in Nat /\ DOMAIN e = 1..Len(e)
        /\ DOMAIN Append(e, r) = 1..(Len(e) + 1)
        /\ Append(e, r)[Len(e) + 1] = r
        /\ \A j \in 1..Len(e) : Append(e, r)[j] = e[j]
    OBVIOUS
  <1>2. Len(e) + 1 \in DOMAIN Append(e, r)
    BY <1>1
  <1>3. \A j \in DOMAIN e : j \in DOMAIN Append(e, r) /\ Append(e, r)[j] = e[j]
    BY <1>1
  <1>4. \A i \in DOMAIN Append(e, r) : i = Len(e) + 1 \/ i \in DOMAIN e
    BY <1>1
  <1>5. Append(e, r) # <<>>
    <2>1. Len(Append(e, r)) = Len(e) + 1 /\ Len(<<>>) = 0
      OBVIOUS
    <2> QED BY <1>1, <2>1
  <1> QED BY <1>1, <1>2, <1>3, <1>4, <1>5

LEMMA FramesTail ==
  ASSUME NEW e \in Seq(Runs), e # <<>>
  PROVE  /\ Head(e) \in Runs /\ \E i \in DOMAIN e : e[i] = Head(e)
         /\ \A i \in DOMAIN Tail(e) : \E j \in DOMAIN e : Tail(e)[i] = e[j]
         /\ \A j \in DOMAIN e : e[j] = Head(e) \/ \E i \in DOMAIN Tail(e) : Tail(e)[i] = e[j]
  <1>1. /\ Len(e) \in Nat \ {0} /\ DOMAIN e = 1..Len(e)
        /\ Head(e) = e[1] /\ Tail(e) \in Seq(Runs)
        /\ DOMAIN Tail(e) = 1..(Len(e) - 1)
        /\ \A i \in 1..(Len(e) - 1) : Tail(e)[i] = e[i + 1]
    OBVIOUS
  <1>2. 1 \in DOMAIN e /\ e[1] \in Runs
    BY <1>1
  <1>3. \A i \in DOMAIN Tail(e) : i + 1 \in DOMAIN e /\ Tail(e)[i] = e[i + 1]
    BY <1>1
  <1>4. \A j \in DOMAIN e \ {1} : j - 1 \in DOMAIN Tail(e) /\ Tail(e)[j - 1] = e[j]
    BY <1>1
  <1> QED BY <1>1, <1>2, <1>3, <1>4

(* The three things that a step can do to a run and to the frames: nothing     *)
(* that counts here, to begin or queue one, or to end one.                     *)
Quiet == UNCHANGED <<run, ending, events>>

Starts == \E r \in Runs : MayStart(r) /\ Accept(r) /\ UNCHANGED <<ending, events>>

Ends ==
    \E r \in InFlight, how \in Endings :
        /\ Finish(r, how)
        /\ how = "stopped" => \E s \in Stops : target[s] = r

LEMMA KillEnds ==
  ASSUME NEW r, NEW aborted, Kill(r, aborted), \E s \in Stops : target[s] = r
  PROVE  Quiet \/ Ends
  BY DEF Kill, Quiet, Ends, Endings

LEMMA RunMoves ==
  ASSUME TypeOK, AimInv, [Next]_vars
  PROVE  Quiet \/ Starts \/ Ends \/ RouteTerminal \/ Drop
  <1> USE DEF Quiet
  <1>g. GatewayTypeOK
    BY DEF TypeOK
  <1>1. ASSUME NEW h \in Handlers, HandlerStep(h) PROVE Quiet
    BY <1>1 DEF HandlerStep, OpenStream, Prepare, Arm, Subscribe, Release, Say, Close, Leave,
       gatewayVars
  <1>2. ASSUME NEW p \in Posts, PostStep(p) PROVE Quiet \/ Starts
    <2>1. CASE Send(p)
      <3>1. p \in Runs /\ Sends(p) /\ UNCHANGED <<ending, events>>
        BY <2>1, SendSends, ProcessesAssumption DEF Send
      <3>2. Accept(p) \/ UNCHANGED run
        BY <2>1 DEF Send
      <3> QED BY <3>1, <3>2 DEF Starts, MayStart
    <2> QED BY <1>2, <2>1 DEF PostStep, SeeTerminal, SeeBackstop, SeeConnectionLost,
         SeeClientGone, EndWait, gatewayVars
  <1>3. ASSUME NEW o \in Attaches, AttachStep(o) PROVE Quiet
    BY <1>3 DEF AttachStep, Gate, Revalidate, Observe, gatewayVars
  <1>4. ASSUME NEW s \in Stops, StopStep(s) PROVE Quiet \/ Ends
    <2>1. CASE Abort(s)
      <3>1. ASSUME NEW r \in Scope(s), NEW aborted, Kill(r, aborted) PROVE Quiet \/ Ends
        BY <3>1, KillEnds DEF Scope
      <3> QED BY <2>1, <3>1 DEF Abort
    <2> QED BY <1>4, <2>1 DEF StopStep, NameTarget, Reconcile, ListQuestions, CancelQuestion,
         Cancelled, SeeHubIdle, AskGateway, SeeHubStillIdle, GiveUpWaiting, gatewayVars
  <1>5. ASSUME GatewayStep PROVE Quiet \/ Starts \/ Ends
    <2>1. ASSUME NEW r \in Runs, End(r) PROVE Ends
      BY <2>1 DEF End, Ends, Endings
    <2>2. ASSUME NEW f \in wire, HandleLate(f) PROVE Quiet \/ Starts \/ Ends
      <3>1. f \in Frames
        BY <1>g DEF GatewayTypeOK
      <3>2. CASE f.op = "send" /\ Accept(f.run) /\ UNCHANGED <<ending, events>>
        <4>1. f.run \in Runs /\ f = [op |-> "send", run |-> f.run]
          BY <3>1, <3>2 DEF Frames
        <4>2. MayStart(f.run)
          BY <4>1 DEF MayStart
        <4> QED BY <3>2, <4>1, <4>2 DEF Starts
      <3>3. CASE f.op = "abort" /\ \E aborted \in BOOLEAN : Kill(f.run, aborted)
        <4>1. \E s \in Stops : target[s] = f.run
          BY <3>3 DEF AimInv
        <4> QED BY <3>3, <4>1, KillEnds
      <3> QED BY <2>2, <3>2, <3>3 DEF HandleLate
    <2> QED BY <1>5, <2>1, <2>2 DEF GatewayStep, Park, Decide
  <1>6. ASSUME NEW r \in Outside, OutsideSend(r) PROVE Starts
    BY <1>6, ProcessesAssumption DEF OutsideSend, Starts, MayStart
  <1>7. CASE TurnStatus \/ UNCHANGED vars
    BY <1>7 DEF TurnStatus, vars, gatewayVars
  <1> QED BY <1>1, <1>2, <1>3, <1>4, <1>5, <1>6, <1>7 DEF Next

LEMMA EndingsNext ==
  ASSUME TypeOK, AimInv, EndingsInv, [Next]_vars
  PROVE  EndingsAdvance
  <1> USE DEF EndingsInv, EndingsAdvance
  <1>g. GatewayTypeOK /\ events \in Seq(Runs)
    BY DEF TypeOK, GatewayTypeOK
  <1>1. CASE Quiet
    BY <1>1 DEF Quiet
  <1>2. CASE Starts
    BY <1>2, <1>g DEF Starts, Accept, GatewayTypeOK
  <1>3. ASSUME NEW r \in InFlight, NEW how \in Endings, Finish(r, how) PROVE EndingsAdvance
    <2>1. r \in Runs /\ run[r] = "running" /\ how # "none"
      BY DEF InFlight, Endings
    <2>2. \A q \in Runs : /\ run'[q] = "over" <=> run[q] = "over" \/ q = r
                          /\ q # r => ending'[q] = ending[q]
      BY <1>3, <1>g, <2>1, FinishEnds
    <2>3. run'[r] = "over" /\ ending'[r] = how
      BY <1>3, <1>g, FinishEnds
    <2>4. \A i \in DOMAIN events' : events'[i] = r \/ \E j \in DOMAIN events : events'[i] = events[j]
      <3>1. events' \in {events, Append(events, r)}
        BY <1>3, <1>g, FinishEnds
      <3>2. CASE events' = events
        BY <3>2
      <3>3. CASE events' = Append(events, r)
        BY <3>3, <1>g, <2>1, FramesAppend
      <3> QED BY <3>1, <3>2, <3>3
    <2>5. \A j \in DOMAIN events : events[j] \in Runs
      BY <1>g
    <2>6. \A i \in DOMAIN events' : run'[events'[i]] = "over"
      BY <2>1, <2>2, <2>3, <2>4, <2>5
    <2> QED BY <2>1, <2>2, <2>3, <2>6
  <1>4. CASE RouteTerminal
    BY <1>4, <1>g, FramesTail DEF RouteTerminal
  <1>5. CASE Drop
    BY <1>5 DEF Drop
  <1> QED BY <1>1, <1>2, <1>3, <1>4, <1>5, RunMoves DEF Ends

\* The labels at which a handler counts on its subscription, up to its release.
Subscribed == {"send", "await", "revalidate", "observe", "release"}

\* While the platform is subscribed, or a frame is still on its way, the stream
\* that holds the slot is the one that subscribed, over a connection that is up.
StreamInv ==
    subscribed \/ events # <<>> =>
        active # None /\ gw[active] = "up" /\ pc[active] \in Subscribed

\* A registered handler is the live turn, and knows its run before it subscribes.
Armed(h) ==
    /\ pc[h] \in Registered => live = h
    /\ pc[h] \in Subscribed \cup {"subscribe"} => runID[h] = ExpectedRun(h)

\* The runs that a stream may speak of.
About(h) == IF h \in Posts THEN {h} ELSE IF target[h] = None THEN Runs ELSE {target[h]}

Tells(h, how) ==
    how \in {"completed", "stopped"} => \E r \in About(h) : run[r] = "over" /\ ending[r] = how

\* What the turn has seen, what its handler is about to report and what its stream
\* told are the ending of a run that it is about, or an error.
Truthful(h) ==
    /\ pc[h] = "gate" => fin[h] = "none" /\ verdict[h] = "none"
    /\ said[h] # "none" => pc[h] \in {"close", "remove", "end"}
    /\ Tells(h, fin[h]) /\ Tells(h, verdict[h]) /\ Tells(h, said[h])

\* Until it is sent a message is nowhere else, and a turn that waits on a
\* connection that is up hears of its run's end: the frame is there, or was seen.
Awaited(p) ==
    /\ pc[p] \in {"open", "prepare", "arm", "subscribe", "send"} =>
          run[p] = "new" /\ [op |-> "send", run |-> p] \notin wire
    /\ pc[p] \in {"send", "await"} /\ gw[p] = "up" => subscribed
    /\ pc[p] = "await" /\ gw[p] = "up" /\ run[p] = "over" => fin[p] # "none" \/ Frame(p)

OutcomeInv ==
    /\ StreamInv
    /\ \A h \in Handlers : Armed(h) /\ Truthful(h)
    /\ \A p \in Posts : Awaited(p)

LEMMA OutcomeInit == Init => OutcomeInv
  BY ProcessesAssumption, HandlersAssumption
  DEF Init, HubInit, GatewayInit, OutcomeInv, StreamInv, Armed, Truthful, Tells, Awaited,
      Registered, Subscribed

\* A step that handler h takes itself.
Own(h) ==
    \/ HandlerStep(h)
    \/ h \in Posts /\ PostStep(h)
    \/ h \in Attaches /\ AttachStep(h)

(* A request that steps leaves the others' alone.                              *)
LEMMA OthersWait ==
  ASSUME TypeOK, NEW g \in Handlers, Own(g), NEW h \in Handlers \ {g}
  PROVE  /\ pc'[h] = pc[h] /\ gw'[h] = gw[h] /\ runID'[h] = runID[h] /\ fin'[h] = fin[h]
         /\ verdict'[h] = verdict[h] /\ said'[h] = said[h]
         /\ h \in Attaches => target'[h] = target[h]
  <1> USE DEF TypeOK, PcTypeOK, TurnTypeOK, StopTypeOK, Goto, GiveUp, turnVars, stopVars
  <1>1. CASE HandlerStep(g)
    BY <1>1 DEF HandlerStep, OpenStream, Prepare, Arm, Subscribe, Release, Say, Close, Leave
  <1>2. CASE PostStep(g)
    BY <1>2 DEF PostStep, Send, SeeTerminal, SeeBackstop, SeeConnectionLost, SeeClientGone,
       EndWait
  <1>3. CASE AttachStep(g)
    BY <1>3 DEF AttachStep, Gate, Revalidate, Observe
  <1> QED BY <1>1, <1>2, <1>3 DEF Own

(* The steps that no request of a stream takes.                                *)
LEMMA SystemStep ==
  ASSUME TypeOK, [Next]_vars, ~\E g \in Handlers : Own(g)
  PROVE  /\ \A h \in Handlers : pc'[h] = pc[h]
         /\ \A o \in Attaches : target'[o] = target[o]
         /\ UNCHANGED <<active, closed, live, runID, verdict, said>>
         /\ UNCHANGED fin \/ RouteTerminal
         /\ UNCHANGED <<gw, subscribed>> \/ Drop
  <1> USE DEF vars, hubVars, turnVars, stopVars, gatewayVars
  <1>1. ASSUME NEW s \in Stops, StopStep(s) PROVE
           /\ \A h \in Handlers : pc'[h] = pc[h]
           /\ \A o \in Attaches : target'[o] = target[o]
           /\ UNCHANGED <<active, closed, live, runID, verdict, said, fin, gw, subscribed>>
    BY <1>1, StopMoves, ProcessesAssumption
  <1>2. CASE GatewayStep
    BY <1>2 DEF GatewayStep, Park, Decide, End, HandleLate
  <1>3. CASE \/ RouteTerminal
             \/ \E r \in Outside : OutsideSend(r)
             \/ TurnStatus
             \/ Drop
             \/ UNCHANGED vars
    BY <1>3 DEF RouteTerminal, OutsideSend, TurnStatus, Drop
  <1> QED BY <1>1, <1>2, <1>3, ProcessesAssumption DEF Next, Own

(* While one request holds the slot the others can only stand at the door.     *)
LEMMA OthersAtTheDoor ==
  ASSUME TypeOK, SlotInv, NEW h \in Handlers, pc[h] \in Holding,
         NEW g \in Handlers \ {h}, Own(g)
  PROVE  UNCHANGED <<hubVars, gatewayVars, turnVars>> /\ pc[g] \in {"gate", "open"}
  <1>1. active = h /\ pc[g] \notin Holding
    BY DEF SlotInv
  <1>2. ~Free
    BY <1>1, HandlersAssumption DEF Free
  <1> USE DEF Holding, Registered, At
  <1>3. CASE HandlerStep(g)
    BY <1>1, <1>2, <1>3 DEF HandlerStep, OpenStream, Open, Prepare, Arm, Subscribe, Release,
       Say, Close, Leave
  <1>4. CASE PostStep(g)
    BY <1>1, <1>4 DEF PostStep, Send, SeeTerminal, SeeBackstop, SeeConnectionLost,
       SeeClientGone, EndWait
  <1>5. CASE AttachStep(g)
    BY <1>1, <1>5 DEF AttachStep, Gate, Revalidate, Observe
  <1> QED BY <1>3, <1>4, <1>5 DEF Own

LEMMA ArmedNext ==
  ASSUME TypeOK, SlotInv, OutcomeInv, [Next]_vars, NEW h \in Handlers
  PROVE  Armed(h)'
  <1> USE DEF Armed
  <1>h. Armed(h) /\ (h \in Posts <=> h \notin Attaches) /\ (h \in Attaches => target[h] \in Runs \cup {None})
    BY ProcessesAssumption DEF OutcomeInv, TypeOK, StopTypeOK
  <1>1. CASE ~\E g \in Handlers : Own(g)
    BY <1>1, <1>h, SystemStep DEF ExpectedRun
  <1>2. ASSUME NEW g \in Handlers \ {h}, Own(g) PROVE Armed(h)'
    <2>1. pc'[h] = pc[h] /\ runID'[h] = runID[h] /\ (h \in Attaches => target'[h] = target[h])
      BY <1>2, OthersWait
    <2>2. pc[h] \in Registered => UNCHANGED live
      BY <1>2, OthersAtTheDoor DEF Holding, turnVars
    <2> QED BY <2>1, <2>2, <1>h DEF ExpectedRun
  <1>3. CASE Own(h)
    <2> USE DEF At, Goto, TypeOK, PcTypeOK, TurnTypeOK, StopTypeOK, Registered, Subscribed,
            ExpectedRun, turnVars, stopVars
    <2>1. CASE HandlerStep(h)
      <3>1. CASE OpenStream(h) \/ Release(h) \/ Say(h) \/ Close(h) \/ Leave(h)
        BY <1>h, <3>1 DEF OpenStream, Release, Say, Close, Leave
      <3>2. CASE Prepare(h)
        BY <1>h, <3>2 DEF Prepare
      <3>3. CASE Arm(h)
        BY <1>h, <3>3 DEF Arm
      <3>4. CASE Subscribe(h)
        BY <1>h, <3>4 DEF Subscribe, GiveUp
      <3> QED BY <2>1, <3>1, <3>2, <3>3, <3>4 DEF HandlerStep
    <2>2. CASE h \in Posts /\ PostStep(h)
      BY <1>h, <2>2 DEF PostStep, Send, GiveUp, SeeTerminal, SeeBackstop, SeeConnectionLost,
         SeeClientGone, EndWait
    <2>3. CASE h \in Attaches /\ AttachStep(h)
      BY <1>h, <2>3 DEF AttachStep, Gate, Revalidate, Observe, GiveUp
    <2> QED BY <1>3, <2>1, <2>2, <2>3 DEF Own
  <1> QED BY <1>1, <1>2, <1>3

(* Frames come only to a subscriber.                                           *)
LEMMA FramesToSubscriber ==
  ASSUME TypeOK, AimInv, [Next]_vars
  PROVE  events' # <<>> => subscribed \/ events # <<>>
  <1>g. GatewayTypeOK
    BY DEF TypeOK
  <1>1. CASE Ends
    BY <1>g, <1>1, FinishEnds DEF Ends
  <1> QED BY <1>1, RunMoves DEF Quiet, Starts, RouteTerminal, Drop

LEMMA StreamNext ==
  ASSUME ~LossyUnsubscribe, TypeOK, SlotInv, AimInv, OutcomeInv, [Next]_vars
  PROVE  StreamInv'
  <1>i. StreamInv /\ active \in Handlers \cup {None} /\ connected \in BOOLEAN
    BY DEF OutcomeInv, TypeOK, HubTypeOK, GatewayTypeOK
  <1>e. events' # <<>> => subscribed \/ events # <<>>
    BY FramesToSubscriber
  <1>1. CASE ~\E g \in Handlers : Own(g)
    <2>1. CASE Drop
      BY <2>1 DEF Drop, StreamInv
    <2>2. CASE ~Drop
      <3>1. UNCHANGED <<active, gw, subscribed>> /\ \A h \in Handlers : pc'[h] = pc[h]
        BY <1>1, <2>2, SystemStep
      <3> QED BY <1>i, <1>e, <3>1 DEF StreamInv
    <2> QED BY <2>1, <2>2
  <1>2. ASSUME NEW g \in Handlers, Own(g), g = active, pc[g] \in Holding PROVE StreamInv'
    <2>h. g # None
      BY HandlersAssumption
    <2> USE DEF At, Goto, TypeOK, PcTypeOK, TurnTypeOK, Holding, Registered, Subscribed,
            turnVars, hubVars, gatewayVars
    <2>1. CASE Release(g)
      BY <1>i, <1>e, <1>2, <2>1 DEF StreamInv, Release, Usable
    <2>2. CASE Subscribe(g)
      <3>1. UNCHANGED <<active, gw, events>>
        BY <2>2 DEF Subscribe, GiveUp
      <3>2. pc[g] = "subscribe" /\ pc'[g] \in {"send", "revalidate", "release"}
        BY <2>2 DEF Subscribe, GiveUp
      <3>3. subscribed' = subscribed \/ gw[g] = "up"
        BY <2>2 DEF Subscribe, Usable
      <3> QED BY <1>i, <1>2, <2>h, <3>1, <3>2, <3>3 DEF StreamInv
    <2>3. CASE Prepare(g) \/ Arm(g) \/ Say(g) \/ Close(g) \/ Leave(g)
      <3>1. pc[g] \notin Subscribed /\ UNCHANGED <<events, subscribed>>
        BY <2>3 DEF Prepare, Arm, Say, Close, Leave
      <3> QED BY <1>i, <1>2, <3>1 DEF StreamInv
    <2>4. CASE OpenStream(g)
      BY <1>2, <2>4 DEF OpenStream
    <2>5. CASE g \in Posts /\ PostStep(g)
      <3>1. UNCHANGED <<active, gw, events, subscribed>>
        BY <2>5 DEF PostStep, Send, GiveUp, SeeTerminal, SeeBackstop, SeeConnectionLost,
           SeeClientGone, EndWait
      <3>2. pc'[g] \in Subscribed /\ pc[g] \in Subscribed
        BY <2>5 DEF PostStep, Send, GiveUp, SeeTerminal, SeeBackstop, SeeConnectionLost,
           SeeClientGone, EndWait
      <3> QED BY <1>i, <1>2, <3>1, <3>2 DEF StreamInv
    <2>6. CASE g \in Attaches /\ AttachStep(g)
      <3>1. UNCHANGED <<active, gw, events, subscribed>>
        BY <2>6 DEF AttachStep, Gate, Revalidate, Observe, GiveUp
      <3>2. pc[g] \in Subscribed => pc'[g] \in Subscribed
        BY <2>6 DEF AttachStep, Gate, Revalidate, Observe, GiveUp
      <3> QED BY <1>i, <1>2, <3>1, <3>2 DEF StreamInv
    <2> QED BY <1>2, <2>1, <2>2, <2>3, <2>4, <2>5, <2>6 DEF Own, HandlerStep
  <1>3. ASSUME NEW g \in Handlers, Own(g), NEW h \in Handlers, h = active, h # g, pc[h] \in Holding
        PROVE  StreamInv'
    <2>1. UNCHANGED <<hubVars, gatewayVars, turnVars>> /\ pc'[h] = pc[h]
      BY <1>3, OthersAtTheDoor, OthersWait
    <2> QED BY <1>i, <1>3, <2>1 DEF StreamInv, hubVars, gatewayVars, turnVars
  <1>4. ASSUME NEW g \in Handlers, Own(g), ~(active # None /\ pc[active] \in Holding)
        PROVE  StreamInv'
    <2>1. ~subscribed /\ events = <<>>
      BY <1>i, <1>4 DEF StreamInv, Subscribed, Holding, Registered
    <2>2. pc[g] \notin Holding
      BY <1>4, HandlersAssumption DEF SlotInv
    <2>3. subscribed' = subscribed
      BY <1>4, <2>2 DEF Own, HandlerStep, OpenStream, Prepare, Arm, Subscribe, GiveUp, Release,
         Say, Close, Leave, PostStep, Send, SeeTerminal, SeeBackstop, SeeConnectionLost,
         SeeClientGone, EndWait, AttachStep, Gate, Revalidate, Observe, At, Holding, Registered,
         gatewayVars
    <2> QED BY <1>e, <2>1, <2>3 DEF StreamInv
  <1> QED BY <1>i, <1>1, <1>2, <1>3, <1>4

(* The frames on their way when a step is taken arrive, or are the one that    *)
(* arrives, unless the connection drops; a run that ends while the platform is *)
(* subscribed leaves one.                                                      *)
LEMMA FramesNext ==
  ASSUME TypeOK, AimInv, [Next]_vars, ~RouteTerminal, ~Drop, NEW r \in Runs
  PROVE  /\ Frame(r) => Frame(r)'
         /\ subscribed /\ run[r] # "over" /\ run'[r] = "over" => Frame(r)'
  <1>g. GatewayTypeOK /\ events \in Seq(Runs)
    BY DEF TypeOK, GatewayTypeOK
  <1>1. CASE UNCHANGED events /\ (run'[r] = "over" => run[r] = "over")
    BY <1>1 DEF Frame
  <1>2. ASSUME NEW q \in InFlight, NEW how \in Endings, Finish(q, how)
        PROVE  /\ Frame(r) => Frame(r)'
               /\ subscribed /\ run[r] # "over" /\ run'[r] = "over" => Frame(r)'
    <2>1. q \in Runs
      BY DEF InFlight
    <2>2. CASE subscribed
      <3>1. events' = Append(events, q) /\ (r # q => (run'[r] = "over" <=> run[r] = "over"))
        BY <1>2, <1>g, <2>2, FinishEnds
      <3>2. /\ \A j \in DOMAIN events : \E i \in DOMAIN events' : events'[i] = events[j]
            /\ \E i \in DOMAIN events' : events'[i] = q
        BY <1>g, <2>1, <3>1, FramesAppend
      <3>3. Frame(r) => \E i \in DOMAIN events' : events'[i] = r
        BY <3>2 DEF Frame
      <3> QED BY <3>1, <3>2, <3>3 DEF Frame
    <2>3. CASE ~subscribed
      BY <1>2, <1>g, <2>3, FinishEnds DEF Frame
    <2> QED BY <2>2, <2>3
  <1>3. CASE Starts
    BY <1>1, <1>3, <1>g DEF Starts, Accept, GatewayTypeOK
  <1>4. CASE Quiet
    BY <1>1, <1>4 DEF Quiet
  <1> QED BY <1>2, <1>3, <1>4, RunMoves DEF Ends

(* A frame that arrives is that of another run, or finishes the turn it is for. *)
LEMMA RoutedToLive ==
  ASSUME TypeOK, EndingsInv, NEW p \in Posts, Armed(p), pc[p] = "await", RouteTerminal, Frame(p)
  PROVE  fin'[p] # "none" \/ Frame(p)'
  <1>1. live = p /\ runID[p] = p /\ p \in Handlers /\ p # None
    BY ProcessesAssumption, HandlersAssumption
    DEF Armed, Registered, Subscribed, ExpectedRun
  <1>2. events \in Seq(Runs) /\ events # <<>> /\ events' = Tail(events) /\ Head(events) \in Runs
    BY FramesTail DEF RouteTerminal, TypeOK, GatewayTypeOK
  <1>3. CASE Head(events) # p
    BY <1>2, <1>3, FramesTail DEF Frame
  <1>4. CASE Head(events) = p
    <2>1. Accepts(live, Head(events))
      BY <1>1, <1>4 DEF Accepts
    <2>2. ending[p] \in Endings
      BY ProcessesAssumption DEF EndingsInv, Frame, TypeOK, GatewayTypeOK
    <2> QED BY <1>1, <1>4, <2>1, <2>2 DEF RouteTerminal, TypeOK, TurnTypeOK, Endings
  <1> QED BY <1>3, <1>4

LEMMA AwaitedNext ==
  ASSUME TypeOK, SlotInv, RunInv, AimInv, EndingsInv, OutcomeInv, [Next]_vars, NEW p \in Posts
  PROVE  Awaited(p)'
  <1> DEFINE unsent == {"open", "prepare", "arm", "subscribe", "send"}
             frame  == [op |-> "send", run |-> p]
  <1>p. p \in Handlers /\ p \in Runs /\ p \notin Outside
    BY ProcessesAssumption
  <1>i. Awaited(p) /\ Armed(p)
    BY <1>p DEF OutcomeInv
  <1>w. ~Sends(p) => (frame \in wire' => frame \in wire)
    BY FrameOfItsSend
  <1>r. run[p] = "new" /\ frame \notin wire /\ ~Sends(p) => run'[p] = "new"
    BY <1>p, RunsNext DEF RunsAdvance, MayStart
  <1>1. CASE ~\E g \in Handlers : Own(g)
    <2>1. ~Sends(p) /\ pc'[p] = pc[p]
      BY <1>p, <1>1, SystemStep DEF Sends, At
    <2>2. CASE Drop
      <3>1. gw'[p] # "up"
        BY <1>p, <2>2 DEF Drop
      <3> QED BY <1>i, <1>w, <1>r, <2>1, <3>1 DEF Awaited
    <2>3. CASE RouteTerminal
      <3>1. UNCHANGED <<gw, subscribed, run>>
        BY <2>3 DEF RouteTerminal
      <3>2. pc[p] = "await" /\ Frame(p) => fin'[p] # "none" \/ Frame(p)'
        BY <1>p, <1>i, <2>3, RoutedToLive
      <3>3. fin[p] # "none" => fin'[p] # "none"
        BY <1>p, <2>3 DEF RouteTerminal, TypeOK, TurnTypeOK
      <3> QED BY <1>i, <1>w, <1>r, <2>1, <3>1, <3>2, <3>3 DEF Awaited
    <2>4. CASE ~Drop /\ ~RouteTerminal
      <3>1. UNCHANGED <<gw, subscribed, fin>>
        BY <1>1, <2>4, SystemStep
      <3>2. Frame(p) => Frame(p)'
        BY <1>p, <2>4, FramesNext
      <3>3. subscribed /\ run[p] # "over" /\ run'[p] = "over" => Frame(p)'
        BY <1>p, <2>4, FramesNext
      <3> QED BY <1>i, <1>w, <1>r, <2>1, <3>1, <3>2, <3>3 DEF Awaited
    <2> QED BY <2>2, <2>3, <2>4
  <1>2. ASSUME NEW g \in Handlers \ {p}, Own(g) PROVE Awaited(p)'
    <2>1. pc'[p] = pc[p] /\ gw'[p] = gw[p] /\ fin'[p] = fin[p] /\ ~Sends(p)
      BY <1>p, <1>2, OthersWait DEF Sends, At
    <2>2. pc[p] \in {"send", "await"} => UNCHANGED <<run, subscribed, events>>
      BY <1>p, <1>2, OthersAtTheDoor DEF Holding, Registered, gatewayVars
    <2> QED BY <1>i, <1>w, <1>r, <2>1, <2>2 DEF Awaited, Frame
  <1>3. CASE Own(p)
    <2> USE DEF At, Goto, TypeOK, PcTypeOK, TurnTypeOK, gatewayVars, turnVars
    <2>1. CASE Send(p)
      <3>1. pc'[p] \in {"await", "release"} /\ pc[p] = "send" /\ UNCHANGED <<gw, subscribed>>
        BY <1>p, <2>1 DEF Send, GiveUp
      <3>2. run'[p] # "over"
        BY <1>p, <1>i, <2>1, <3>1 DEF Send, Awaited, Accept, GatewayTypeOK
      <3> QED BY <1>i, <3>1, <3>2 DEF Awaited
    <2>2. CASE Subscribe(p)
      <3>1. pc'[p] = "send" => subscribed'
        BY <1>p, <2>2 DEF Subscribe, GiveUp
      <3>2. pc[p] = "subscribe" /\ pc'[p] \in {"send", "release"} /\ ~Sends(p)
        BY <1>p, <2>2 DEF Subscribe, GiveUp, Sends
      <3> QED BY <1>i, <1>w, <1>r, <3>1, <3>2 DEF Awaited
    <2>3. CASE OpenStream(p) \/ Prepare(p) \/ Arm(p)
      <3>1. /\ pc[p] \in {"open", "prepare", "arm"} /\ ~Sends(p)
            /\ pc'[p] \in {"prepare", "arm", "subscribe", "say", "end"}
        BY <1>p, <2>3 DEF OpenStream, Prepare, Arm, Sends
      <3> QED BY <1>i, <1>w, <1>r, <3>1 DEF Awaited
    <2>4. CASE \/ Release(p) \/ Say(p) \/ Close(p) \/ Leave(p)
               \/ SeeTerminal(p) \/ SeeBackstop(p) \/ SeeConnectionLost(p) \/ SeeClientGone(p)
      <3>1. pc'[p] \in {"release", "say", "close", "remove", "end"}
        BY <1>p, <2>4 DEF Release, Say, Close, Leave, SeeTerminal, SeeBackstop,
           SeeConnectionLost, SeeClientGone, EndWait
      <3> QED BY <3>1 DEF Awaited
    <2> QED BY <1>3, <2>1, <2>2, <2>3, <2>4, ProcessesAssumption DEF Own, HandlerStep, PostStep
  <1> QED BY <1>1, <1>2, <1>3

(* What a stream may tell stays true while it is about the same runs.          *)
LEMMA TellsStay ==
  ASSUME EndingsAdvance, TypeOK, NEW h \in Handlers, h \in Attaches => target'[h] = target[h],
         NEW how, Tells(h, how)
  PROVE  Tells(h, how)'
  <1>1. About(h)' = About(h) /\ About(h) \subseteq Runs
    BY ProcessesAssumption DEF About, TypeOK, StopTypeOK
  <1> QED BY <1>1 DEF Tells, EndingsAdvance

(* A frame finishes the live turn only with the ending of a run it is about.   *)
LEMMA RoutedIsOwn ==
  ASSUME ~LossyUnsubscribe, TypeOK, SlotInv, EndingsInv, OutcomeInv, RouteTerminal,
         NEW h \in Handlers, fin'[h] # fin[h]
  PROVE  pc[h] # "gate" /\ Tells(h, fin'[h])
  <1> DEFINE r == Head(events)
  <1>1. /\ live = h /\ Accepts(h, r)
        /\ fin'[h] \in {ending[r], "error"}
    BY DEF RouteTerminal, TypeOK, TurnTypeOK
  <1>2. r \in Runs /\ run[r] = "over"
    <2>1. events \in Seq(Runs) /\ events # <<>>
      BY DEF TypeOK, GatewayTypeOK, RouteTerminal
    <2> QED BY <2>1, FramesTail DEF EndingsInv
  <1>3. active = h /\ pc[h] \in Registered
    BY <1>1, HandlersAssumption DEF SlotInv, Holding
  <1>4. pc[h] \in Subscribed
    BY <1>3 DEF OutcomeInv, StreamInv, RouteTerminal
  <1>5. runID[h] = ExpectedRun(h) /\ ExpectedRun(h) \in {None, r}
    BY <1>1, <1>4 DEF OutcomeInv, Armed, Accepts
  <1>6. r \in About(h)
    BY <1>2, <1>5, ProcessesAssumption DEF ExpectedRun, About
  <1> QED BY <1>1, <1>2, <1>4, <1>6 DEF Tells, Subscribed

(* The backstop has no verdict of its own: what it waited for was delivered.   *)
LEMMA HeardBeforeBackstop ==
  ASSUME NEW p \in Posts, Awaited(p), SeeBackstop(p)
  PROVE  fin[p] # "none"
  BY DEF Awaited, SeeBackstop, EndWait, Usable, At, Frame

LEMMA TruthfulNext ==
  ASSUME ~LossyUnsubscribe, TypeOK, SlotInv, AimInv, EndingsInv, OutcomeInv, [Next]_vars,
         NEW h \in Handlers
  PROVE  Truthful(h)'
  <1>i. Truthful(h) /\ (h \in Posts => Awaited(h))
    BY DEF OutcomeInv
  <1>a. EndingsAdvance
    BY EndingsNext
  <1>s. ASSUME h \in Attaches => target'[h] = target[h]
        PROVE  /\ Tells(h, fin[h])' \/ fin'[h] # fin[h]
               /\ Tells(h, verdict[h])' \/ verdict'[h] # verdict[h]
               /\ Tells(h, said[h])' \/ said'[h] # said[h]
               /\ \A how : Tells(h, how) => Tells(h, how)'
    BY <1>a, <1>i, <1>s, TellsStay DEF Truthful
  <1>1. CASE ~\E g \in Handlers : Own(g)
    <2>1. pc'[h] = pc[h] /\ UNCHANGED <<verdict, said>> /\ (h \in Attaches => target'[h] = target[h])
      BY <1>1, SystemStep
    <2>2. CASE UNCHANGED fin
      BY <1>i, <1>s, <2>1, <2>2 DEF Truthful
    <2>3. CASE RouteTerminal
      <3>1. fin'[h] # fin[h] => pc[h] # "gate" /\ Tells(h, fin'[h])
        BY <2>3, RoutedIsOwn
      <3>2. fin'[h] # fin[h] => Tells(h, fin[h])'
        BY <3>1, <2>3 DEF RouteTerminal, Tells, About, stopVars
      <3> QED BY <1>i, <1>s, <2>1, <3>1, <3>2 DEF Truthful
    <2> QED BY <1>1, <2>2, <2>3, SystemStep
  <1>2. ASSUME NEW g \in Handlers \ {h}, Own(g) PROVE Truthful(h)'
    BY <1>2, <1>i, <1>s, OthersWait DEF Truthful
  <1>3. CASE Own(h)
    <2> USE DEF At, Goto, TypeOK, PcTypeOK, TurnTypeOK, turnVars, stopVars, GiveUp
    <2>n. \A how : how \in {"none", "error"} => Tells(h, how)'
      BY DEF Tells
    <2>1. CASE Say(h)
      <3>1. /\ UNCHANGED <<target, fin, verdict>> /\ pc[h] = "say" /\ pc'[h] = "close"
            /\ said'[h] \in {said[h], verdict[h]}
        BY <2>1 DEF Say
      <3> QED BY <1>i, <1>s, <3>1 DEF Truthful
    <2>2. CASE Leave(h)
      <3>1. /\ UNCHANGED <<target, said>> /\ pc'[h] = "end"
            /\ fin'[h] = "none" /\ verdict'[h] = "none"
        BY <2>2 DEF Leave
      <3> QED BY <1>i, <1>s, <2>n, <3>1 DEF Truthful
    <2>3. CASE OpenStream(h) \/ Prepare(h) \/ Arm(h) \/ Subscribe(h) \/ Release(h) \/ Close(h)
      <3>1. /\ UNCHANGED <<target, fin, said>> /\ pc'[h] # "gate"
            /\ verdict'[h] \in {verdict[h], "error", "none"}
        BY <2>3 DEF OpenStream, Prepare, Arm, Subscribe, Failure, Release, Close
      <3>2. \/ pc[h] \notin {"close", "remove", "end"}
            \/ pc[h] \in {"close", "remove"} /\ pc'[h] \in {"close", "remove"}
        BY <2>3 DEF OpenStream, Prepare, Arm, Subscribe, Release, Close
      <3> QED BY <1>i, <1>s, <2>n, <3>1, <3>2 DEF Truthful
    <2>4. CASE h \in Posts /\ PostStep(h)
      <3>1. UNCHANGED <<target, fin, said>> /\ pc[h] \in {"send", "await"} /\ pc'[h] # "gate"
        BY <2>4 DEF PostStep, Send, SeeTerminal, SeeBackstop, SeeConnectionLost, SeeClientGone,
           EndWait
      <3>2. verdict'[h] \in {verdict[h], fin[h], "error"}
        BY <1>i, <2>4, HeardBeforeBackstop DEF PostStep, Send, Failure, SeeTerminal, SeeBackstop,
           SeeConnectionLost, SeeClientGone, EndWait
      <3> QED BY <1>i, <1>s, <2>n, <3>1, <3>2 DEF Truthful
    <2>5. CASE h \in Attaches /\ AttachStep(h)
      <3>1. CASE Gate(h)
        <4>1. pc[h] = "gate" /\ UNCHANGED <<fin, verdict, said>> /\ pc'[h] # "gate"
          BY <3>1 DEF Gate
        <4> QED BY <1>i, <2>n, <4>1 DEF Truthful
      <3>2. CASE Revalidate(h) \/ Observe(h)
        <4>1. /\ UNCHANGED <<target, fin, said>> /\ pc[h] \in {"revalidate", "observe"}
              /\ pc'[h] # "gate" /\ verdict'[h] \in {verdict[h], fin[h], "none", "error"}
          BY <3>2 DEF Revalidate, Observe, Failure
        <4> QED BY <1>i, <1>s, <2>n, <4>1 DEF Truthful
      <3> QED BY <2>5, <3>1, <3>2 DEF AttachStep
    <2> QED BY <1>3, <2>1, <2>2, <2>3, <2>4, <2>5 DEF Own, HandlerStep
  <1> QED BY <1>1, <1>2, <1>3

LEMMA OutcomeNext ==
  ASSUME ~LossyUnsubscribe, TypeOK, SlotInv, RunInv, AimInv, EndingsInv, OutcomeInv, [Next]_vars
  PROVE  OutcomeInv'
  BY ArmedNext, StreamNext, AwaitedNext, TruthfulNext DEF OutcomeInv

(* A turn reports a completion or a stop only when its own run ended so: its   *)
(* frames are told apart by the run, those of an earlier subscription are gone *)
(* when a turn subscribes, and the backstop never overtakes a frame.  The last *)
(* two rest on the unsubscribe that every turn ends with being handled.        *)
THEOREM OwnOutcomeCorrect ==
  ASSUME ~LossyUnsubscribe
  PROVE  Spec => []OwnOutcome
  <1>1. OutcomeInv => OwnOutcome
    BY ProcessesAssumption DEF OutcomeInv, Truthful, Tells, About, OwnOutcome
  <1>2. Init => RunInv
    BY NameInit
  <1>3. TypeOK /\ RunInv /\ [Next]_vars => RunInv'
    BY RunsNext DEF RunsAdvance
  <1>4. TypeOK /\ AimInv /\ EndingsInv /\ [Next]_vars => EndingsInv'
    BY EndingsNext DEF EndingsAdvance
  <1>5. TypeOK /\ SlotInv /\ RunInv /\ AimInv /\ EndingsInv /\ OutcomeInv /\ [Next]_vars => OutcomeInv'
    BY OutcomeNext
  <1> QED BY <1>1, <1>2, <1>3, <1>4, <1>5, TypeInit, TypeNext, SlotInit, SlotNext, AimInit,
       AimNext, EndingsInit, OutcomeInit, PTL DEF Spec

-----------------------------------------------------------------------------
(* The promise of TurnPromise.                                             *)

Lives   == [r \in Runs |-> Life(r)]
Replies == [s \in Stops |-> IF pc[s] \in {"ok", "failed"} THEN pc[s] ELSE "pending"]

\* The request of the message is over and its frame is not on the way.
Withdrawn(p) == pc[p] = "end" /\ [op |-> "send", run |-> p] \notin wire

\* A step withdraws no message.
NoneWithdrawn == \A p \in Posts : run'[p] = "new" => (Withdrawn(p)' <=> Withdrawn(p))

\* The life of a run, case by case.
LifeIs(r) ==
    /\ Lives[r] = Life(r)
    /\ run[r] = "over" => Life(r) = ending[r]
    /\ run[r] \in {"queued", "running"} => Life(r) = "underway"
    /\ run[r] = "new" => Life(r) = IF r \in Posts /\ Withdrawn(r) THEN "never" ELSE "asked"
    /\ run[r] \in {"new", "queued", "running", "over"}

LEMMA LifeNow ==
  ASSUME GatewayTypeOK, NEW r \in Runs
  PROVE  LifeIs(r)
  BY DEF GatewayTypeOK, LifeIs, Lives, Life, NeverRuns, Withdrawn, At

LEMMA LifeAfter ==
  ASSUME GatewayTypeOK', NEW r \in Runs
  PROVE  LifeIs(r)'
  BY DEF GatewayTypeOK, LifeIs, Lives, Life, NeverRuns, Withdrawn, At

LivesStay == Lives' = Lives

LivesBegin ==
    \E r \in Runs : Lives[r] = "asked" /\ Lives' = [Lives EXCEPT ![r] = "underway"]

LivesEnd ==
    \E r \in Runs, how \in Endings :
        /\ Lives[r] = "underway"
        /\ how = "stopped" => \E s \in Stops : target[s] = r
        /\ Lives' = [Lives EXCEPT ![r] = how]

LEMMA LivesQuiet ==
  ASSUME TypeOK, UNCHANGED <<run, ending>>, NoneWithdrawn
  PROVE  LivesStay
  <1>1. \A r \in Runs : Life(r)' = Life(r)
    BY DEF NoneWithdrawn, Life, NeverRuns, Withdrawn, At
  <1> QED BY <1>1 DEF LivesStay, Lives

LEMMA LivesMove ==
  ASSUME TypeOK, TypeOK', AimInv, EndingsInv, [Next]_vars, NoneWithdrawn, ~Drop
  PROVE  LivesStay \/ LivesBegin \/ LivesEnd
  <1>g. GatewayTypeOK /\ GatewayTypeOK'
    BY DEF TypeOK
  <1>1. CASE Quiet \/ RouteTerminal
    BY <1>1, LivesQuiet DEF Quiet, RouteTerminal
  <1>2. ASSUME NEW r \in Runs, MayStart(r), Accept(r), UNCHANGED ending
        PROVE  LivesStay \/ LivesBegin
    <2>1. CASE run[r] # "new"
      BY <1>2, <2>1, LivesQuiet DEF Accept
    <2>2. CASE run[r] = "new"
      <3>1. /\ run'[r] \in {"queued", "running"}
            /\ \A q \in Runs \ {r} : run'[q] = run[q]
        BY <1>g, <1>2, <2>2 DEF Accept, GatewayTypeOK
      <3>2. ~(r \in Posts /\ Withdrawn(r))
        BY <1>2, ProcessesAssumption DEF MayStart, Sends, Withdrawn, At
      <3>3. Lives[r] = "asked" /\ Life(r)' = "underway"
        BY <1>g, <2>2, <3>1, <3>2, LifeNow, LifeAfter DEF LifeIs
      <3>4. \A q \in Runs \ {r} : Life(q)' = Life(q)
        BY <1>g, <1>2, <3>1, LifeNow, LifeAfter DEF NoneWithdrawn, LifeIs
      <3> QED BY <3>3, <3>4 DEF LivesBegin, Lives
    <2> QED BY <2>1, <2>2
  <1>3. ASSUME NEW r \in InFlight, NEW how \in Endings, Finish(r, how),
               how = "stopped" => \E s \in Stops : target[s] = r
        PROVE  LivesEnd
    <2>1. r \in Runs /\ run[r] = "running"
      BY DEF InFlight
    <2>2. /\ run'[r] = "over" /\ ending'[r] = how
          /\ \A q \in Runs \ {r} : ending'[q] = ending[q] /\ (run'[q] = "over" <=> run[q] = "over")
          /\ \A q \in Runs \ {r} : run'[q] = run[q] \/ (run[q] = "queued" /\ run'[q] = "running")
      BY <1>g, <1>3, FinishEnds DEF Finish, GatewayTypeOK, Queued
    <2>3. Lives[r] = "underway" /\ Life(r)' = how
      BY <1>g, <2>1, <2>2, LifeNow, LifeAfter DEF LifeIs
    <2>4. \A q \in Runs \ {r} : Life(q)' = Life(q)
      BY <1>g, <2>2, LifeNow, LifeAfter DEF NoneWithdrawn, LifeIs
    <2> QED BY <1>3, <2>1, <2>3, <2>4 DEF LivesEnd, Lives
  <1> QED BY <1>1, <1>2, <1>3, RunMoves DEF Starts, Ends

\* A step of the promise, or of nothing that the user sees.
PromiseStep == Promise!Next \/ UNCHANGED <<Lives, target, said, Replies>>

LEMMA PromiseLives ==
  ASSUME LivesStay \/ LivesBegin \/ LivesEnd, UNCHANGED <<target, said, Replies>>
  PROVE  PromiseStep
  <1>1. CASE LivesStay
    BY <1>1 DEF PromiseStep, LivesStay
  <1>2. ASSUME LivesBegin PROVE Promise!Next
    <2>1. PICK r \in Runs : Lives[r] = "asked" /\ Lives' = [Lives EXCEPT ![r] = "underway"]
      BY <1>2 DEF LivesBegin
    <2>2. Promise!Begin(r)
      BY <2>1 DEF Promise!Begin, Lives, Replies
    <2> QED BY <2>2 DEF Promise!Next
  <1>3. ASSUME LivesEnd PROVE Promise!Next
    <2>1. PICK r \in Runs, how \in Endings :
             /\ Lives[r] = "underway"
             /\ how = "stopped" => \E s \in Stops : target[s] = r
             /\ Lives' = [Lives EXCEPT ![r] = how]
      BY <1>3 DEF LivesEnd
    <2>2. Promise!End(r, how) /\ how \in Promise!Endings
      BY <2>1 DEF Promise!End, Lives, Replies, Promise!Endings, Endings
    <2> QED BY <2>2 DEF Promise!Next
  <1> QED BY <1>1, <1>2, <1>3 DEF PromiseStep

(* A message is withdrawn when its request is refused or returns, or when the  *)
(* connection is lost with its frame.                                          *)
LEMMA PromiseWithdraw ==
  ASSUME TypeOK, TypeOK', [Next]_vars, UNCHANGED <<run, ending, target, said, Replies>>
  PROVE  Promise!Next
  <1> DEFINE R == {p \in Posts : run[p] = "new" /\ ~Withdrawn(p) /\ Withdrawn(p)'}
  <1>g. GatewayTypeOK /\ GatewayTypeOK'
    BY DEF TypeOK
  <1>1. \A p \in Posts : Withdrawn(p) => Withdrawn(p)'
    BY HandlersNext DEF HandlersAdvance, Withdrawn
  <1>2. \A r \in R : r \in Runs /\ Lives[r] = "asked"
    BY <1>g, ProcessesAssumption, LifeNow DEF LifeIs
  <1>3. \A r \in Runs : Life(r)' = IF r \in R THEN "never" ELSE Life(r)
    BY <1>g, <1>1, LifeNow, LifeAfter DEF LifeIs
  <1>4. Promise!Withdraw(R)
    <2>1. Lives' = [r \in Runs |-> IF r \in R THEN "never" ELSE Lives[r]]
      BY <1>3 DEF Lives
    <2> QED BY <1>2, <2>1 DEF Promise!Withdraw, Lives, Replies
  <1> QED BY <1>4 DEF Promise!Next

(* No other step withdraws a message.                                          *)
LEMMA NoneWithdrawnNext ==
  ASSUME TypeOK, [Next]_vars, ~Drop, ~\E h \in Handlers : OpenStream(h) \/ Leave(h)
  PROVE  NoneWithdrawn
  <1> SUFFICES ASSUME NEW p \in Posts, run'[p] = "new" PROVE Withdrawn(p)' <=> Withdrawn(p)
    BY DEF NoneWithdrawn
  <1> DEFINE frame == [op |-> "send", run |-> p]
  <1>p. p \in Handlers /\ p \notin Stops
    BY ProcessesAssumption
  <1>1. Withdrawn(p) => Withdrawn(p)'
    BY HandlersNext DEF HandlersAdvance, Withdrawn
  <1>2. pc'[p] = "end" => pc[p] = "end"
    <2>1. CASE ~\E g \in Handlers : Own(g)
      BY <1>p, <2>1, SystemStep
    <2>2. ASSUME NEW g \in Handlers, Own(g) PROVE pc'[p] = "end" => pc[p] = "end"
      <3>1. CASE g # p
        BY <1>p, <2>2, <3>1, OthersWait
      <3>2. CASE g = p
        BY <1>p, <2>2, <3>2, ProcessesAssumption
        DEF Own, HandlerStep, Prepare, Arm, Subscribe, GiveUp, Release, Say, Close, PostStep,
            Send, SeeTerminal, SeeBackstop, SeeConnectionLost, SeeClientGone, EndWait, Goto,
            TypeOK, PcTypeOK
      <3> QED BY <3>1, <3>2
    <2> QED BY <2>1, <2>2
  <1>3. frame \in wire => frame \in wire'
    <2>1. CASE wire \subseteq wire'
      BY <2>1
    <2>2. ASSUME NEW f \in wire, HandleLate(f), f # frame PROVE frame \in wire => frame \in wire'
      BY <2>2 DEF HandleLate
    <2>3. ASSUME HandleLate(frame) PROVE FALSE
      BY <1>p, <2>3, ProcessesAssumption DEF HandleLate, Accept, TypeOK, GatewayTypeOK
    <2>4. ASSUME GatewayStep, ~\E f \in wire : HandleLate(f) PROVE wire \subseteq wire'
      BY <2>4 DEF GatewayStep, Park, Decide, End
    <2>5. ASSUME NEW s \in Stops, StopStep(s) PROVE wire \subseteq wire'
      BY <2>5 DEF StopStep, NameTarget, Abort, Reconcile, ListQuestions, CancelQuestion,
         Cancelled, SeeHubIdle, AskGateway, SeeHubStillIdle, GiveUpWaiting, gatewayVars
    <2> QED BY <2>1, <2>2, <2>3, <2>4, <2>5 DEF Next, HandlerStep, OpenStream, Prepare, Arm,
         Subscribe, Release, Say, Close, Leave, PostStep, Send, SeeTerminal, SeeBackstop,
         SeeConnectionLost, SeeClientGone, EndWait, AttachStep, Gate, Revalidate, Observe,
         RouteTerminal, OutsideSend, TurnStatus, vars, gatewayVars
  <1> QED BY <1>1, <1>2, <1>3 DEF Withdrawn

(* An observer is aimed at its run, and so is a Stop.                          *)
LEMMA PromiseAim ==
  ASSUME LivesStay, UNCHANGED <<said, Replies>>, NEW x \in Attaches \cup Stops, target[x] = None,
         NEW r \in Runs, target' = [target EXCEPT ![x] = r]
  PROVE  Promise!Next
  <1>1. Promise!Aim(x, r)
    BY DEF Promise!Aim, LivesStay, Lives, Replies
  <1> QED BY <1>1 DEF Promise!Next

(* What a stream tells is the fate of a run that it is about, or an error.     *)
LEMMA PromiseReport ==
  ASSUME TypeOK, NEW h \in Handlers, Truthful(h), Say(h), LivesStay, UNCHANGED <<target, Replies>>
  PROVE  PromiseStep
  <1>1. said[h] = "none" /\ (UNCHANGED said \/ said' = [said EXCEPT ![h] = verdict[h]])
    BY DEF Truthful, Say, At
  <1>2. CASE UNCHANGED said \/ verdict[h] = "none"
    <2>1. UNCHANGED said
      BY <1>1, <1>2 DEF TypeOK, TurnTypeOK
    <2> QED BY <2>1 DEF PromiseStep, LivesStay
  <1>3. CASE said' = [said EXCEPT ![h] = verdict[h]] /\ verdict[h] # "none"
    <2>1. verdict[h] \in Promise!Endings
      BY <1>3 DEF TypeOK, TurnTypeOK, Outcomes, Endings, Promise!Endings
    <2>2. verdict[h] = "error" \/ \E r \in Promise!About(h) : Lives[r] = verdict[h]
      <3>1. Promise!About(h) = About(h) /\ About(h) \subseteq Runs
        BY ProcessesAssumption DEF Promise!About, About, TypeOK, StopTypeOK
      <3>2. \A r \in Runs : LifeIs(r)
        BY LifeNow DEF TypeOK
      <3> QED BY <2>1, <3>1, <3>2 DEF Truthful, Tells, LifeIs, Promise!Endings
    <2>3. Promise!Report(h, verdict[h])
      BY <1>1, <1>3, <2>2 DEF Promise!Report, LivesStay, Lives, Replies
    <2> QED BY <2>1, <2>3, ProcessesAssumption DEF PromiseStep, Promise!Next
  <1> QED BY <1>1, <1>2, <1>3

Answered(s) == pc[s] \in {"ok", "failed"}

LEMMA RepliesStay ==
  ASSUME \A s \in Stops : pc'[s] = pc[s] \/ (~Answered(s) /\ ~Answered(s)')
  PROVE  Replies' = Replies
  BY DEF Replies, Answered

(* A Stop is answered once, and well only when what it named met its fate.     *)
LEMMA PromiseAnswer ==
  ASSUME TypeOK, EndingsInv, LivesStay, UNCHANGED <<target, said>>,
         NEW s \in Stops, ~Answered(s), NEW how \in {"ok", "failed"}, Goto(s, how),
         how = "ok" /\ target[s] # None => Settled(target[s])
  PROVE  Promise!Next
  <1>1. pc' = [pc EXCEPT ![s] = how] /\ pc \in [Handlers \cup Stops -> HandlerPC \cup StopPC]
    BY DEF Goto, TypeOK, PcTypeOK
  <1>2. Replies' = [Replies EXCEPT ![s] = how]
    BY <1>1 DEF Replies
  <1>3. how = "ok" /\ target[s] # None => Lives[target[s]] \in Promise!Fates
    <2> SUFFICES ASSUME how = "ok", target[s] # None PROVE Lives[target[s]] \in Promise!Fates
      OBVIOUS
    <2> DEFINE r == target[s]
    <2>1. r \in Runs /\ Settled(r)
      BY DEF TypeOK, StopTypeOK
    <2>2. LifeIs(r)
      BY <2>1, LifeNow DEF TypeOK
    <2>3. CASE run[r] = "over"
      <3>1. ending[r] \in Endings
        BY <2>1, <2>3 DEF EndingsInv, TypeOK, GatewayTypeOK
      <3> QED BY <2>2, <2>3, <3>1 DEF LifeIs, Endings, Promise!Fates, Promise!Endings
    <2>4. CASE run[r] # "over"
      BY <2>1, <2>2, <2>4 DEF LifeIs, Settled, Withdrawn, Promise!Fates
    <2> QED BY <2>3, <2>4
  <1>4. Replies[s] = "pending"
    BY DEF Replies, Answered
  <1>5. Promise!Answer(s, how)
    BY <1>2, <1>3, <1>4 DEF Promise!Answer, LivesStay, Lives, Replies
  <1> QED BY <1>5 DEF Promise!Next

LEMMA PromiseStop ==
  ASSUME TypeOK, TypeOK', SlotInv, RunInv, NameInv, AimInv, EndingsInv, [Next]_vars,
         NEW s \in Stops, StopStep(s)
  PROVE  PromiseStep
  <1> USE DEF At, Answered
  <1>1. /\ UNCHANGED said
        /\ \A t \in Stops \ {s} : pc'[t] = pc[t]
        /\ \A h \in Handlers : pc'[h] = pc[h]
    BY StopMoves, ProcessesAssumption DEF turnVars
  <1>2. NoneWithdrawn
    <2>1. ~Drop /\ ~\E h \in Handlers : OpenStream(h) \/ Leave(h)
      <3>1. UNCHANGED <<drops, gw>>
        BY StopMoves DEF turnVars
      <3>2. ASSUME Drop PROVE FALSE
        BY <3>1, <3>2, BoundsAssumption DEF Drop, TypeOK
      <3>3. ASSUME NEW h \in Handlers, OpenStream(h) \/ Leave(h) PROVE FALSE
        <4>1. pc'[h] # pc[h]
          BY <3>3 DEF OpenStream, Leave, Goto, TypeOK, PcTypeOK
        <4> QED BY <1>1, <4>1
      <3> QED BY <3>2, <3>3
    <2> QED BY <2>1, NoneWithdrawnNext
  <1>3. ASSUME UNCHANGED <<run, ending>> PROVE LivesStay
    BY <1>2, <1>3, LivesQuiet
  <1>4. CASE NameTarget(s)
    <2>1. LivesStay /\ pc[s] = "target" /\ target[s] = None
      BY <1>3, <1>4 DEF NameTarget, AimInv, gatewayVars
    <2>2. CASE UNCHANGED target /\ Goto(s, "failed")
      BY <1>1, <2>1, <2>2, PromiseAnswer DEF PromiseStep
    <2>3. CASE UNCHANGED target /\ Goto(s, "settle")
      <3>1. UNCHANGED Replies
        BY <1>1, <2>1, <2>3, RepliesStay DEF Goto, TypeOK, PcTypeOK
      <3> QED BY <1>1, <2>1, <2>3, <3>1, PromiseLives
    <2>4. ASSUME NEW r \in Runs, target' = [target EXCEPT ![s] = r], Goto(s, "abort")
          PROVE  PromiseStep
      <3>1. UNCHANGED Replies
        BY <1>1, <2>1, <2>4, RepliesStay DEF Goto, TypeOK, PcTypeOK
      <3> QED BY <1>1, <2>1, <2>4, <3>1, PromiseAim DEF PromiseStep
    <2>5. LiveRunID # None => LiveRunID \in Runs
      BY LiveRunNameable DEF NameInv
    <2>6. \A r \in InFlight : r \in Runs
      BY DEF InFlight
    <2> QED BY <1>4, <2>2, <2>3, <2>4, <2>5, <2>6 DEF NameTarget, Answer
  <1>5. CASE Abort(s)
    <2>1. pc[s] = "abort" /\ pc'[s] \in {"settle", "reconcile"} /\ UNCHANGED target
      BY <1>5 DEF Abort, Answer, Goto, TypeOK, PcTypeOK
    <2>2. UNCHANGED Replies
      BY <1>1, <2>1, RepliesStay
    <2>3. LivesStay \/ LivesBegin \/ LivesEnd
      BY <1>2, LivesMove, StopMoves, BoundsAssumption DEF Drop, TypeOK
    <2> QED BY <1>1, <2>1, <2>2, <2>3, PromiseLives
  <1>6. CASE ListQuestions(s) \/ (\E r \in Runs : CancelQuestion(s, r)) \/ Cancelled(s) \/ SeeHubIdle(s)
    <2>1. LivesStay /\ UNCHANGED target
      BY <1>3, <1>6 DEF ListQuestions, CancelQuestion, Cancelled, SeeHubIdle, gatewayVars
    <2>2. pc[s] \notin {"ok", "failed"} /\ pc'[s] \notin {"ok", "failed"}
      BY <1>6 DEF ListQuestions, CancelQuestion, Cancelled, SeeHubIdle, Answer, Goto,
         TypeOK, PcTypeOK
    <2>3. UNCHANGED Replies
      BY <1>1, <2>2, RepliesStay
    <2> QED BY <1>1, <2>1, <2>3, PromiseLives
  <1>7. CASE Reconcile(s) \/ AskGateway(s) \/ SeeHubStillIdle(s) \/ GiveUpWaiting(s)
    <2>1. LivesStay /\ UNCHANGED target
      BY <1>3, <1>7 DEF Reconcile, AskGateway, SeeHubStillIdle, GiveUpWaiting, gatewayVars
    <2>2. /\ pc[s] \notin {"ok", "failed"}
          /\ \/ \E next \in {"settle", "wait", "confirm"} : Goto(s, next)
             \/ Goto(s, "failed")
             \/ pc[s] = "confirm" /\ Goto(s, "ok")
      BY <1>7 DEF Reconcile, AskGateway, SeeHubStillIdle, GiveUpWaiting, Answer
    <2>3. pc[s] = "confirm" /\ target[s] # None => Settled(target[s])
      BY DEF NameInv, Named
    <2>4. ASSUME NEW next \in {"settle", "wait", "confirm"}, Goto(s, next) PROVE PromiseStep
      <3>1. UNCHANGED Replies
        BY <1>1, <2>2, <2>4, RepliesStay DEF Goto, TypeOK, PcTypeOK
      <3> QED BY <1>1, <2>1, <3>1, PromiseLives
    <2>5. ASSUME NEW how \in {"failed", "ok"}, Goto(s, how), how = "ok" => pc[s] = "confirm"
          PROVE  PromiseStep
      BY <1>1, <2>1, <2>2, <2>3, <2>5, PromiseAnswer DEF PromiseStep
    <2> QED BY <2>2, <2>4, <2>5
  <1> QED BY <1>4, <1>5, <1>6, <1>7 DEF StopStep

LEMMA PromiseNext ==
  ASSUME TypeOK, TypeOK', SlotInv, RunInv, NameInv, AimInv, EndingsInv, OutcomeInv, [Next]_vars
  PROVE  PromiseStep
  <1>1. CASE \E s \in Stops : StopStep(s)
    BY <1>1, PromiseStop
  <1>2. CASE ~\E s \in Stops : StopStep(s)
    <2>r. UNCHANGED Replies /\ \A s \in Stops : target'[s] = target[s]
      BY <1>2, StopsWait, RepliesStay
    <2>1. CASE Drop \/ \E h \in Handlers : OpenStream(h) \/ Leave(h)
      <3>1. UNCHANGED <<run, ending, target, said>>
        BY <2>1 DEF Drop, OpenStream, Leave, gatewayVars, turnVars, stopVars
      <3> QED BY <2>r, <3>1, PromiseWithdraw DEF PromiseStep
    <2>2. ASSUME ~Drop, ~\E h \in Handlers : OpenStream(h) \/ Leave(h) PROVE NoneWithdrawn
      BY <2>2, NoneWithdrawnNext
    <2>3. ASSUME NEW o \in Attaches, Gate(o), NoneWithdrawn PROVE PromiseStep
      <3>1. LivesStay /\ UNCHANGED said
        BY <2>3, LivesQuiet DEF Gate, gatewayVars, turnVars
      <3>2. CASE UNCHANGED target
        BY <2>r, <3>1, <3>2, PromiseLives
      <3>3. ASSUME NEW r \in Pending("question"), target' = [target EXCEPT ![o] = r]
            PROVE  PromiseStep
        <4>1. r \in Runs
          BY DEF Pending
        <4>2. target[o] = None
          BY <2>3 DEF Gate, At, NameInv, HandlersNamed
        <4> QED BY <2>r, <3>1, <3>3, <4>1, <4>2, PromiseAim DEF PromiseStep
      <3> QED BY <2>3, <3>2, <3>3 DEF Gate
    <2>4. ASSUME NEW h \in Handlers, Say(h), NoneWithdrawn PROVE PromiseStep
      <3>1. LivesStay /\ UNCHANGED target
        BY <2>4, LivesQuiet DEF Say, gatewayVars, stopVars
      <3> QED BY <2>r, <2>4, <3>1, PromiseReport DEF OutcomeInv
    <2>5. CASE /\ ~\E h \in Handlers : OpenStream(h) \/ Leave(h) \/ Say(h)
               /\ ~\E o \in Attaches : Gate(o)
               /\ ~Drop
      <3>1. UNCHANGED <<target, said>>
        BY <1>2, <2>5 DEF Next, HandlerStep, Prepare, Arm, Subscribe, GiveUp, Release, Close,
           PostStep, Send, SeeTerminal, SeeBackstop, SeeConnectionLost, SeeClientGone, EndWait,
           AttachStep, Revalidate, Observe, RouteTerminal, GatewayStep, OutsideSend, TurnStatus,
           vars, turnVars, stopVars
      <3>2. LivesStay \/ LivesBegin \/ LivesEnd
        BY <2>2, <2>5, LivesMove
      <3> QED BY <2>r, <3>1, <3>2, PromiseLives
    <2> QED BY <2>1, <2>2, <2>3, <2>4, <2>5
  <1> QED BY <1>1, <1>2

(* Whatever its requests, its queue and its connection do, the conversation    *)
(* keeps the promise: each message meets one fate, only a Stop that named a    *)
(* run stops it, a stream tells no other fate than that of what it is about,   *)
(* and a Stop that is answered well has stopped for good what it named.        *)
THEOREM PromiseKeptCorrect ==
  ASSUME ~LossyUnsubscribe
  PROVE  Spec => PromiseKept
  <1>1. Init => Promise!Init
    <2> SUFFICES ASSUME Init PROVE Promise!Init
      OBVIOUS
    <2>1. \A r \in Runs : Life(r) = "asked"
      BY ProcessesAssumption DEF Init, GatewayInit, Life, NeverRuns, At
    <2> QED BY <2>1, ProcessesAssumption DEF Init, Promise!Init
  <1>2. TypeOK /\ TypeOK' /\ SlotInv /\ RunInv /\ NameInv /\ AimInv /\ EndingsInv /\ OutcomeInv
          /\ [Next]_vars => [Promise!Next]_(Promise!promiseVars)
    BY PromiseNext DEF PromiseStep, Lives, Replies, Promise!promiseVars
  <1>3. Init => RunInv /\ NameInv
    BY NameInit
  <1>4. TypeOK /\ RunInv /\ [Next]_vars => RunInv'
    BY RunsNext DEF RunsAdvance
  <1>5. TypeOK /\ AimInv /\ EndingsInv /\ [Next]_vars => EndingsInv'
    BY EndingsNext DEF EndingsAdvance
  <1>6. TypeOK /\ SlotInv /\ RunInv /\ AimInv /\ EndingsInv /\ OutcomeInv /\ [Next]_vars => OutcomeInv'
    BY OutcomeNext
  <1> QED BY <1>1, <1>2, <1>3, <1>4, <1>5, <1>6, TypeInit, TypeNext, SlotInit, SlotNext, NameNext,
       AimInit, AimNext, EndingsInit, OutcomeInit, PTL DEF Spec, PromiseKept, Promise!Spec
=============================================================================
