---------------------------- MODULE ApprovalsProofs ----------------------------
(***************************************************************************)
(* Proofs about Approvals, for any number of approvals, decisions and      *)
(* Stops, and any number of restarts and lost connections.                 *)
(***************************************************************************)
EXTENDS Approvals, Integers, TLAPS

-----------------------------------------------------------------------------
(* Types.                                                                  *)

\* The gateway's side of TypeOK, and the platform's.
GatewayType ==
    /\ status \in [Approvals -> {"absent", "pending", "cancelled"} \cup Decisions]
    /\ by \in [Approvals -> Deciders \cup {None}]
    /\ runOver \in BOOLEAN
    /\ late \subseteq Deciders
    /\ news \in [Approvals -> Seq(Broadcasts)]

RequestType ==
    /\ inflight \in [Approvals -> Deciders \cup {None}]
    /\ request \in [Deciders -> Requests]
    /\ pc \in [Deciders \cup Stops -> DeciderPC \cup StopPC]
    /\ \A d \in Deciders : pc[d] \in DeciderPC
    /\ \A s \in Stops : pc[s] \in StopPC
    /\ answer \in [Deciders -> {"none", "ok", "gone", "failed"}]
    /\ captured \in [Stops -> SUBSET Approvals]
    /\ aim \in [Stops -> Approvals \cup {None}]

RecordType ==
    /\ ledger \in [Approvals -> Decisions \cup {"none"}]
    /\ open \in BOOLEAN
    /\ card \in [Approvals -> {"none", "pending", "stopped"} \cup Decisions]

LEMMA TypeParts ==
  /\ TypeOK <=> GatewayType /\ RequestType /\ RecordType
  /\ GatewayType' /\ RequestType' /\ RecordType' => TypeOK'
  BY DEF TypeOK, GatewayType, RequestType, RecordType

LEMMA RequestNames ==
  ASSUME RequestType, NEW d \in Deciders
  PROVE  Named(d) \in Approvals /\ Outcome(d) \in Decisions
  BY DEF RequestType, Requests, Named, Outcome, Decisions

LEMMA TypeInit == Init => TypeOK
  <1> SUFFICES ASSUME Init PROVE TypeOK
    OBVIOUS
  <1>1. GatewayType
    <2>1. <<>> \in Seq(Broadcasts)
      OBVIOUS
    <2> QED BY <2>1 DEF Init, GatewayType
  <1>2. RequestType
    BY RequestsAssumption DEF Init, RequestType, DeciderPC, StopPC
  <1>3. RecordType
    BY DEF Init, RecordType
  <1> QED BY <1>1, <1>2, <1>3, TypeParts

(* A broadcast more, or one less, is still a sequence of broadcasts.           *)
LEMMA NewsType ==
  ASSUME GatewayType, NEW a \in Approvals
  PROVE  /\ \A ev \in Broadcasts : Append(news[a], ev) \in Seq(Broadcasts)
         /\ news[a] # <<>> => /\ Tail(news[a]) \in Seq(Broadcasts)
                              /\ Head(news[a]) \in Broadcasts
  BY DEF GatewayType

LEMMA HonourType ==
  ASSUME GatewayType, NEW d \in Deciders \cup {None}, NEW a \in Approvals,
         NEW how \in Decisions, Honour(d, a, how)
  PROVE  /\ status' \in [Approvals -> {"absent", "pending", "cancelled"} \cup Decisions]
         /\ by' \in [Approvals -> Deciders \cup {None}]
         /\ news' \in [Approvals -> Seq(Broadcasts)]
  <1>1. [how |-> how, human |-> TRUE] \in Broadcasts
    BY DEF Broadcasts, Decisions
  <1> QED BY <1>1, NewsType DEF Honour, GatewayType

LEMMA WithdrawType ==
  ASSUME TypeOK, NEW A \in SUBSET Approvals, Withdraw(A), runOver' \in BOOLEAN
  PROVE  TypeOK'
  <1>1. [how |-> "rejected", human |-> FALSE] \in Broadcasts
    BY DEF Broadcasts
  <1>2. GatewayType'
    BY <1>1, TypeParts, NewsType DEF Withdraw, GatewayType
  <1> QED BY <1>2, TypeParts DEF Withdraw, RequestType, RecordType, stopVars, viewVars

LEMMA PublishType ==
  ASSUME RecordType, NEW a \in Approvals \cup {None},
         NEW how \in {"pending", "stopped"} \cup Decisions, Publish(a, how)
  PROVE  card' \in [Approvals -> {"none", "pending", "stopped"} \cup Decisions]
  BY RequestsAssumption DEF RecordType, Publish

LEMMA GatewayStepType ==
  ASSUME TypeOK, NEW a \in Approvals, Raise(a) \/ Expire(a) \/ DecideElsewhere(a) \/ Relay(a)
  PROVE  TypeOK'
  <1> USE TypeParts DEF stopVars, viewVars, gatewayVars
  <1>1. CASE Raise(a)
    <2>1. [how |-> "pending", human |-> FALSE] \in Broadcasts
      BY DEF Broadcasts
    <2>2. GatewayType'
      BY <1>1, <2>1, NewsType DEF Raise, GatewayType
    <2> QED BY <1>1, <2>2 DEF Raise, RequestType, RecordType
  <1>2. CASE Expire(a)
    BY <1>2, WithdrawType DEF Expire, GatewayType
  <1>3. CASE DecideElsewhere(a)
    <2>1. GatewayType'
      BY <1>3, HonourType DEF DecideElsewhere, GatewayType
    <2> QED BY <1>3, <2>1 DEF DecideElsewhere, RequestType, RecordType
  <1>4. CASE Relay(a)
    <2>1. GatewayType'
      BY <1>4, NewsType DEF Relay, GatewayType
    <2>2. Shown(Head(news[a])) \in {"pending", "stopped"} \cup Decisions
      BY <1>4, NewsType DEF Relay, Shown, Broadcasts, Decisions
    <2>3. RecordType'
      BY <1>4, <2>2, PublishType DEF Relay, RecordType
    <2> QED BY <1>4, <2>1, <2>3 DEF Relay, RequestType
  <1> QED BY <1>1, <1>2, <1>3, <1>4

LEMMA DeciderType ==
  ASSUME TypeOK, NEW d \in Deciders, DeciderStep(d) \/ ArriveLate(d)
  PROVE  TypeOK'
  <1> USE TypeParts, RequestNames DEF stopVars, viewVars, gatewayVars, At, Goto, Return
  <1>1. CASE Reserve(d) \/ GiveUpReserving(d) \/ Verify(d) \/ Release(d)
    <2>1. RequestType'
      BY <1>1, RequestsAssumption
      DEF Reserve, GiveUpReserving, Verify, Release, RequestType, DeciderPC
    <2> QED BY <1>1, <2>1
        DEF Reserve, GiveUpReserving, Verify, Release, GatewayType, RecordType
  <1>2. CASE Write(d)
    <2>1. GatewayType'
      BY <1>2, HonourType DEF Write, GatewayType
    <2>2. RequestType'
      BY <1>2, RequestsAssumption DEF Write, RequestType, DeciderPC
    <2> QED BY <1>2, <2>1, <2>2 DEF Write, RecordType
  <1>3. CASE PublishDecision(d)
    <2>1. RecordType'
      BY <1>3, PublishType DEF PublishDecision, RecordType
    <2>2. RequestType'
      BY <1>3, RequestsAssumption DEF PublishDecision, RequestType, DeciderPC
    <2> QED BY <1>3, <2>1, <2>2 DEF PublishDecision, GatewayType
  <1>4. CASE Record(d)
    <2>1. RecordType'
      BY <1>4 DEF Record, Recorded, RecordType
    <2>2. RequestType'
      BY <1>4, RequestsAssumption DEF Record, RequestType, DeciderPC
    <2> QED BY <1>4, <2>1, <2>2 DEF Record, GatewayType
  <1>5. CASE ArriveLate(d)
    <2>1. GatewayType'
      BY <1>5, HonourType DEF ArriveLate, GatewayType
    <2> QED BY <1>5, <2>1 DEF ArriveLate, RequestType, RecordType
  <1> QED BY <1>1, <1>2, <1>3, <1>4, <1>5 DEF DeciderStep

LEMMA StopType ==
  ASSUME TypeOK, NEW s \in Stops, StopStep(s)
  PROVE  TypeOK'
  <1> USE TypeParts DEF stopVars, viewVars, gatewayVars, At, Goto
  <1>1. CASE Capture(s) \/ Abort(s) \/ Settled(s)
    <2>1. RequestType'
      BY <1>1, RequestsAssumption
      DEF Capture, Abort, Settled, RequestType, StopPC, Pending
    <2> QED BY <1>1, <2>1 DEF Capture, Abort, Settled, GatewayType, RecordType
  <1>2. ASSUME NEW a \in Approvals, Settle(s, a) PROVE TypeOK'
    <2>1. RequestType'
      BY <1>2, RequestsAssumption DEF Settle, RequestType, StopPC
    <2> QED BY <1>2, <2>1 DEF Settle, GatewayType, RecordType
  <1>3. CASE PublishStopped(s)
    <2>1. RequestType'
      BY <1>3, RequestsAssumption DEF PublishStopped, RequestType, StopPC
    <2>2. RecordType'
      BY <1>3, PublishType DEF PublishStopped, RecordType, RequestType
    <2> QED BY <1>3, <2>1, <2>2 DEF PublishStopped, GatewayType
  <1> QED BY <1>1, <1>2, <1>3 DEF StopStep

LEMMA OtherType ==
  ASSUME TypeOK, EndRun \/ OpenStream \/ CloseStream \/ Drop \/ Restart \/ UNCHANGED vars
  PROVE  TypeOK'
  <1> USE TypeParts DEF stopVars, viewVars, gatewayVars
  <1>n. <<>> \in Seq(Broadcasts)
    OBVIOUS
  <1>1. CASE EndRun
    BY <1>1, WithdrawType DEF EndRun, Pending
  <1>2. CASE OpenStream
    <2>1. RecordType'
      BY <1>2 DEF OpenStream, RecordType
    <2> QED BY <1>2, <2>1 DEF OpenStream, GatewayType, RequestType
  <1>3. CASE CloseStream
    BY <1>3 DEF CloseStream, GatewayType, RequestType, RecordType
  <1>4. CASE Drop
    BY <1>4, <1>n DEF Drop, GatewayType, RequestType, RecordType
  <1>5. CASE Restart
    <2>1. GatewayType'
      BY <1>5, <1>n DEF Restart, GatewayType
    <2>2. RequestType'
      BY <1>5, RequestsAssumption DEF Restart, RequestType, DeciderPC, StopPC
    <2> QED BY <1>5, <2>1, <2>2 DEF Restart, RecordType
  <1>6. CASE UNCHANGED vars
    BY <1>6 DEF vars, GatewayType, RequestType, RecordType
  <1> QED BY <1>1, <1>2, <1>3, <1>4, <1>5, <1>6

LEMMA TypeNext == TypeOK /\ [Next]_vars => TypeOK'
  BY GatewayStepType, DeciderType, StopType, OtherType DEF Next

(* Every variable stays in its type, in every behaviour. *)
THEOREM ApprovalsTypeCorrect == Spec => []TypeOK
  <1> QED BY TypeInit, TypeNext, PTL DEF Spec

-----------------------------------------------------------------------------
(* The inductive invariant.                                                *)

\* Whoever is deciding an approval holds its reservation, and the approval has
\* been raised.
HoldInv ==
    \A d \in Deciders : pc[d] \in Writing =>
        inflight[Named(d)] = d /\ status[Named(d)] # "absent"

\* The approval has ended.
Final(a) == status[a] \notin {"absent", "pending"}

\* A request that was told so is right, and one that has its decision through
\* agrees with the gateway.
AnswerInv ==
    \A d \in Deciders :
        /\ answer[d] = "gone" => Final(Named(d))
        /\ pc[d] \in {"publish", "record"} => status[Named(d)] = Outcome(d)

\* What is on record was taken.
LedgerInv == \A a \in Approvals : ledger[a] # "none" => ledger[a] = status[a]

\* A broadcast of a decision is that of the decision taken, and one of a
\* resolution by nobody is that of an approval that nobody decided.
Tells(ev, st) ==
    IF ev.human THEN ev.how = st /\ st \in Decisions
    ELSE ev.how = "pending" \/ st = "cancelled"
Truthful(q, st) == \A i \in 1..Len(q) : Tells(q[i], st)
NewsInv == \A a \in Approvals : Truthful(news[a], status[a])

\* A Stop that settles does so after the run, when no approval is pending, and
\* never aims at one whose decision is about to be told.
AimInv ==
    /\ runOver => Pending = {}
    /\ \A s \in Stops :
          /\ pc[s] \in {"settle", "stopped"} => runOver
          /\ aim[s] # None =>
                /\ runOver
                /\ \A d \in Deciders : pc[d] = "publish" => Named(d) # aim[s]

Inv == HoldInv /\ AnswerInv /\ LedgerInv /\ NewsInv /\ CardTellsTheDecision /\ AimInv

LEMMA InvInit == Init => Inv
  <1> SUFFICES ASSUME Init PROVE Inv
    OBVIOUS
  <1>1. HoldInv /\ AnswerInv /\ LedgerInv /\ CardTellsTheDecision
    BY DEF Init, HoldInv, AnswerInv, LedgerInv, CardTellsTheDecision, Writing, Decisions
  <1>2. NewsInv
    BY DEF Init, NewsInv, Truthful
  <1>3. AimInv
    BY RequestsAssumption DEF Init, AimInv, Pending
  <1> QED BY <1>1, <1>2, <1>3 DEF Inv

-----------------------------------------------------------------------------
(* How an approval moves.                                                  *)

(* An approval that was raised stays raised, and one that ended stays ended,   *)
(* the same way: retries, late frames and withdrawals do not touch it.         *)
LEMMA FinalStays ==
  ASSUME TypeOK, [Next]_vars, NEW a \in Approvals
  PROVE  /\ UNCHANGED request
         /\ status[a] # "absent" => status'[a] # "absent"
         /\ Final(a) => status'[a] = status[a]
  <1> USE DEF TypeOK, Final, Pending, Decisions
  <1>h. ASSUME NEW d, NEW b, NEW how \in Decisions, Honour(d, b, how)
        PROVE  /\ status[a] # "absent" => status'[a] # "absent"
               /\ Final(a) => status'[a] = status[a]
    BY <1>h DEF Honour
  <1>w. ASSUME NEW A \in SUBSET Pending, Withdraw(A)
        PROVE  /\ UNCHANGED request
               /\ status[a] # "absent" => status'[a] # "absent"
               /\ Final(a) => status'[a] = status[a]
    BY <1>w DEF Withdraw
  <1>o. ASSUME NEW d \in Deciders PROVE Outcome(d) \in Decisions
    BY DEF Outcome
  <1>1. ASSUME NEW b \in Approvals, Raise(b) \/ Expire(b) \/ DecideElsewhere(b) \/ Relay(b)
        PROVE  /\ UNCHANGED request
               /\ status[a] # "absent" => status'[a] # "absent"
               /\ Final(a) => status'[a] = status[a]
    <2>1. CASE Raise(b)
      BY <2>1 DEF Raise
    <2>2. CASE Expire(b)
      BY <2>2, <1>w DEF Expire
    <2>3. CASE DecideElsewhere(b)
      BY <2>3, <1>h DEF DecideElsewhere
    <2>4. CASE Relay(b)
      BY <2>4 DEF Relay, gatewayVars
    <2> QED BY <1>1, <2>1, <2>2, <2>3, <2>4
  <1>2. ASSUME NEW d \in Deciders, DeciderStep(d) \/ ArriveLate(d)
        PROVE  /\ UNCHANGED request
               /\ status[a] # "absent" => status'[a] # "absent"
               /\ Final(a) => status'[a] = status[a]
    <2>1. CASE Write(d) \/ ArriveLate(d)
      <3> HIDE DEF TypeOK, Pending
      <3>1. UNCHANGED request
        BY <2>1 DEF Write, ArriveLate
      <3>2. CASE Honour(d, Named(d), Outcome(d))
        BY <3>1, <3>2, <1>h, <1>o
      <3>3. CASE UNCHANGED status
        BY <3>1, <3>3
      <3>4. Honour(d, Named(d), Outcome(d)) \/ UNCHANGED status
        BY <2>1 DEF Write, ArriveLate
      <3> QED BY <3>2, <3>3, <3>4
    <2>2. CASE DeciderStep(d) /\ ~Write(d)
      BY <2>2 DEF DeciderStep, Reserve, GiveUpReserving, Verify, PublishDecision, Record,
         Release, gatewayVars
    <2> QED BY <1>2, <2>1, <2>2
  <1>3. ASSUME NEW s \in Stops, StopStep(s) PROVE UNCHANGED <<request, status>>
    BY <1>3 DEF StopStep, Capture, Abort, Settled, PublishStopped, Settle, gatewayVars
  <1>4. CASE EndRun
    BY <1>4, <1>w DEF EndRun
  <1>5. CASE OpenStream \/ CloseStream \/ Drop \/ Restart \/ UNCHANGED vars
    BY <1>5 DEF OpenStream, CloseStream, Drop, Restart, gatewayVars, vars
  <1> HIDE DEF TypeOK, Final, Pending, Decisions
  <1> QED BY <1>1, <1>2, <1>3, <1>4, <1>5 DEF Next

(* What a request asks stays what it asks.                                     *)
LEMMA NamesStay ==
  ASSUME TypeOK, [Next]_vars, NEW d \in Deciders
  PROVE  /\ Named(d) \in Approvals /\ Named(d)' = Named(d)
         /\ Outcome(d) \in Decisions /\ Outcome(d)' = Outcome(d)
  <1>1. Named(d) \in Approvals /\ Outcome(d) \in Decisions
    BY RequestNames, TypeParts
  <1>2. UNCHANGED request
    BY <1>1, FinalStays
  <1> QED BY <1>1, <1>2 DEF Named, Outcome

(* What a step that is not a decision's leaves alone.                          *)
LEMMA OthersWait ==
  ASSUME TypeOK, [Next]_vars, ~Restart, \A d \in Deciders : ~DeciderStep(d)
  PROVE  UNCHANGED <<inflight, answer, ledger>> /\ \A d \in Deciders : pc'[d] = pc[d]
  <1>1. ASSUME NEW s \in Stops, StopStep(s)
        PROVE  UNCHANGED <<inflight, answer, ledger>> /\ \A d \in Deciders : pc'[d] = pc[d]
    <2>1. UNCHANGED <<inflight, answer, ledger>>
      BY <1>1 DEF StopStep, Capture, Abort, Settled, PublishStopped, Settle
    <2>2. pc' = pc \/ \E next : pc' = [pc EXCEPT ![s] = next]
      BY <1>1 DEF StopStep, Capture, Abort, Settled, PublishStopped, Settle, Goto
    <2> QED BY <2>1, <2>2, RequestsAssumption DEF TypeOK
  <1>2. CASE ~\E s \in Stops : StopStep(s)
    BY <1>2 DEF Next, Raise, Expire, Withdraw, DecideElsewhere, Relay, ArriveLate, EndRun,
       OpenStream, CloseStream, Drop, vars
  <1> QED BY <1>1, <1>2

-----------------------------------------------------------------------------
(* Each part of the invariant is preserved.                                *)

LEMMA HoldNext == TypeOK /\ HoldInv /\ [Next]_vars => HoldInv'
  <1> SUFFICES ASSUME TypeOK, HoldInv, [Next]_vars, NEW d \in Deciders, pc'[d] \in Writing
               PROVE  inflight'[Named(d)] = d /\ status'[Named(d)] # "absent"
    BY NamesStay DEF HoldInv
  <1>n. /\ \A e \in Deciders : Named(e) \in Approvals
        /\ status[Named(d)] # "absent" => status'[Named(d)] # "absent"
        /\ inflight \in [Approvals -> Deciders \cup {None}]
        /\ pc \in [Deciders \cup Stops -> DeciderPC \cup StopPC]
    BY NamesStay, FinalStays, TypeParts DEF RequestType
  <1> USE DEF HoldInv, Writing, At, Goto, Return
  <1>1. ASSUME NEW e \in Deciders, DeciderStep(e)
        PROVE  inflight'[Named(d)] = d /\ status'[Named(d)] # "absent"
    <2>1. CASE Reserve(e)
      BY <1>n, <2>1, RequestsAssumption DEF Reserve, Reservable, gatewayVars
    <2>2. CASE Release(e)
      BY <1>n, <2>2, RequestsAssumption DEF Release
    <2>3. CASE ~Reserve(e) /\ ~Release(e)
      <3>1. UNCHANGED inflight /\ (pc'[e] \in Writing => pc[e] \in Writing)
        BY <1>1, <1>n, <2>3
        DEF DeciderStep, GiveUpReserving, Verify, Write, PublishDecision, Record
      <3>2. \A x \in Deciders : x # e => pc'[x] = pc[x]
        BY <1>1, <1>n, <2>3
        DEF DeciderStep, GiveUpReserving, Verify, Write, PublishDecision, Record
      <3> QED BY <1>n, <3>1, <3>2
    <2> QED BY <2>1, <2>2, <2>3
  <1>2. CASE Restart
    BY <1>2, <1>n DEF Restart
  <1>3. CASE ~Restart /\ \A e \in Deciders : ~DeciderStep(e)
    BY <1>3, <1>n, OthersWait
  <1> QED BY <1>1, <1>2, <1>3

LEMMA AnswerNext == TypeOK /\ HoldInv /\ AnswerInv /\ [Next]_vars => AnswerInv'
  <1> SUFFICES ASSUME TypeOK, HoldInv, AnswerInv, [Next]_vars, NEW d \in Deciders
               PROVE  /\ answer'[d] = "gone" => Final(Named(d))'
                      /\ pc'[d] \in {"publish", "record"} => status'[Named(d)] = Outcome(d)
    BY NamesStay DEF AnswerInv
  <1>n. /\ Named(d) \in Approvals /\ Named(d)' = Named(d)
        /\ Outcome(d) \in Decisions
        /\ status[Named(d)] # "absent" => status'[Named(d)] # "absent"
        /\ Final(Named(d)) => status'[Named(d)] = status[Named(d)]
        /\ status \in [Approvals -> {"absent", "pending", "cancelled"} \cup Decisions]
        /\ pc \in [Deciders \cup Stops -> DeciderPC \cup StopPC]
        /\ answer \in [Deciders -> {"none", "ok", "gone", "failed"}]
    BY NamesStay, FinalStays, TypeParts DEF RequestType, GatewayType
  <1>o. status[Named(d)] = Outcome(d) => Final(Named(d))
    BY <1>n DEF Final, Decisions
  <1>k. ASSUME pc'[d] = pc[d], answer'[d] = answer[d]
        PROVE  /\ answer'[d] = "gone" => Final(Named(d))'
               /\ pc'[d] \in {"publish", "record"} => status'[Named(d)] = Outcome(d)
    BY <1>k, <1>n, <1>o DEF AnswerInv, Final
  <1> USE DEF At, Goto, Return
  <1>1. ASSUME DeciderStep(d)
        PROVE  /\ answer'[d] = "gone" => Final(Named(d))'
               /\ pc'[d] \in {"publish", "record"} => status'[Named(d)] = Outcome(d)
    <2>1. CASE Verify(d)
      BY <1>n, <2>1 DEF Verify, AnswerInv, HoldInv, Writing, Final, Pending, gatewayVars
    <2>2. CASE Write(d)
      <3>1. CASE Honour(d, Named(d), Outcome(d)) /\ pc'[d] = "publish" /\ UNCHANGED answer
        BY <1>n, <1>o, <3>1 DEF Honour, AnswerInv, Final
      <3>2. CASE answer'[d] = "failed" /\ pc'[d] = "release"
        BY <3>2
      <3>3. CASE Named(d) \notin Pending /\ UNCHANGED status /\ pc'[d] = "release"
        BY <1>n, <2>2, <3>3 DEF HoldInv, Writing, Final, Pending, Write
      <3> QED BY <1>n, <2>2, <3>1, <3>2, <3>3 DEF Write
    <2>3. CASE PublishDecision(d)
      BY <1>n, <1>o, <2>3 DEF PublishDecision, AnswerInv, Final, gatewayVars
    <2>4. CASE Reserve(d) \/ GiveUpReserving(d) \/ Record(d) \/ Release(d)
      BY <1>n, <1>o, <2>4
      DEF Reserve, GiveUpReserving, Record, Release, AnswerInv, Final, gatewayVars
    <2> QED BY <1>1, <2>1, <2>2, <2>3, <2>4 DEF DeciderStep
  <1>2. ASSUME NEW e \in Deciders, e # d, DeciderStep(e)
        PROVE  pc'[d] = pc[d] /\ answer'[d] = answer[d]
    BY <1>2, <1>n DEF DeciderStep, Reserve, GiveUpReserving, Verify, Write,
       PublishDecision, Record, Release
  <1>3. CASE Restart
    BY <1>3, <1>n, <1>o DEF Restart, AnswerInv, Final, gatewayVars
  <1>4. CASE ~Restart /\ \A e \in Deciders : ~DeciderStep(e)
    BY <1>4, <1>k, OthersWait
  <1> QED BY <1>1, <1>2, <1>3, <1>4, <1>k

LEMMA LedgerNext == TypeOK /\ AnswerInv /\ LedgerInv /\ [Next]_vars => LedgerInv'
  <1> SUFFICES ASSUME TypeOK, AnswerInv, LedgerInv, [Next]_vars, NEW a \in Approvals,
                      ledger'[a] # "none"
               PROVE  ledger'[a] = status'[a]
    BY DEF LedgerInv
  <1>n. /\ Final(a) => status'[a] = status[a]
        /\ ledger \in [Approvals -> Decisions \cup {"none"}]
    BY FinalStays, TypeParts DEF RecordType
  <1>k. CASE ledger'[a] = ledger[a]
    BY <1>k, <1>n DEF LedgerInv, Final, Decisions
  <1>1. ASSUME NEW d \in Deciders, Record(d) PROVE ledger'[a] = status'[a]
    BY <1>1, <1>n, <1>k DEF Record, Recorded, AnswerInv, At, gatewayVars
  <1>2. ASSUME NEW d \in Deciders, DeciderStep(d), ~Record(d) PROVE UNCHANGED ledger
    BY <1>2 DEF DeciderStep, Reserve, GiveUpReserving, Verify, Write, PublishDecision, Release
  <1>3. CASE Restart
    BY <1>3, <1>k DEF Restart
  <1>4. CASE ~Restart /\ \A e \in Deciders : ~DeciderStep(e)
    BY <1>4, <1>k, OthersWait
  <1> QED BY <1>1, <1>2, <1>3, <1>4, <1>k

-----------------------------------------------------------------------------
(* The broadcasts and the card.                                            *)

LEMMA TruthfulAppend ==
  ASSUME NEW q \in Seq(Broadcasts), NEW st, NEW ev, Truthful(q, st), Tells(ev, st)
  PROVE  Truthful(Append(q, ev), st)
  BY DEF Truthful

LEMMA TruthfulTail ==
  ASSUME NEW q \in Seq(Broadcasts), NEW st, Truthful(q, st), q # <<>>
  PROVE  Truthful(Tail(q), st) /\ Tells(Head(q), st)
  BY DEF Truthful

(* Before an approval ends, nothing but its request has been told.             *)
LEMMA TruthfulEarly ==
  ASSUME NEW q, NEW st \in {"absent", "pending"}, NEW next, Truthful(q, st)
  PROVE  Truthful(q, next)
  BY DEF Truthful, Tells, Decisions

\* An approval moves with its broadcast, or stays while its broadcasts leave.
Announced(a) ==
    /\ status[a] \in {"absent", "pending"}
    /\ \E ev \in Broadcasts : news'[a] = Append(news[a], ev) /\ Tells(ev, status'[a])
Quiet(a) ==
    /\ status'[a] = status[a]
    /\ \/ news'[a] = news[a]
       \/ news'[a] = <<>>
       \/ news[a] # <<>> /\ news'[a] = Tail(news[a])

LEMMA HonourNews ==
  ASSUME TypeOK, NEW a \in Approvals, NEW d, NEW b \in Approvals, NEW how \in Decisions,
         Honour(d, b, how)
  PROVE  Announced(a) \/ Quiet(a)
  <1> DEFINE ev == [how |-> how, human |-> TRUE]
  <1>1. ev \in Broadcasts /\ Tells(ev, how)
    BY DEF Broadcasts, Decisions, Tells
  <1>2. CASE a = b
    <2>1. status[a] = "pending" /\ status'[a] = how /\ news'[a] = Append(news[a], ev)
      BY <1>2 DEF Honour, Pending, TypeOK
    <2> QED BY <1>1, <2>1 DEF Announced
  <1>3. CASE a # b
    BY <1>3 DEF Honour, Quiet, TypeOK
  <1> QED BY <1>2, <1>3

LEMMA WithdrawNews ==
  ASSUME TypeOK, NEW a \in Approvals, NEW A \in SUBSET Pending, Withdraw(A)
  PROVE  Announced(a) \/ Quiet(a)
  <1> DEFINE ev == [how |-> "rejected", human |-> FALSE]
  <1>1. ev \in Broadcasts /\ Tells(ev, "cancelled")
    BY DEF Broadcasts, Tells
  <1>2. CASE a \in A
    <2>1. status[a] = "pending" /\ status'[a] = "cancelled" /\ news'[a] = Append(news[a], ev)
      BY <1>2 DEF Withdraw, Pending
    <2> QED BY <1>1, <2>1 DEF Announced
  <1>3. CASE a \notin A
    BY <1>3 DEF Withdraw, Quiet
  <1> QED BY <1>2, <1>3

LEMMA NewsMoves ==
  ASSUME TypeOK, [Next]_vars, NEW a \in Approvals
  PROVE  Announced(a) \/ Quiet(a)
  <1>q. ASSUME UNCHANGED <<status, news>> PROVE Quiet(a)
    BY <1>q DEF Quiet
  <1>1. ASSUME NEW b \in Approvals, Raise(b) PROVE Announced(a) \/ Quiet(a)
    <2> DEFINE ev == [how |-> "pending", human |-> FALSE]
    <2>1. ev \in Broadcasts /\ Tells(ev, "pending")
      BY DEF Broadcasts, Tells
    <2>2. CASE a = b
      <3>1. status[a] = "absent" /\ status'[a] = "pending" /\ news'[a] = Append(news[a], ev)
        BY <1>1, <2>2 DEF Raise, TypeOK
      <3> QED BY <2>1, <3>1 DEF Announced
    <2>3. CASE a # b
      BY <1>1, <2>3 DEF Raise, Quiet, TypeOK
    <2> QED BY <2>2, <2>3
  <1>2. ASSUME NEW b \in Approvals, Expire(b) PROVE Announced(a) \/ Quiet(a)
    BY <1>2, WithdrawNews DEF Expire
  <1>3. CASE EndRun
    BY <1>3, WithdrawNews DEF EndRun
  <1>4. ASSUME NEW b \in Approvals, DecideElsewhere(b) PROVE Announced(a) \/ Quiet(a)
    BY <1>4, HonourNews DEF DecideElsewhere
  <1>5. ASSUME NEW d \in Deciders, DeciderStep(d) \/ ArriveLate(d)
        PROVE  Announced(a) \/ Quiet(a)
    <2>1. Named(d) \in Approvals /\ Outcome(d) \in Decisions
      BY RequestNames, TypeParts
    <2>2. CASE Honour(d, Named(d), Outcome(d))
      BY <2>1, <2>2, HonourNews
    <2>3. CASE ~Honour(d, Named(d), Outcome(d))
      <3>1. UNCHANGED <<status, news>>
        BY <1>5, <2>3 DEF DeciderStep, Reserve, GiveUpReserving, Verify, Write,
           PublishDecision, Record, Release, ArriveLate, gatewayVars
      <3> QED BY <3>1, <1>q
    <2> QED BY <2>2, <2>3
  <1>6. ASSUME NEW b \in Approvals, Relay(b) PROVE Quiet(a)
    BY <1>6 DEF Relay, Quiet, TypeOK, gatewayVars
  <1>7. ASSUME NEW s \in Stops, StopStep(s) PROVE Quiet(a)
    <2>1. UNCHANGED <<status, news>>
      BY <1>7 DEF StopStep, Capture, Abort, Settled, PublishStopped, Settle, gatewayVars
    <2> QED BY <2>1, <1>q
  <1>8. CASE OpenStream \/ CloseStream \/ UNCHANGED vars
    BY <1>8, <1>q DEF OpenStream, CloseStream, gatewayVars, vars
  <1>9. CASE Drop \/ Restart
    BY <1>9 DEF Drop, Restart, gatewayVars, Quiet
  <1> QED BY <1>1, <1>2, <1>3, <1>4, <1>5, <1>6, <1>7, <1>8, <1>9 DEF Next

LEMMA NewsNext == TypeOK /\ NewsInv /\ [Next]_vars => NewsInv'
  <1> SUFFICES ASSUME TypeOK, NewsInv, [Next]_vars, NEW a \in Approvals
               PROVE  Truthful(news'[a], status'[a])
    BY DEF NewsInv, Truthful, Tells
  <1>n. Truthful(news[a], status[a]) /\ news[a] \in Seq(Broadcasts)
    BY DEF NewsInv, TypeOK
  <1>1. CASE Announced(a)
    <2>1. Truthful(news[a], status'[a])
      BY <1>1, <1>n, TruthfulEarly DEF Announced
    <2> QED BY <1>1, <1>n, <2>1, TruthfulAppend DEF Announced
  <1>2. CASE Quiet(a)
    <2>1. Truthful(<<>>, status[a])
      BY DEF Truthful
    <2> QED BY <1>2, <1>n, <2>1, TruthfulTail DEF Quiet
  <1> QED BY <1>1, <1>2, NewsMoves

LEMMA CardNext ==
  TypeOK /\ AnswerInv /\ NewsInv /\ CardTellsTheDecision /\ [Next]_vars
    => CardTellsTheDecision'
  <1> SUFFICES ASSUME TypeOK, AnswerInv, NewsInv, CardTellsTheDecision, [Next]_vars,
                      NEW a \in Approvals, card'[a] \in Decisions
               PROVE  card'[a] = status'[a]
    BY DEF CardTellsTheDecision
  <1>n. /\ Final(a) => status'[a] = status[a]
        /\ card \in [Approvals -> {"none", "pending", "stopped"} \cup Decisions]
    BY FinalStays, TypeParts DEF RecordType
  <1>k. CASE card'[a] = card[a]
    BY <1>k, <1>n DEF CardTellsTheDecision, Final, Decisions
  <1>1. ASSUME NEW b \in Approvals, Relay(b) PROVE card'[a] = status'[a]
    <2>1. news[b] # <<>> /\ UNCHANGED status /\ Publish(b, Shown(Head(news[b])))
      BY <1>1 DEF Relay, gatewayVars
    <2>2. Tells(Head(news[b]), status[b])
      BY <2>1, TruthfulTail DEF NewsInv, TypeOK
    <2>3. CASE a = b /\ card'[a] = Shown(Head(news[a]))
      BY <2>1, <2>2, <2>3 DEF Shown, Tells, Decisions
    <2> QED BY <1>n, <1>k, <2>1, <2>3 DEF Publish
  <1>2. ASSUME NEW d \in Deciders, PublishDecision(d) PROVE card'[a] = status'[a]
    BY <1>2, <1>k, <1>n DEF PublishDecision, Publish, AnswerInv, At, gatewayVars
  <1>3. ASSUME NEW s \in Stops, PublishStopped(s) PROVE card'[a] = status'[a]
    BY <1>3, <1>k, <1>n DEF PublishStopped, Publish, Decisions
  <1>4. CASE OpenStream
    BY <1>4 DEF OpenStream, Decisions
  <1>5. ASSUME NEW d \in Deciders, DeciderStep(d) \/ ArriveLate(d), ~PublishDecision(d)
        PROVE  UNCHANGED card
    BY <1>5 DEF DeciderStep, Reserve, GiveUpReserving, Verify, Write, Record, Release,
       ArriveLate, viewVars
  <1>6. ASSUME NEW s \in Stops, StopStep(s), ~PublishStopped(s) PROVE UNCHANGED card
    BY <1>6 DEF StopStep, Capture, Abort, Settled, Settle, viewVars
  <1>7. ASSUME NEW b \in Approvals, Raise(b) \/ Expire(b) \/ DecideElsewhere(b)
        PROVE  UNCHANGED card
    BY <1>7 DEF Raise, Expire, Withdraw, DecideElsewhere, viewVars
  <1>8. CASE EndRun \/ CloseStream \/ Drop \/ Restart \/ UNCHANGED vars
    BY <1>8, <1>k DEF EndRun, Withdraw, CloseStream, Drop, Restart, vars, viewVars
  <1> QED BY <1>1, <1>2, <1>3, <1>4, <1>5, <1>6, <1>7, <1>8, <1>k DEF Next

(* Once the run is over it stays over, and nothing is pending any more.        *)
LEMMA RunStaysOver ==
  ASSUME TypeOK, AimInv, [Next]_vars
  PROVE  /\ runOver => runOver'
         /\ runOver' => Pending' = {}
  <1> USE DEF TypeOK, Pending
  <1>h. ASSUME NEW d, NEW b, NEW how \in Decisions, Honour(d, b, how)
        PROVE  Pending' \subseteq Pending
    BY <1>h DEF Honour, Decisions
  <1>1. ASSUME NEW b \in Approvals, Raise(b) PROVE ~runOver /\ ~runOver'
    BY <1>1 DEF Raise
  <1>2. ASSUME NEW b \in Approvals, Expire(b)
        PROVE  UNCHANGED runOver /\ Pending' \subseteq Pending
    BY <1>2 DEF Expire, Withdraw
  <1>3. ASSUME NEW b \in Approvals, DecideElsewhere(b)
        PROVE  UNCHANGED runOver /\ Pending' \subseteq Pending
    BY <1>3, <1>h DEF DecideElsewhere
  <1>4. CASE EndRun
    BY <1>4 DEF EndRun, Withdraw
  <1>5. ASSUME NEW d \in Deciders, DeciderStep(d) \/ ArriveLate(d)
        PROVE  UNCHANGED runOver /\ Pending' \subseteq Pending
    <2>1. Outcome(d) \in Decisions
      BY DEF Outcome, Decisions
    <2>2. UNCHANGED runOver /\ (UNCHANGED status \/ Honour(d, Named(d), Outcome(d)))
      BY <1>5 DEF DeciderStep, Reserve, GiveUpReserving, Verify, Write, PublishDecision,
         Record, Release, ArriveLate, gatewayVars
    <2> QED BY <2>1, <2>2, <1>h
  <1>6. ASSUME NEW s \in Stops, StopStep(s) PROVE UNCHANGED <<runOver, status>>
    BY <1>6 DEF StopStep, Capture, Abort, Settled, PublishStopped, Settle, gatewayVars
  <1>7. ASSUME NEW b \in Approvals, Relay(b) PROVE UNCHANGED <<runOver, status>>
    BY <1>7 DEF Relay, gatewayVars
  <1>8. CASE OpenStream \/ CloseStream \/ Drop \/ Restart \/ UNCHANGED vars
    BY <1>8 DEF OpenStream, CloseStream, Drop, Restart, gatewayVars, vars, AimInv
  <1>9. AimInv /\ UNCHANGED runOver /\ Pending' \subseteq Pending
          => (runOver => runOver') /\ (runOver' => Pending' = {})
    BY DEF AimInv
  <1> HIDE DEF TypeOK
  <1>10. UNCHANGED status => Pending' \subseteq Pending
    OBVIOUS
  <1> HIDE DEF Pending
  <1> QED BY <1>1, <1>2, <1>3, <1>4, <1>5, <1>6, <1>7, <1>8, <1>9, <1>10 DEF Next

LEMMA AimNext == TypeOK /\ HoldInv /\ AimInv /\ [Next]_vars => AimInv'
  <1> SUFFICES ASSUME TypeOK, HoldInv, AimInv, [Next]_vars, NEW s \in Stops
               PROVE  /\ pc'[s] \in {"settle", "stopped"} => runOver'
                      /\ aim'[s] # None =>
                            /\ runOver'
                            /\ \A d \in Deciders : pc'[d] = "publish" => Named(d) # aim'[s]
    BY RunStaysOver, NamesStay DEF AimInv
  <1>n. /\ runOver => runOver'
        /\ RequestType
        /\ \A d \in Deciders : Named(d) \in Approvals
        /\ \A d \in Deciders : d # s
    BY RunStaysOver, TypeParts, NamesStay, RequestsAssumption
  <1> USE DEF At, Goto, Return
  <1>1. ASSUME NEW d \in Deciders, DeciderStep(d)
        PROVE  /\ pc'[s] = pc[s] /\ aim'[s] = aim[s]
               /\ \A e \in Deciders : pc'[e] = "publish" =>
                     pc[e] = "publish" \/ (~runOver /\ e = d)
    <2>1. CASE Write(d)
      <3>1. pc'[d] = "publish" => Pending # {}
        BY <1>n, <2>1 DEF Write, Honour, RequestType
      <3>2. pc'[s] = pc[s] /\ aim'[s] = aim[s] /\ \A e \in Deciders : e # d => pc'[e] = pc[e]
        BY <1>n, <2>1 DEF Write, RequestType, stopVars
      <3> QED BY <3>1, <3>2 DEF AimInv
    <2>2. CASE ~Write(d)
      BY <1>1, <1>n, <2>2 DEF DeciderStep, Reserve, GiveUpReserving, Verify, PublishDecision,
         Record, Release, RequestType, stopVars
    <2> QED BY <2>1, <2>2
  <1>2. ASSUME NEW t \in Stops, StopStep(t)
        PROVE  /\ pc'[s] \in {"settle", "stopped"} => runOver'
               /\ aim'[s] # None =>
                     /\ runOver'
                     /\ \A d \in Deciders : pc'[d] = "publish" => Named(d) # aim'[s]
    <2>1. \A d \in Deciders : pc'[d] = pc[d]
      BY <1>2, <1>n, RequestsAssumption
      DEF StopStep, Capture, Abort, Settled, PublishStopped, Settle, RequestType
    <2>2. CASE Capture(t) \/ Abort(t) \/ Settled(t) \/ PublishStopped(t)
      BY <1>n, <2>1, <2>2
      DEF Capture, Abort, Settled, PublishStopped, RequestType, AimInv, stopVars
    <2>3. ASSUME NEW a \in Approvals, Settle(t, a)
          PROVE  /\ pc'[s] \in {"settle", "stopped"} => runOver'
                 /\ aim'[s] # None =>
                       /\ runOver'
                       /\ \A d \in Deciders : pc'[d] = "publish" => Named(d) # aim'[s]
      <3>1. runOver /\ runOver'
        BY <1>n, <2>3 DEF Settle, AimInv
      <3>2. CASE aim'[s] = aim[s]
        BY <2>1, <3>1, <3>2 DEF AimInv
      <3>3. CASE aim'[s] = a /\ ~Deciding(a)
        BY <2>1, <3>1, <3>3, RequestsAssumption DEF Deciding, HoldInv, Writing
      <3>4. aim'[s] = aim[s] \/ (aim'[s] = a /\ ~Deciding(a))
        BY <1>n, <2>3 DEF Settle, RequestType
      <3> QED BY <3>1, <3>2, <3>3, <3>4
    <2> QED BY <1>2, <2>2, <2>3 DEF StopStep
  <1>3. CASE Restart
    BY <1>3, <1>n DEF Restart, RequestType
  <1>4. CASE /\ ~Restart /\ (\A t \in Stops : ~StopStep(t))
             /\ (\A d \in Deciders : ~DeciderStep(d))
    <2>1. UNCHANGED <<pc, aim>>
      BY <1>4 DEF Next, Raise, Expire, Withdraw, DecideElsewhere, Relay, ArriveLate, EndRun,
         OpenStream, CloseStream, Drop, vars, stopVars
    <2> QED BY <1>n, <2>1 DEF AimInv
  <1> QED BY <1>1, <1>2, <1>3, <1>4, <1>n DEF AimInv

LEMMA InvNext == TypeOK /\ Inv /\ [Next]_vars => Inv'
  BY HoldNext, AnswerNext, LedgerNext, NewsNext, CardNext, AimNext DEF Inv

LEMMA InvCorrect == Spec => [](TypeOK /\ Inv)
  <1> QED BY TypeInit, TypeNext, InvInit, InvNext, PTL DEF Spec

-----------------------------------------------------------------------------
(* What the channel promises.                                              *)

(* Two decisions on one approval are never written at the same time, although  *)
(* `release` deletes the reservation of whoever holds it.                      *)
THEOREM DecisionsSerializedCorrect == Spec => []DecisionsSerialized
  <1>1. Inv => DecisionsSerialized
    BY DEF Inv, HoldInv, DecisionsSerialized
  <1> QED BY <1>1, InvCorrect, PTL

(* A decision that is answered 404 or 409 is about an approval that is settled:*)
(* the client may close its card.                                              *)
THEOREM ClosedCardCorrect == Spec => []ClosedCardIsSettled
  <1>1. Inv => ClosedCardIsSettled
    BY DEF Inv, AnswerInv, ClosedCardIsSettled, Final, Pending
  <1> QED BY <1>1, InvCorrect, PTL

(* A card that shows a decision shows the one the gateway honoured.            *)
THEOREM CardCorrect == Spec => []CardTellsTheDecision
  <1>1. Inv => CardTellsTheDecision
    BY DEF Inv
  <1> QED BY <1>1, InvCorrect, PTL

(* A Stop publishes "stopped" over no decision that is about to be told.       *)
LEMMA StopSpares ==
  ASSUME TypeOK, Inv, [Next]_vars, NEW d \in Deciders,
         At(d, "publish"), card[Named(d)] = "pending"
  PROVE  card'[Named(d)] # "stopped"
  <1> DEFINE a == Named(d)
  <1>n. /\ a \in Approvals /\ Outcome(d) \in Decisions
        /\ status[a] = Outcome(d) /\ card[a] = "pending"
        /\ card \in [Approvals -> {"none", "pending", "stopped"} \cup Decisions]
    BY NamesStay, TypeParts DEF RecordType, Inv, AnswerInv, At
  <1> SUFFICES card'[a] # "stopped"
    OBVIOUS
  <1> HIDE DEF a
  <1>k. CASE card'[a] = card[a]
    BY <1>k, <1>n
  <1>1. ASSUME NEW b \in Approvals, Relay(b) PROVE card'[a] # "stopped"
    <2>1. news[b] # <<>> /\ Publish(b, Shown(Head(news[b])))
      BY <1>1 DEF Relay
    <2>2. Tells(Head(news[b]), status[b]) /\ Head(news[b]) \in Broadcasts
      BY <2>1, TruthfulTail DEF Inv, NewsInv, TypeOK
    <2>3. CASE a = b /\ card'[a] = Shown(Head(news[a]))
      BY <1>n, <2>2, <2>3 DEF Shown, Tells, Decisions, Broadcasts
    <2> QED BY <1>n, <1>k, <2>1, <2>3 DEF Publish, a
  <1>2. ASSUME NEW e \in Deciders, PublishDecision(e) PROVE card'[a] # "stopped"
    <2>1. Outcome(e) \in Decisions
      BY NamesStay
    <2> QED BY <1>2, <1>k, <1>n, <2>1 DEF PublishDecision, Publish, Decisions
  <1>3. ASSUME NEW s \in Stops, PublishStopped(s) PROVE card'[a] # "stopped"
    <2>1. aim[s] # a
      BY <1>n, RequestsAssumption DEF Inv, AimInv, At, a
    <2> QED BY <1>3, <1>k, <1>n, <2>1 DEF PublishStopped, Publish
  <1>4. CASE OpenStream
    BY <1>4, <1>n DEF OpenStream
  <1>5. ASSUME NEW e \in Deciders, DeciderStep(e) \/ ArriveLate(e), ~PublishDecision(e)
        PROVE  UNCHANGED card
    BY <1>5 DEF DeciderStep, Reserve, GiveUpReserving, Verify, Write, Record, Release,
       ArriveLate, viewVars
  <1>6. ASSUME NEW s \in Stops, StopStep(s), ~PublishStopped(s) PROVE UNCHANGED card
    BY <1>6 DEF StopStep, Capture, Abort, Settled, Settle, viewVars
  <1>7. ASSUME NEW b \in Approvals, Raise(b) \/ Expire(b) \/ DecideElsewhere(b)
        PROVE  UNCHANGED card
    BY <1>7 DEF Raise, Expire, Withdraw, DecideElsewhere, viewVars
  <1>8. CASE EndRun \/ CloseStream \/ Drop \/ Restart \/ UNCHANGED vars
    BY <1>8, <1>k DEF EndRun, Withdraw, CloseStream, Drop, Restart, vars, viewVars
  <1> QED BY <1>1, <1>2, <1>3, <1>4, <1>5, <1>6, <1>7, <1>8, <1>k DEF Next

THEOREM StopSparesCorrect == Spec => StopSparesDecisions
  <1>1. TypeOK /\ Inv /\ [Next]_vars =>
          [\A d \in Deciders : At(d, "publish") /\ card[Named(d)] = "pending" =>
              card'[Named(d)] # "stopped"]_vars
    BY StopSpares
  <1> QED BY <1>1, InvCorrect, PTL DEF Spec, StopSparesDecisions

-----------------------------------------------------------------------------
(* The channel implements ApprovalLedger.                                  *)

LEMMA PromiseHonour ==
  ASSUME TypeOK, NEW d, NEW a \in Approvals, NEW how \in Decisions,
         Honour(d, a, how), UNCHANGED ledger
  PROVE  Promise!Next
  <1>1. Promise!Decide(a, how)
    BY DEF Honour, Pending, Promise!Decide
  <1>2. how \in Promise!Decisions
    BY DEF Decisions, Promise!Decisions
  <1> QED BY <1>1, <1>2 DEF Promise!Next

LEMMA PromiseWithdraw ==
  ASSUME TypeOK, NEW A \in SUBSET Pending, Withdraw(A)
  PROVE  Promise!Next \/ UNCHANGED <<status, ledger>>
  <1>1. CASE A = {}
    BY <1>1 DEF Withdraw, TypeOK
  <1>2. CASE A # {}
    <2>1. Promise!Withdraw(A) /\ A \in SUBSET Approvals
      BY <1>2 DEF Withdraw, Pending, Promise!Withdraw
    <2> QED BY <2>1 DEF Promise!Next
  <1> QED BY <1>1, <1>2

\* A record that is written again is the one that is there: a step of nothing.
LEMMA PromiseRecord ==
  ASSUME TypeOK, Inv, NEW d \in Deciders, Record(d)
  PROVE  Promise!Next \/ UNCHANGED <<status, ledger>>
  <1> DEFINE a == Named(d)
  <1>1. a \in Approvals /\ Outcome(d) \in Decisions
    BY RequestNames, TypeParts
  <1>2. status[a] = Outcome(d) /\ (ledger[a] # "none" => ledger[a] = status[a])
    BY <1>1 DEF Record, At, Inv, AnswerInv, LedgerInv
  <1>3. UNCHANGED status /\ ledger' = [ledger EXCEPT ![a] = status[a]]
    BY <1>2 DEF Record, Recorded, gatewayVars
  <1>4. CASE ledger[a] = "none"
    <2>1. Promise!Record(a)
      BY <1>1, <1>2, <1>3, <1>4 DEF Promise!Record, Promise!Decisions, Decisions
    <2> QED BY <1>1, <2>1 DEF Promise!Next
  <1>5. CASE ledger[a] # "none"
    BY <1>1, <1>2, <1>3, <1>5 DEF TypeOK
  <1> QED BY <1>4, <1>5

LEMMA PromiseNext ==
  ASSUME TypeOK, Inv, [Next]_vars
  PROVE  Promise!Next \/ UNCHANGED <<status, ledger>>
  <1>1. ASSUME NEW a \in Approvals, Raise(a) \/ Expire(a) \/ DecideElsewhere(a) \/ Relay(a)
        PROVE  Promise!Next \/ UNCHANGED <<status, ledger>>
    <2>1. CASE Raise(a)
      BY <2>1 DEF Raise, Promise!Raise, Promise!Next
    <2>2. CASE Expire(a)
      BY <2>2, PromiseWithdraw DEF Expire
    <2>3. CASE DecideElsewhere(a)
      BY <2>3, PromiseHonour DEF DecideElsewhere
    <2>4. CASE Relay(a)
      BY <2>4 DEF Relay, gatewayVars
    <2> QED BY <1>1, <2>1, <2>2, <2>3, <2>4
  <1>2. ASSUME NEW d \in Deciders, DeciderStep(d) \/ ArriveLate(d)
        PROVE  Promise!Next \/ UNCHANGED <<status, ledger>>
    <2>1. Named(d) \in Approvals /\ Outcome(d) \in Decisions
      BY RequestNames, TypeParts
    <2>2. CASE Write(d) \/ ArriveLate(d)
      <3>1. UNCHANGED ledger
        BY <2>2 DEF Write, ArriveLate
      <3>2. Honour(d, Named(d), Outcome(d)) \/ UNCHANGED status
        BY <2>2 DEF Write, ArriveLate
      <3> QED BY <2>1, <3>1, <3>2, PromiseHonour
    <2>3. CASE Record(d)
      BY <2>3, PromiseRecord
    <2>4. CASE DeciderStep(d) /\ ~Write(d) /\ ~Record(d)
      BY <2>4 DEF DeciderStep, Reserve, GiveUpReserving, Verify, PublishDecision, Release,
         gatewayVars
    <2> QED BY <1>2, <2>2, <2>3, <2>4
  <1>3. ASSUME NEW s \in Stops, StopStep(s) PROVE UNCHANGED <<status, ledger>>
    BY <1>3 DEF StopStep, Capture, Abort, Settled, PublishStopped, Settle, gatewayVars
  <1>4. CASE EndRun
    BY <1>4, PromiseWithdraw DEF EndRun
  <1>5. CASE OpenStream \/ CloseStream \/ Drop \/ Restart \/ UNCHANGED vars
    BY <1>5 DEF OpenStream, CloseStream, Drop, Restart, gatewayVars, vars
  <1> QED BY <1>1, <1>2, <1>3, <1>4, <1>5 DEF Next

(* Whatever its requests, Stops, restarts and lost replies do, the channel     *)
(* keeps the promise: an approval ends once, and the ledger holds no decision  *)
(* for it but the one that was taken.                                          *)
THEOREM LedgerKeptCorrect == Spec => LedgerKept
  <1>1. Init => Promise!Init
    BY DEF Init, Promise!Init
  <1>2. TypeOK /\ Inv /\ [Next]_vars => [Promise!Next]_<<status, ledger>>
    BY PromiseNext
  <1> QED BY <1>1, <1>2, InvCorrect, PTL DEF Spec, LedgerKept, Promise!Spec
=============================================================================
