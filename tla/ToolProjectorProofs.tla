------------------------ MODULE ToolProjectorProofs ------------------------
(***************************************************************************)
(* Proofs about ToolProjector, for any number of calls of each kind.       *)
(***************************************************************************)
EXTENDS ToolProjector, Integers, SequenceTheorems, TLAPS

-----------------------------------------------------------------------------
(* The inductive invariant.                                                *)

CallState == [started : BOOLEAN, suppressed : BOOLEAN, output : Outputs, pending : Outputs,
              resultOut : BOOLEAN]

\* What the browser can have got of one call.
Shows == {<<>>, <<Card>>} \cup {<<Card, Result(o)>> : o \in Outputs}

Types ==
    /\ sent \in [ToolCalls -> SUBSET Frames] /\ \A c \in ToolCalls : heard[c] \subseteq sent[c]
    /\ heard \in [ToolCalls -> SUBSET Frames]
    /\ call \in [ToolCalls -> CallState]
    /\ cards \in [ToolCalls -> Shows]
    /\ block \in Nat
    /\ told \in [block : Nat, after : SUBSET ToolCalls]

\* The card follows the folding state: nothing before the start and for a question,
\* then the card, then one result.
Shown(c) ==
    IF ~call[c].started \/ c \in Asks THEN cards[c] = <<>>
    ELSE IF ~call[c].resultOut THEN cards[c] = <<Card>>
    ELSE cards[c] = <<Card, Result(Best(c))>>

HeardEnd(c) == "outputEnd" \in heard[c] \/ "bareEnd" \in heard[c]

\* What the folding state knows of the frames that were heard, until the result is out.
Folded(c) ==
    /\ ~call[c].started => heard[c] = {} /\ ~call[c].suppressed /\ ~call[c].resultOut
                           /\ call[c].pending = "none" /\ call[c].output = "none"
    /\ call[c].started => (call[c].suppressed <=> c \in Asks)
    /\ call[c].suppressed => ~call[c].resultOut
    /\ c \in Plains => call[c].pending = "none" /\ call[c].output = "none"
    /\ c \in Plains => ("toolResult" \in heard[c] => call[c].resultOut)
                        /\ (call[c].resultOut => "toolResult" \in heard[c] \/ over)
    /\ c \in Commands /\ ~call[c].resultOut =>
         /\ ~HeardEnd(c)
         /\ call[c].pending = IF "toolResult" \in heard[c] THEN "stand-in" ELSE "none"
         /\ call[c].output = IF "output" \in heard[c] THEN "partial" ELSE "none"
    /\ c \in Commands /\ call[c].resultOut => HeardEnd(c) \/ over

\* When the run has ended every call that started has its result.
AllOut(c) == over /\ call[c].started /\ ~call[c].suppressed => call[c].resultOut

CallInv(c) == Shown(c) /\ Folded(c) /\ AllOut(c)

\* A block number that narration has used stands for one set of started calls.
BlockInv == told.block <= block /\ BlocksApart

Inv == Types /\ (\A c \in ToolCalls : CallInv(c)) /\ BlockInv

-----------------------------------------------------------------------------
(* Lists of one and two events.                                            *)

LEMMA JoinedWithNone == <<>> \o <<>> = <<>> /\ <<>> \o <<Card>> = <<Card>>
  BY SMT

LEMMA JoinedPair == ASSUME NEW x, NEW y PROVE <<x>> \o <<y>> = <<x, y>>
  <1>1. <<x>> \in Seq({x, y}) /\ <<y>> \in Seq({x, y}) /\ <<x, y>> \in Seq({x, y})
    OBVIOUS
  <1>2. Len(<<x>> \o <<y>>) = 2
    BY <1>1
  <1>3. (<<x>> \o <<y>>)[1] = x /\ (<<x>> \o <<y>>)[2] = y
    BY <1>1
  <1>4. <<x>> \o <<y>> \in Seq({x, y})
    BY <1>1
  <1>5. /\ Len(<<x>> \o <<y>>) = Len(<<x, y>>)
        /\ \A i \in 1..Len(<<x>> \o <<y>>) : (<<x>> \o <<y>>)[i] = <<x, y>>[i]
    BY <1>2, <1>3
  <1> QED BY <1>1, <1>4, <1>5, SeqEqual, Zenon

LEMMA Appended == ASSUME NEW x, NEW y PROVE Append(<<x>>, y) = <<x, y>>
  <1>1. <<x>> \in Seq({x, y}) /\ y \in {x, y} /\ <<x, y>> \in Seq({x, y})
    OBVIOUS
  <1>2. Len(Append(<<x>>, y)) = 2
    BY <1>1
  <1>3. Append(<<x>>, y)[1] = x /\ Append(<<x>>, y)[2] = y
    BY <1>1
  <1>4. Append(<<x>>, y) \in Seq({x, y})
    BY <1>1
  <1>5. /\ Len(Append(<<x>>, y)) = Len(<<x, y>>)
        /\ \A i \in 1..Len(Append(<<x>>, y)) : (Append(<<x>>, y))[i] = <<x, y>>[i]
    BY <1>2, <1>3
  <1> QED BY <1>1, <1>4, <1>5, SeqEqual, Zenon

LEMMA BestIsOutput == ASSUME NEW c PROVE Best(c) \in Outputs
  BY DEF Best, Outputs

-----------------------------------------------------------------------------
LEMMA InvInit == ToolInit => Inv
  <1> SUFFICES ASSUME ToolInit PROVE Inv
    OBVIOUS
  <1>0. sent = [c \in ToolCalls |-> {}] /\ heard = [c \in ToolCalls |-> {}]
    BY DEF ToolInit
  <1>1. call \in [ToolCalls -> CallState]
    BY DEF ToolInit, CallState, Outputs
  <1>2. Types
    BY <1>0, <1>1 DEF ToolInit, Types, Shows
  <1>3. ASSUME NEW c \in ToolCalls PROVE CallInv(c)
    BY <1>0 DEF ToolInit, CallInv, Shown, Folded, AllOut, HeardEnd
  <1>4. BlockInv
    BY DEF ToolInit, BlockInv, BlocksApart
  <1> QED BY <1>2, <1>3, <1>4 DEF Inv

\* A call whose state, cards and frames stay as they are keeps its invariant while the
\* run goes on.
LEMMA Untouched ==
  ASSUME NEW c \in ToolCalls, CallInv(c),
         call'[c] = call[c], cards'[c] = cards[c], heard'[c] = heard[c], over' = over
  PROVE  CallInv(c)'
  BY DEF CallInv, Shown, Folded, AllOut, HeardEnd, Best

-----------------------------------------------------------------------------
(* The frames, one by one, at the call that they are about.                *)

\* What a frame does to call c alone.
Only(c) ==
    /\ call' \in [ToolCalls -> CallState]
    /\ cards' \in [ToolCalls -> Shows]
    /\ \A d \in ToolCalls : d # c => call'[d] = call[d] /\ cards'[d] = cards[d]

LEMMA StartStep ==
  ASSUME Inv, NEW c \in ToolCalls, NEW frame \in {"toolStart", "itemStart"}, ~over, over' = over,
         Start(c), heard'[c] = IF call[c].started THEN heard[c] \cup {frame} ELSE heard[c]
  PROVE  /\ CallInv(c)' /\ Only(c)
         /\ block' \in Nat /\ block' >= block
         /\ block' = block => call' = call
  <1> USE ToolAssumption DEF Inv, Types, Only
  <1>1. CASE ~call[c].started
    <2> DEFINE k == [call[c] EXCEPT !.started = TRUE, !.suppressed = c \in Asks]
               s == IF c \in Asks THEN <<>> ELSE <<Card>>
    <2>1. call' = [call EXCEPT ![c] = k] /\ block' = block + 1
          /\ cards' = [cards EXCEPT ![c] = @ \o s]
      BY <1>1 DEF Start, Fresh, Folds, Emits, NextBlock
    <2>0. call[c] \in CallState /\ (c \in Asks) \in BOOLEAN
      OBVIOUS
    <2>2. k \in CallState /\ k.started /\ (k.suppressed <=> c \in Asks)
          /\ k.output = call[c].output /\ k.pending = call[c].pending
          /\ k.resultOut = call[c].resultOut
      BY <2>0 DEF CallState
    <2>3. cards[c] \o s = s /\ s \in Shows
      BY <1>1, JoinedWithNone DEF CallInv, Shown, Shows
    <2> HIDE DEF k, s
    <2>4. call'[c] = k /\ cards'[c] = s /\ Only(c)
      BY <2>1, <2>2, <2>3
    <2>5. heard'[c] = {}
      BY <1>1 DEF CallInv, Folded
    <2>6. CallInv(c)'
      BY <1>1, <2>2, <2>4, <2>5 DEF CallInv, Shown, Folded, AllOut, HeardEnd, s
    <2> QED BY <2>1, <2>4, <2>6
  <1>2. CASE call[c].started
    <2>1. UNCHANGED <<call, block, cards>>
      BY <1>2 DEF Start, Fresh
    <2>2. CallInv(c)'
      BY <1>2, <2>1 DEF CallInv, Shown, Folded, AllOut, HeardEnd, Best
    <2> QED BY <2>1, <2>2
  <1> QED BY <1>1, <1>2

LEMMA OutputStep ==
  ASSUME Inv, NEW c \in Commands, ~over, over' = over, Output(c), ~HeardEnd(c),
         heard'[c] = IF call[c].started THEN heard[c] \cup {"output"} ELSE heard[c]
  PROVE  CallInv(c)' /\ Only(c) /\ Started' = Started
  <1> USE ToolAssumption DEF Inv, Types, Only, Started
  <1>0. c \in ToolCalls /\ cards' = cards
    BY DEF ToolCalls, Output
  <1>1. CASE call[c].started /\ call[c].output = "none"
    <2> DEFINE k == [call[c] EXCEPT !.output = "partial"]
    <2>1. call' = [call EXCEPT ![c] = k]
      BY <1>1 DEF Output, Folds
    <2>2. k \in CallState /\ k.started = call[c].started /\ k.suppressed = call[c].suppressed
          /\ k.output = "partial" /\ k.pending = call[c].pending
          /\ k.resultOut = call[c].resultOut
      BY <1>0 DEF CallState, Outputs
    <2> HIDE DEF k
    <2>3. call'[c] = k /\ Only(c) /\ Started' = Started
      BY <1>0, <2>1, <2>2
    <2>4. CallInv(c)'
      BY <1>0, <1>1, <2>2, <2>3 DEF CallInv, Shown, Folded, AllOut, HeardEnd, Best
    <2> QED BY <2>3, <2>4
  <1>2. CASE ~(call[c].started /\ call[c].output = "none")
    <2>1. call' = call
      BY <1>2 DEF Output
    <2>2. CallInv(c)'
      BY <1>0, <1>2, <2>1 DEF CallInv, Shown, Folded, AllOut, HeardEnd, Best
    <2> QED BY <1>0, <2>1, <2>2
  <1> QED BY <1>1, <1>2

LEMMA OutputEndStep ==
  ASSUME Inv, NEW c \in Commands, NEW frame \in EndFrames, ~over, over' = over,
         OutputEnd(c, frame), ~HeardEnd(c),
         heard'[c] = IF call[c].started THEN heard[c] \cup {frame} ELSE heard[c]
  PROVE  CallInv(c)' /\ Only(c) /\ Started' = Started
  <1> USE ToolAssumption DEF Inv, Types, Only, Started
  <1>0. c \in ToolCalls /\ c \notin Asks /\ c \notin Plains
    BY DEF ToolCalls
  <1>1. CASE Settles(c)
    <2> DEFINE o == EndOf(c, frame)
               k == [call[c] EXCEPT !.output = o, !.resultOut = TRUE]
    <2>0. o \in Outputs
      BY <1>0 DEF EndOf, CallState, Outputs
    <2>1. call' = [call EXCEPT ![c] = k] /\ cards' = [cards EXCEPT ![c] = @ \o <<Result(o)>>]
      BY <1>1 DEF OutputEnd, Folds, Emits
    <2>2. k \in CallState /\ k.started = call[c].started /\ k.suppressed = call[c].suppressed
          /\ k.pending = call[c].pending /\ k.resultOut
      BY <1>0, <2>0 DEF CallState
    <2>3. cards[c] \o <<Result(o)>> = <<Card, Result(o)>>
      BY <1>0, <1>1, JoinedPair DEF CallInv, Shown, Settles
    <2>4. <<Card, Result(o)>> \in Shows
      BY <2>0 DEF Shows
    <2>6. HeardEnd(c)' /\ Best(c)' = o
      BY <1>0, <1>1 DEF Settles, Best, EndOf, EndFrames, HeardEnd, CallInv, Folded
    <2> HIDE DEF k, o
    <2>5. call'[c] = k /\ cards'[c] = <<Card, Result(o)>> /\ Only(c) /\ Started' = Started
      BY <1>0, <2>1, <2>2, <2>3, <2>4
    <2>7. CallInv(c)'
      BY <1>0, <1>1, <2>2, <2>5, <2>6 DEF CallInv, Shown, Folded, AllOut, HeardEnd, Settles
    <2> QED BY <2>5, <2>7
  <1>2. CASE ~Settles(c)
    <2>1. call' = call /\ cards' = cards
      BY <1>2 DEF OutputEnd
    <2>2. CallInv(c)'
      BY <1>0, <1>2, <2>1 DEF CallInv, Shown, Folded, AllOut, HeardEnd, Best, Settles
    <2> QED BY <1>0, <2>1, <2>2
  <1> QED BY <1>1, <1>2

LEMMA ToolResultStep ==
  ASSUME Inv, NEW c \in ToolCalls, ~over, over' = over, ToolResult(c),
         heard'[c] = IF call[c].started THEN heard[c] \cup {"toolResult"} ELSE heard[c]
  PROVE  CallInv(c)' /\ Only(c) /\ Started' = Started
  <1> USE ToolAssumption DEF Inv, Types, Only, Started
  <1>1. CASE Settles(c) /\ c \in Commands
    <2> DEFINE k == [call[c] EXCEPT !.pending = "stand-in"]
    <2>1. call' = [call EXCEPT ![c] = k] /\ cards' = cards
      BY <1>1 DEF ToolResult, Folds, Defers
    <2>2. k \in CallState /\ k.started = call[c].started /\ k.suppressed = call[c].suppressed
          /\ k.output = call[c].output /\ k.pending = "stand-in" /\ k.resultOut = call[c].resultOut
      BY DEF CallState, Outputs
    <2> HIDE DEF k
    <2>3. call'[c] = k /\ Only(c) /\ Started' = Started
      BY <2>1, <2>2
    <2>4. CallInv(c)'
      BY <1>1, <2>1, <2>2, <2>3 DEF CallInv, Shown, Folded, AllOut, HeardEnd, Best, Settles
    <2> QED BY <2>3, <2>4
  <1>2. CASE Settles(c) /\ c \notin Commands
    <2> DEFINE k == [call[c] EXCEPT !.resultOut = TRUE]
    <2>0. c \in Plains /\ c \notin Asks
      BY <1>2 DEF ToolCalls, Settles, CallInv, Folded
    <2>1. call' = [call EXCEPT ![c] = k] /\ cards' = [cards EXCEPT ![c] = @ \o <<Result("result")>>]
      BY <1>2 DEF ToolResult, Folds, Emits, Defers
    <2>2. k \in CallState /\ k.started = call[c].started /\ k.suppressed = call[c].suppressed
          /\ k.output = call[c].output /\ k.pending = call[c].pending /\ k.resultOut
      BY DEF CallState
    <2>3. cards[c] \o <<Result("result")>> = <<Card, Result("result")>>
      BY <2>0, <1>2, JoinedPair DEF CallInv, Shown, Settles
    <2>4. <<Card, Result("result")>> \in Shows
      BY DEF Shows, Outputs
    <2> HIDE DEF k
    <2>5. call'[c] = k /\ cards'[c] = <<Card, Result("result")>> /\ Only(c) /\ Started' = Started
      BY <2>1, <2>2, <2>3, <2>4
    <2>6. "toolResult" \in heard'[c] /\ Best(c)' = "result"
      BY <1>2, <2>0 DEF Settles, Best
    <2>7. CallInv(c)'
      BY <2>0, <1>2, <2>2, <2>5, <2>6 DEF CallInv, Shown, Folded, AllOut, HeardEnd, Settles
    <2> QED BY <2>5, <2>7
  <1>3. CASE ~Settles(c)
    <2>1. call' = call /\ cards' = cards
      BY <1>3 DEF ToolResult
    <2>2. CallInv(c)'
      BY <1>3, <2>1 DEF CallInv, Shown, Folded, AllOut, HeardEnd, Best, Settles, ToolCalls
    <2> QED BY <2>1, <2>2
  <1> QED BY <1>1, <1>2, <1>3

-----------------------------------------------------------------------------
(* The steps of the whole.                                                 *)

LEMMA FeedStep ==
  ASSUME Inv, NEW c \in ToolCalls, NEW frame \in Frames, Feed(c, frame)
  PROVE  Inv'
  <1>0. /\ ~over /\ over' = over /\ told' = told
        /\ frame \in {"output"} \cup EndFrames => c \in Commands /\ EndFrames \cap sent[c] = {}
        /\ sent' = [sent EXCEPT ![c] = @ \cup {frame}]
        /\ heard' = IF attached /\ call[c].started THEN [heard EXCEPT ![c] = @ \cup {frame}]
                    ELSE heard
        /\ IF attached THEN Fold(c, frame) ELSE UNCHANGED <<call, block, cards>>
    BY DEF Feed, Sends
  <1>1. /\ heard' \in [ToolCalls -> SUBSET Frames]
        /\ sent' \in [ToolCalls -> SUBSET Frames] /\ \A d \in ToolCalls : heard'[d] \subseteq sent'[d]
        /\ \A d \in ToolCalls : d # c => heard'[d] = heard[d]
    BY <1>0 DEF Inv, Types
  <1>4. frame \in {"output"} \cup EndFrames => ~HeardEnd(c)
    BY <1>0 DEF Inv, Types, EndFrames, HeardEnd
  <1>2. CASE ~attached
    <2>1. UNCHANGED <<call, block, cards, heard>>
      BY <1>0, <1>2
    <2>2. ASSUME NEW d \in ToolCalls PROVE CallInv(d)'
      BY <1>0, <2>1, Untouched DEF Inv
    <2>3. Types' /\ BlockInv'
      BY <1>0, <1>1, <2>1 DEF Inv, Types, BlockInv, BlocksApart, Started
    <2> QED BY <2>2, <2>3 DEF Inv
  <1>3. CASE attached
    <2>0. heard'[c] = IF call[c].started THEN heard[c] \cup {frame} ELSE heard[c]
      BY <1>0, <1>3 DEF Inv, Types
    <2>1. /\ CallInv(c)' /\ Only(c)
          /\ block' \in Nat /\ block' >= block
          /\ block' = block => Started' = Started
      <3>1. CASE frame \in {"toolStart", "itemStart"} /\ Start(c)
        BY <3>1, <1>0, <2>0, StartStep DEF Started
      <3>2. CASE frame = "output" /\ Output(c)
        <4>1. c \in Commands /\ ~HeardEnd(c) /\ block' = block /\ block \in Nat
          BY <3>2, <1>0, <1>4 DEF Output, Inv, Types
        <4> QED BY <3>2, <4>1, <1>0, <2>0, OutputStep
      <3>3. CASE frame \in EndFrames /\ OutputEnd(c, frame)
        <4>1. c \in Commands /\ block' = block /\ block \in Nat
          BY <3>3, <1>0 DEF OutputEnd, Inv, Types
        <4> QED BY <3>3, <4>1, <1>0, <1>4, <2>0, OutputEndStep
      <3>4. CASE frame = "toolResult" /\ ToolResult(c)
        <4>1. block' = block /\ block \in Nat
          BY <3>4 DEF ToolResult, Inv, Types
        <4> QED BY <3>4, <4>1, <1>0, <2>0, ToolResultStep
      <3> QED BY <1>0, <1>3, <3>1, <3>2, <3>3, <3>4 DEF Fold
    <2>2. ASSUME NEW d \in ToolCalls PROVE CallInv(d)'
      <3>1. CASE d = c
        BY <3>1, <2>1
      <3>2. CASE d # c
        BY <3>2, <2>1, <1>0, <1>1, Untouched DEF Inv, Only
      <3> QED BY <3>1, <3>2
    <2>3. Types'
      BY <1>0, <1>1, <2>1 DEF Inv, Types, Only
    <2>4. BlockInv'
      BY <1>0, <2>1 DEF Inv, Types, BlockInv, BlocksApart
    <2> QED BY <2>2, <2>3, <2>4 DEF Inv
  <1> QED BY <1>2, <1>3

LEMMA TerminalStep == ASSUME Inv, Terminal PROVE Inv'
  <1> USE ToolAssumption
  <1>0. UNCHANGED <<sent, heard, block, told>> /\ over' /\ ~over
    BY DEF Terminal
  <1>1. ASSUME NEW c \in ToolCalls
        PROVE  /\ CallInv(c)' /\ call'[c] \in CallState /\ cards'[c] \in Shows
               /\ call'[c].started = call[c].started
    <2>1. call[c] \in CallState /\ cards[c] \in Shows /\ CallInv(c)
      BY DEF Inv, Types
    <2>2. CASE Settles(c)
      <3> DEFINE k == [call[c] EXCEPT !.resultOut = TRUE]
      <3>1. call'[c] = k /\ cards'[c] = Append(cards[c], Result(LastWord(c)))
        BY <2>2 DEF Terminal
      <3>2. k \in CallState /\ k.started = call[c].started /\ k.suppressed = call[c].suppressed
            /\ k.output = call[c].output /\ k.pending = call[c].pending /\ k.resultOut
        BY <2>1 DEF CallState
      <3> HIDE DEF k
      <3>3. c \notin Asks /\ cards[c] = <<Card>>
        BY <2>1, <2>2 DEF Settles, CallInv, Shown, Folded
      <3>4. LastWord(c) = Best(c)
        BY <2>1, <2>2, <3>3 DEF Settles, CallInv, Folded, HeardEnd, LastWord, Best, ToolCalls
      <3>5. cards'[c] = <<Card, Result(Best(c))>> /\ Best(c)' = Best(c)
        BY <1>0, <3>1, <3>3, <3>4, Appended DEF Best
      <3>6. cards'[c] \in Shows
        BY <3>5, BestIsOutput DEF Shows
      <3>7. CallInv(c)'
        BY <1>0, <2>1, <2>2, <3>1, <3>2, <3>3, <3>5 DEF CallInv, Shown, Folded, AllOut, HeardEnd, Settles
      <3> QED BY <3>1, <3>2, <3>6, <3>7
    <2>3. CASE ~Settles(c)
      <3>1. call'[c] = call[c] /\ cards'[c] = cards[c]
        BY <2>3 DEF Terminal
      <3>2. CallInv(c)'
        BY <1>0, <2>1, <2>3, <3>1 DEF CallInv, Shown, Folded, AllOut, HeardEnd, Settles, Best
      <3> QED BY <2>1, <3>1, <3>2
    <2> QED BY <2>2, <2>3
  <1>2. call' \in [ToolCalls -> CallState] /\ cards' \in [ToolCalls -> Shows]
    BY <1>1 DEF Terminal
  <1>3. Types'
    BY <1>0, <1>2 DEF Inv, Types
  <1>4. Started' = Started
    BY <1>1 DEF Started
  <1>5. BlockInv'
    BY <1>0, <1>4 DEF Inv, BlockInv, BlocksApart
  <1> QED BY <1>1, <1>3, <1>5 DEF Inv

LEMMA InvNext == Inv /\ [ToolNext]_toolVars => Inv'
  <1> SUFFICES ASSUME Inv, [ToolNext]_toolVars PROVE Inv'
    OBVIOUS
  <1>1. ASSUME NEW c \in ToolCalls, NEW frame \in Frames, Feed(c, frame) PROVE Inv'
    BY <1>1, FeedStep
  <1>2. CASE Narrate
    <2>1. UNCHANGED <<sent, heard, call, block, cards, over>> /\ told' = [block |-> block, after |-> Started]
      BY <1>2 DEF Narrate
    <2>2. Started' = Started /\ Started \subseteq ToolCalls
      BY <2>1 DEF Started
    <2>3. ASSUME NEW c \in ToolCalls PROVE CallInv(c)'
      BY <2>1, Untouched DEF Inv
    <2> QED BY <2>1, <2>2, <2>3 DEF Inv, Types, BlockInv, BlocksApart
  <1>3. CASE Attach \/ UNCHANGED toolVars
    <2>1. UNCHANGED <<sent, heard, call, block, cards, told, over>>
      BY <1>3 DEF Attach, toolVars
    <2>2. Started' = Started
      BY <2>1 DEF Started
    <2>3. ASSUME NEW c \in ToolCalls PROVE CallInv(c)'
      BY <2>1, Untouched DEF Inv
    <2> QED BY <2>1, <2>2, <2>3 DEF Inv, Types, BlockInv, BlocksApart
  <1>4. CASE Terminal
    BY <1>4, TerminalStep
  <1> QED BY <1>1, <1>2, <1>3, <1>4 DEF ToolNext

LEMMA Invariant == ToolSpec => []Inv
  <1> QED BY InvInit, InvNext, PTL DEF ToolSpec

-----------------------------------------------------------------------------
\* Whatever streams tell of its calls, in whatever order, and wherever the observer
\* joined: the browser gets a card once and one result, none for a question, and when
\* the run is over no card is without (startCall, finalizeAll).
THEOREM CardsPairCorrect == ToolSpec => []CardsPair
  <1>1. Inv => CardsPair
    <2> SUFFICES ASSUME Inv, NEW c \in ToolCalls
                 PROVE  /\ Len(cards[c]) <= 2
                        /\ cards[c] # <<>> => c \notin Asks /\ cards[c][1] = Card
                        /\ Len(cards[c]) = 2 => cards[c][2] # Card
                        /\ over => Len(cards[c]) # 1
      BY DEF CardsPair
    <2>1. CallInv(c)
      BY DEF Inv
    <2>2. CASE cards[c] = <<>>
      BY <2>2
    <2>3. CASE cards[c] = <<Card>> /\ c \notin Asks /\ ~over
      BY <2>3
    <2>4. CASE cards[c] = <<Card, Result(Best(c))>> /\ c \notin Asks
      <3>1. Result(Best(c)) # Card
        BY DEF Result, Card
      <3> QED BY <2>4, <3>1
    <2> QED BY <2>1, <2>2, <2>3, <2>4 DEF CallInv, Shown, Folded, AllOut, HeardEnd
  <1> QED BY <1>1, Invariant, PTL

\* The result that a card shows is the best that its call's frames had brought
\* (deferred results, finalizeAll).
THEOREM RichestWinsCorrect == ToolSpec => []RichestWins
  <1>1. Inv => RichestWins
    <2> SUFFICES ASSUME Inv, NEW c \in ToolCalls, Len(cards[c]) = 2
                 PROVE  cards[c][2].output = Best(c)
      BY DEF RichestWins
    <2>1. cards[c] = <<Card, Result(Best(c))>>
      BY DEF Inv, CallInv, Shown
    <2> QED BY <2>1 DEF Result
  <1> QED BY <1>1, Invariant, PTL

\* Narration before and after the start of a call, shown or suppressed, is in two
\* blocks (startCall).
THEOREM BlocksApartCorrect == ToolSpec => []BlocksApart
  <1>1. Inv => BlocksApart
    BY DEF Inv, BlockInv
  <1> QED BY <1>1, Invariant, PTL
=============================================================================
