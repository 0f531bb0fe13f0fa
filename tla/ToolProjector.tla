--------------------------- MODULE ToolProjector ---------------------------
(***************************************************************************)
(* How the live frames of one run become the cards of a chat.              *)
(*                                                                         *)
(* The gateway tells of one tool call on three streams (tool, item,        *)
(* command_output), each with a start, an end or both.  The projector      *)
(* folds them: one card for a call, one result for a card.  A result comes *)
(* from command_output for a command, whose tool result only stands in for *)
(* it; and the cards that have none when the run ends are settled then.  A *)
(* question has a card of its own and none here.  A projector may be       *)
(* attached in mid-run.                                                    *)
(*                                                                         *)
(* Of an output, what matters is where it is from.  The agent's narration  *)
(* between the calls is in blocks; the assistant's text is left out.       *)
(***************************************************************************)
EXTENDS Naturals, Sequences

CONSTANTS Commands,     \* calls of exec and its kin
          Plains,       \* calls of other tools
          Asks          \* calls of ask_user

ToolCalls == Commands \cup Plains \cup Asks
Outputs == {"full", "partial", "summary", "stand-in", "result", "none"}

ASSUME ToolAssumption ==
    Commands \cap Plains = {} /\ Commands \cap Asks = {} /\ Plains \cap Asks = {}

VARIABLES sent,         \* the frames of each call that the gateway has published
          heard,        \* and those of them that found the card there
          attached,     \* whether the projector receives them
          call,         \* the projector's folding state of each call
          block,        \* the number of the narration block
          cards,        \* the events of each call that reached the browser
          told,         \* the last narration: its block, and the calls that had started
          over          \* the terminal frame was folded

toolVars == <<sent, heard, attached, call, block, cards, told, over>>

-----------------------------------------------------------------------------
\* The gateway.  A call starts on the tool stream; the others follow each in its own
\* order.  Only commands have an output, which ends with all of it or with none.

EndFrames == {"outputEnd", "bareEnd"}
Frames == {"toolStart", "itemStart", "output", "toolResult"} \cup EndFrames

Sends(c, frame) ==
    /\ ~over
    /\ frame \notin sent[c]
    /\ frame = "toolStart" \/ "toolStart" \in sent[c]
    /\ frame \in {"output"} \cup EndFrames => c \in Commands /\ EndFrames \cap sent[c] = {}
    /\ sent' = [sent EXCEPT ![c] = @ \cup {frame}]

-----------------------------------------------------------------------------
\* The projector.

Emits(c, events) == cards' = [cards EXCEPT ![c] = @ \o events]
Folds(c, value) == call' = [call EXCEPT ![c] = value]
Card == [type |-> "tool_call"]
Result(output) == [type |-> "tool_result", output |-> output]

\* startCall: the first start of a call, on whichever stream, ends the block of
\* narration; the card of a question is suppressed.
Fresh(c) == ~call[c].started

NextBlockOfCards(c) == IF c \in Asks THEN block ELSE block + 1
NextBlock(c) == block + 1

Start(c) ==
    IF Fresh(c)
    THEN /\ Folds(c, [call[c] EXCEPT !.started = TRUE, !.suppressed = c \in Asks])
         /\ block' = NextBlock(c)
         /\ Emits(c, IF c \in Asks THEN <<>> ELSE <<Card>>)
    ELSE UNCHANGED <<call, block, cards>>

\* A call that this projector did not see start has no card, and gets no result.
Output(c) ==
    /\ IF call[c].started /\ call[c].output = "none"
       THEN Folds(c, [call[c] EXCEPT !.output = "partial"])
       ELSE UNCHANGED call
    /\ UNCHANGED <<block, cards>>

SettlesAgain(c) == call[c].started /\ ~call[c].suppressed
Settles(c) == call[c].started /\ ~call[c].resultOut /\ ~call[c].suppressed

\* The end of the output carries all of it, which replaces what had come; one that
\* carries none leaves that, or the summary.
EndOf(c, frame) == IF frame = "outputEnd" THEN "full"
                   ELSE IF call[c].output # "none" THEN call[c].output ELSE "summary"

OutputEnd(c, frame) ==
    /\ IF Settles(c)
       THEN /\ Folds(c, [call[c] EXCEPT !.output = EndOf(c, frame), !.resultOut = TRUE])
            /\ Emits(c, <<Result(EndOf(c, frame))>>)
       ELSE UNCHANGED <<call, cards>>
    /\ UNCHANGED block

\* The result of a command waits for its output.
DefersAsks(c) == c \in Asks
Defers(c) == c \in Commands

ToolResult(c) ==
    /\ IF Settles(c)
       THEN IF Defers(c)
            THEN Folds(c, [call[c] EXCEPT !.pending = "stand-in"]) /\ UNCHANGED cards
            ELSE /\ Folds(c, [call[c] EXCEPT !.resultOut = TRUE])
                 /\ Emits(c, <<Result("result")>>)
       ELSE UNCHANGED <<call, cards>>
    /\ UNCHANGED block

Fold(c, frame) ==
    \/ frame \in {"toolStart", "itemStart"} /\ Start(c)
    \/ frame = "output" /\ Output(c)
    \/ frame \in EndFrames /\ OutputEnd(c, frame)
    \/ frame = "toolResult" /\ ToolResult(c)

Feed(c, frame) ==
    /\ Sends(c, frame)
    /\ IF attached THEN Fold(c, frame) ELSE UNCHANGED <<call, block, cards>>
    /\ heard' = IF attached /\ call[c].started THEN [heard EXCEPT ![c] = @ \cup {frame}]
                ELSE heard
    /\ UNCHANGED <<attached, told, over>>

\* preambleEvent
Started == {c \in ToolCalls : call[c].started}

Narrate ==
    /\ ~over /\ attached
    /\ told' = [block |-> block, after |-> Started]
    /\ UNCHANGED <<sent, heard, attached, call, block, cards, over>>

\* An observer joins in mid-run, with a projector of its own.
Attach ==
    /\ ~attached /\ ~over
    /\ attached' = TRUE
    /\ UNCHANGED <<sent, heard, call, block, cards, told, over>>

\* finalizeAll, at final, aborted and error alike: whatever calls have ended by then.
LastWord(c) == IF call[c].pending # "none" THEN call[c].pending ELSE call[c].output

Terminal ==
    /\ ~over /\ attached
    /\ over' = TRUE
    /\ call' = [c \in ToolCalls |-> IF Settles(c) THEN [call[c] EXCEPT !.resultOut = TRUE]
                                    ELSE call[c]]
    /\ cards' = [c \in ToolCalls |-> IF Settles(c) THEN Append(cards[c], Result(LastWord(c)))
                                     ELSE cards[c]]
    /\ UNCHANGED <<sent, heard, attached, block, told>>

-----------------------------------------------------------------------------
ToolInit ==
    /\ sent = [c \in ToolCalls |-> {}] /\ heard = sent
    /\ attached \in BOOLEAN
    /\ call = [c \in ToolCalls |-> [started |-> FALSE, suppressed |-> FALSE, output |-> "none",
                                    pending |-> "none", resultOut |-> FALSE]]
    /\ block = 1
    /\ cards = [c \in ToolCalls |-> <<>>]
    /\ told = [block |-> 0, after |-> {}]
    /\ over = FALSE

ToolNext ==
    \/ \E c \in ToolCalls, frame \in Frames : Feed(c, frame)
    \/ Narrate \/ Attach \/ Terminal

ToolSpec == ToolInit /\ [][ToolNext]_toolVars

-----------------------------------------------------------------------------
\* Whatever streams tell of a call, in whatever order, the browser gets its card once
\* and then at most one result, and for a question nothing; and when the run has ended
\* no card is left without (livetools.go:290-292).
CardsPair ==
    \A c \in ToolCalls :
        /\ Len(cards[c]) <= 2
        /\ cards[c] # <<>> => c \notin Asks /\ cards[c][1] = Card
        /\ Len(cards[c]) = 2 => cards[c][2] # Card
        /\ over => Len(cards[c]) # 1

\* A card shows the most that had arrived for it: the output of a command when that had
\* ended, its tool result when only that had come; and what has come is shown, be it by
\* the end of the run (livetools.go:202-216, 286-302, 420-432).
Best(c) ==
    IF c \in Plains THEN IF "toolResult" \in heard[c] THEN "result" ELSE "none"
    ELSE IF "outputEnd" \in heard[c] THEN "full"
    ELSE IF "bareEnd" \in heard[c] THEN IF "output" \in heard[c] THEN "partial" ELSE "summary"
    ELSE IF "toolResult" \in heard[c] THEN "stand-in"
    ELSE IF "output" \in heard[c] THEN "partial" ELSE "none"

RichestWins ==
    \A c \in ToolCalls : Len(cards[c]) = 2 => cards[c][2].output = Best(c)

\* Two narrations between which a call has started are not one block, although the card
\* of the call may be suppressed (livetools.go:372-378).
BlocksApart == told.block = block => told.after = Started
=============================================================================
