--------------------------- MODULE ReplConversation ---------------------------
(***************************************************************************)
(* A conversation at the prompt of hermes-cli: the user sends messages to  *)
(* one agent, takes turns back, starts anew or compresses, and leaves and  *)
(* resumes the session later.  No observer watches this agent: the rows of *)
(* a turn are written when the turn is over.                               *)
(***************************************************************************)
EXTENDS AgentLoop

CONSTANTS MaxTurns, MaxCommands, MaxKills  \* bounds

VARIABLES mode,      \* "prompt", "turn", "store" or "gone"
          start,     \* pre_len: how long the history was before the turn
          row,       \* how many messages of the history are behind the writer
          answered,  \* every message of the turns that have ended, as it was said
          torn,      \* was a turn stored in part?
          commands, kills
replVars == <<mode, start, row, answered, torn, commands, kills>>
talkVars == <<loopVars, replVars>>

ReplInit ==
  /\ LoopInit
  /\ mode = "prompt" /\ start = 0 /\ row = 0
  /\ answered = <<>> /\ torn = FALSE /\ commands = 0 /\ kills = 0

Prompting == mode = "prompt" /\ pc = "idle"

----------------------------------------------------------------------------
(* run_message                                                             *)

\* The history the turn begins with is h.
Send(h) ==
  /\ turn < MaxTurns /\ turn' = turn + 1
  /\ history' = Append(h, User(turn')) /\ said' = <<User(turn')>>
  /\ start' = Len(h) /\ mode' = "turn" /\ pc' = "loop" /\ fresh' = TRUE
  /\ UNCHANGED <<durable, persisted, after, budget, tools, asked, ran, compressed, faults,
                 row, answered, torn, kills>>

SendMessage == Prompting /\ Send(history) /\ UNCHANGED commands

Turn == mode = "turn" /\ LoopStep /\ UNCHANGED replVars

BadKept == TRUE
\* A turn that failed is not stored, but stays in the history.
Kept == pc \in {"completed", "exhausted"}

\* Compression may have made the history shorter than it was.
FirstRow == IF start < Len(history) THEN start ELSE Len(history)

TurnEnds ==
  /\ mode = "turn" /\ pc \in {"completed", "exhausted", "failed"}
  /\ mode' = (IF Kept THEN "store" ELSE "prompt") /\ pc' = "idle"
  /\ row' = FirstRow
  /\ answered' = IF pc = "failed" THEN answered ELSE answered \o said
  /\ UNCHANGED <<history, durable, persisted, after, turn, fresh, budget, tools, asked, ran,
                 said, compressed, faults, start, torn, commands, kills>>

\* append_message.  That one failed is not even mentioned.
StoreRow ==
  /\ mode = "store" /\ row < Len(history) /\ row' = row + 1
  /\ \/ durable' = Append(durable, history[row']) /\ UNCHANGED <<faults, torn>>
     \/ /\ faults < MaxFaults /\ faults' = faults + 1
        /\ torn' = TRUE /\ UNCHANGED durable
  /\ UNCHANGED <<history, persisted, pc, after, turn, fresh, budget, tools, asked, ran, said,
                 compressed, mode, start, answered, commands, kills>>

Stored ==
  /\ mode = "store" /\ row = Len(history) /\ mode' = "prompt"
  /\ UNCHANGED <<loopVars, start, row, answered, torn, commands, kills>>

----------------------------------------------------------------------------
(* Commands.  None of them touches the session's rows.                     *)

LastUser == SelectLastInSeq(history, LAMBDA m : m.role = "user")
BeforeLastTurn == SubSeq(history, 1, LastUser - 1)

Command == Prompting /\ commands < MaxCommands /\ commands' = commands + 1

Rewrite(h) ==
  /\ history' = h
  /\ UNCHANGED <<durable, persisted, pc, after, turn, fresh, budget, tools, asked, ran, said,
                 compressed, faults, mode, start, row, answered, torn, kills>>

Undo == Command /\ LastUser # 0 /\ Rewrite(BeforeLastTurn)
Retry == Command /\ LastUser # 0 /\ Send(BeforeLastTurn)
New == Command /\ history # <<>> /\ Rewrite(<<>>)
Compress == Command /\ \E h \in Compressions(history, Protected) \ {history} : Rewrite(h)

----------------------------------------------------------------------------
(* Leaving and resuming                                                    *)

\* /quit at the prompt, or the process dies.  A turn without a row is lost as
\* a whole.
Leave ==
  /\ mode # "gone" /\ kills < MaxKills /\ kills' = kills + 1
  /\ mode' = "gone" /\ pc' = "idle" /\ tools' = NoTools
  /\ torn' = (torn \/ (mode = "store" /\ row < Len(history) /\ row > FirstRow))
  /\ answered' = IF mode = "store" /\ row = FirstRow /\ row < Len(history)
                 THEN SubSeq(answered, 1, Len(answered) - Len(said)) ELSE answered
  /\ UNCHANGED <<history, durable, persisted, after, turn, fresh, budget, asked, ran, said,
                 compressed, faults, start, row, commands>>

\* run_repl_with_resume: a new agent over load_history.
Resume ==
  /\ mode = "gone" /\ mode' = "prompt"
  /\ history' = durable /\ budget' = MaxIterations
  /\ UNCHANGED <<durable, persisted, pc, after, turn, fresh, tools, asked, ran, said,
                 compressed, faults, start, row, answered, torn, commands, kills>>

ReplNext ==
  \/ SendMessage \/ Turn \/ TurnEnds \/ StoreRow \/ Stored
  \/ Undo \/ Retry \/ New \/ Compress
  \/ Leave \/ Resume

ReplSpec == ReplInit /\ [][ReplNext]_talkVars

----------------------------------------------------------------------------
(* Properties                                                              *)

\* Turns that fail, turns that are taken back or retried and conversations
\* that are resumed in between: the session's rows are the turns that ended
\* with an answer, each of them whole and once, unless a history was compressed
\* in the middle of its turn.
TurnsAreStored == mode = "prompt" /\ ~torn /\ ~compressed => durable = answered
=============================================================================
