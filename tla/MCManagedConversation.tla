------------------------ MODULE MCManagedConversation ------------------------
(***************************************************************************)
(* Conversations for TLC: the managed runs of a durable session, a session *)
(* at the prompt of the command line, single requests to a model, and the  *)
(* chat requests of the HTTP API.                                          *)
(* They are instances of their own: in a behaviour one of them, named by   *)
(* part, moves.                                                            *)
(***************************************************************************)
EXTENDS ManagedConversation

CONSTANTS ReplProtected, ReplCap, ReplPressure, ReplPanics, ReplBatch, ReplCalls, ReplTurns,
          MaxCommands, MaxKills,                            \* of ReplConversation
          Apis, MaxRetries, Frags, MaxText, MaxToolCalls,   \* of ProviderChat
          Chat, Plain, Stream, Named, TurnCalls, Room, MaxApiFaults   \* of ApiChat

VARIABLES part,
          rHistory, rDurable, rPersisted, rPc, rAfter, rTurn, rFresh, rBudget, rTools, rAsked,
          rRan, rSaid, rCompressed, rFaults, mode, start, row, answered, torn, commands, kills,
          api, attempt, phase, words, text, calls, open, finish, shown, result,
          place, client, reply, pending, session, aSaid, wire, aShown, nfaults

Repl == INSTANCE ReplConversation WITH
  Observed <- FALSE, Protected <- ReplProtected, HistoryCap <- ReplCap,
  Pressure <- ReplPressure, Panics <- ReplPanics, MaxBatch <- ReplBatch,
  MaxCalls <- ReplCalls, MaxTurns <- ReplTurns,
  history <- rHistory, durable <- rDurable, persisted <- rPersisted, pc <- rPc,
  after <- rAfter, turn <- rTurn, fresh <- rFresh, budget <- rBudget, tools <- rTools,
  asked <- rAsked, ran <- rRan, said <- rSaid, compressed <- rCompressed, faults <- rFaults
Provider == INSTANCE ProviderChat WITH MaxCalls <- MaxToolCalls, said <- words
Api == INSTANCE ApiChat WITH
  MaxCalls <- TurnCalls, MaxFaults <- MaxApiFaults, said <- aSaid, shown <- aShown

ASSUME ReplAssumption == Repl!LoopAssumption
ASSUME ModelAssumption == Provider!ProviderAssumption
ASSUME ChatAssumption == Api!ApiAssumption

replVars == <<rHistory, rDurable, rPersisted, rPc, rAfter, rTurn, rFresh, rBudget, rTools,
              rAsked, rRan, rSaid, rCompressed, rFaults,
              mode, start, row, answered, torn, commands, kills>>
chatVars == <<api, attempt, phase, words, text, calls, open, finish, shown, result>>
apiVars == <<place, client, reply, pending, session, aSaid, wire, aShown, nfaults>>
all == <<part, vars, replVars, chatVars, apiVars>>

TalkInit == /\ part \in {"managed", "repl", "provider", "api"}
            /\ Init /\ Repl!ReplInit /\ Provider!Init /\ Api!Init
            /\ part # "provider" => api = "chat"
TalkNext ==
  \/ part = "managed" /\ Next /\ UNCHANGED <<part, replVars, chatVars, apiVars>>
  \/ part = "repl" /\ Repl!ReplNext /\ UNCHANGED <<part, vars, chatVars, apiVars>>
  \/ part = "provider" /\ Provider!Next /\ UNCHANGED <<part, vars, replVars, apiVars>>
  \/ part = "api" /\ Api!Next /\ UNCHANGED <<part, vars, replVars, chatVars>>
TalkSpec == TalkInit /\ [][TalkNext]_all

TurnsAreStored == Repl!TurnsAreStored

\* What an agent asks its provider, the API accepts: in a managed run as long as its
\* rows are sound, at the prompt as long as no turn was stored in part.
RequestsSound ==
  /\ RequestsPaired
  /\ part = "managed" /\ pc = "call" /\ Sound => Accepted(history)
  /\ part = "repl" /\ rPc = "call" /\ ~torn => Accepted(rHistory)

\* What was said is what the agent, and then the client of the API, is told.
AnswerIsWhatWasSaid == Provider!AnswerIsWhatWasSaid /\ (part = "api" => Api!ApiSound)
=============================================================================
