------------------------- MODULE ManagedConversation -------------------------
(***************************************************************************)
(* The managed runs of one durable session: each run is an agent of its    *)
(* own that starts from the stored transcript, with a new prompt, or to    *)
(* continue the turn of a run that was interrupted.                        *)
(***************************************************************************)
EXTENDS AgentLoop

CONSTANTS MaxTurns, MaxCrashes    \* bounds

ASSUME ConversationAssumption == MaxTurns \in Nat /\ MaxCrashes \in Nat

VARIABLES status,    \* of the session's latest run
          whole,     \* did every run find a transcript it can go on from?
          crashes
vars == <<loopVars, status, whole, crashes>>

CutShort == {"interrupted", "cancelled"}

Init ==
  /\ LoopInit
  /\ status = "none" /\ whole = TRUE /\ crashes = 0

\* An agent is built over the stored transcript.
Load ==
  /\ persisted' = Len(durable)
  /\ budget' = MaxIterations
  /\ tools' = NoTools
  /\ compressed' = FALSE
  /\ status' = "running"

\* run_conversation: the prompt joins the history and is checkpointed.
Prompted(t) ==
  /\ history' = Append(durable, User(t)) /\ said' = Append(durable, User(t))
  /\ fresh' = TRUE
  /\ pc' = IF Observed THEN "checkpoint" ELSE "loop"
  /\ after' = "loop"

\* continue_conversation: the history is taken as it is.
Continued ==
  /\ history' = durable /\ said' = durable
  /\ fresh' = FALSE
  /\ pc' = "loop" /\ UNCHANGED after

StartRun ==
  /\ status # "running" /\ turn < MaxTurns
  /\ turn' = turn + 1
  /\ whole' = (whole /\ IsPrefix(durable, said) /\ Paired(durable))
  /\ Load /\ Prompted(turn + 1)
  /\ UNCHANGED <<durable, asked, ran, faults, crashes>>

\* A replay of an interrupted run; without a transcript it starts afresh.
Replay ==
  /\ status = "interrupted"
  /\ whole' = (whole /\ IsPrefix(durable, said))
  /\ Load
  /\ IF durable = <<>> THEN Prompted(turn) ELSE Continued
  /\ UNCHANGED <<durable, turn, asked, ran, faults, crashes>>

Ended == pc \in {"completed", "exhausted", "failed"}

FinishRun ==
  /\ status = "running" /\ Ended
  /\ status' = IF pc = "failed" THEN "failed" ELSE "completed"
  /\ pc' = "idle"
  /\ UNCHANGED <<history, durable, persisted, after, turn, fresh, budget, tools, asked,
                 ran, said, compressed, faults, whole, crashes>>

\* The gateway dies, or the run is cancelled or times out: the agent is gone.
CutRun ==
  /\ status = "running" /\ crashes < MaxCrashes
  /\ crashes' = crashes + 1
  /\ status' \in CutShort
  /\ pc' = "idle"
  /\ history' = <<>> /\ tools' = NoTools
  /\ UNCHANGED <<durable, persisted, after, turn, fresh, budget, asked, ran, said, compressed, faults, whole>>

Loop == LoopStep /\ UNCHANGED <<status, whole, crashes>>

Next == StartRun \/ Replay \/ FinishRun \/ CutRun \/ Loop

Spec == Init /\ [][Next]_vars

----------------------------------------------------------------------------
(* Properties                                                              *)

\* The variables have values the code can give them.
TypeOK ==
  /\ LoopTypeOK
  /\ status \in {"none", "running", "completed", "failed"} \cup CutShort
  /\ whole \in BOOLEAN
  /\ crashes \in 0..MaxCrashes

\* Every run found a transcript it can go on from, and no tool panicked.
Sound == whole /\ NoCall \notin Answered(said)

\* Every request to the provider is one it accepts: each call is followed by
\* its result and nothing else is answered, and the fence stored before it names
\* a boundary from which the provider may be called again, whatever was
\* compressed, interrupted or continued -- if new prompts came at the end of a
\* turn, no transcript had a gap and no parallel tool has panicked.
RequestsPaired ==
  pc = "call" /\ Sound => Paired(history) /\ SafeAction(history) = "call_provider"

\* A tool runs only when the message that asks for it is stored, so that what an
\* interrupted run was about to do can be read from the transcript, and never
\* again when its result is stored.
RunsWhatIsStored ==
  [][\A c \in CallIds : ran'[c] # ran[c] =>
       /\ ~compressed /\ faults = 0 => c \in Calls(durable)
       /\ whole => c \notin Answered(durable)]_vars

\* A prompt gets one final answer: a replay does not add a second one to the
\* transcript -- unless writes had failed when the history was compressed: then a
\* message that was stored may come to lie behind persisted_len again.
OneFinalAnswer ==
  whole /\ (compressed => faults = 0) => \A i, j \in DOMAIN durable :
    /\ durable[i].role = "assistant" /\ durable[i].calls = {}
    /\ durable[j].role = "assistant" /\ durable[j].calls = {}
    /\ durable[i].turn = durable[j].turn
    => i = j

\* A run that ended by itself has stored all it said, unless a write failed
\* or its history was compressed.
AllStored == status = "completed" /\ ~compressed /\ faults = 0 => durable = said

TurnsStoredOnce == OneFinalAnswer /\ AllStored

\* A run that completes with an answer answers its own prompt.
OwnPrompt ==
  status = "running" /\ pc = "completed" =>
    \E i \in DOMAIN said : said[i].role = "user" /\ said[i].turn = turn
=============================================================================
