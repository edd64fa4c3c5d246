-------------------------- MODULE MCGatewaySessions --------------------------
(***************************************************************************)
(* Small instances of GatewaySessions and, apart from it, of the adapters  *)
(* that bring it messages and send its answers: in a behaviour one of the  *)
(* two, named by part, moves.                                              *)
(***************************************************************************)
EXTENDS GatewaySessions, TLC

CONSTANTS m1, m2, m3, a, b

VARIABLES part,
          server, poller, discord, channel, answer, seen, accepted, faults, crashes

\* All messages are of one chat; or one is of another.
SameChat == [m \in Msgs |-> a]
MostlyOne == [m \in Msgs |-> IF m = m3 THEN b ELSE a]

TaskSymmetry == Permutations(Tasks)

\* The first and the third update have no text; the last message is of Discord.
Chats == INSTANCE ChatAdapters WITH
  Updates <- 3, Pushed <- 1, Plain <- {2, 4}, Limit <- 2, Room <- 1,
  Text <- <<"x", "x", "n", "x", "x", "x">>, MaxChars <- 5, Reserve <- 2, MaxText <- 8,
  MaxFaults <- 1, MaxCrashes <- 1

chatVars == <<server, poller, discord, channel, answer, seen, accepted, faults, crashes>>

SessionsInit == part \in {"sessions", "chats"} /\ Init /\ Chats!Init
SessionsNext == \/ part = "sessions" /\ Next /\ UNCHANGED <<part, chatVars>>
                \/ part = "chats" /\ Chats!Next /\ UNCHANGED <<part, vars>>

\* While the adapters move no session does: the fairness of GatewaySessions asks
\* nothing of those behaviours.
SessionsSpec == SessionsInit /\ [][SessionsNext]_<<part, vars, chatVars>> /\ Fairness

\* The sessions come to rest, and of the adapters what they have to keep until then.
SettlesAndChats == SessionsSettle /\ [](part = "chats" => Chats!ChatsSound)
=============================================================================
