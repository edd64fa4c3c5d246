----------------------------- MODULE ChatAdapters ------------------------------
(***************************************************************************)
(* The Telegram and Discord adapters of the gateway.  Telegram is polled:  *)
(* a request with an offset confirms every update before it, and the offset*)
(* is only in memory.  Discord pushes.  Both put messages into one channel;*)
(* the gateway routes each by a task of its own, and its session sends the *)
(* answer in pieces through the adapter it came from.  What happens between*)
(* the route and the answer is in GatewaySessions.                         *)
(***************************************************************************)
EXTENDS Naturals, Sequences, FiniteSets

CONSTANTS Updates,    \* there are the updates 1..Updates at Telegram
          Pushed,     \* and as many messages at Discord, numbered from there on
          Plain,      \* those with text from somebody who is allowed
          Limit,      \* updates in an answer of Telegram
          Room,       \* messages in the channel
          Text,       \* what the agent answers
          MaxChars, Reserve,  \* characters of a message, and those kept for its number
          MaxText,    \* length of the texts that are split to look at split_message
          MaxFaults, MaxCrashes

VARIABLES server,     \* Telegram: [arrived, confirmed]
          poller,     \* the adapter: [pc, offset, batch, level]
          discord,    \* [state, ready, held]: messages whose handler waits for room
          channel,
          answer,     \* of each message: [state, left], the pieces that are not sent
          seen,       \* the pieces that the user was sent, answer by answer
          accepted,   \* history: how often a message was put into the channel
          faults, crashes
vars == <<server, poller, discord, channel, answer, seen, accepted, faults, crashes>>

Polled == 1..Updates
Messages == 1..(Updates + Pushed)
NoOffset == 0
Levels == 4     \* of the backoff: 5, 10, 20, 40, 60 seconds
Lesser(a, b) == IF a < b THEN a ELSE b
Fault == faults < MaxFaults /\ faults' = faults + 1

----------------------------------------------------------------------------
(* split_message, on sequences of characters; "n" is a newline.            *)

\* How much of a rest that is too long goes first: up to its last newline, if any.
Width == MaxChars - Reserve
Cut(rest) ==
  LET lines == {i \in 1..Width : rest[i] = "n"}
  IN IF lines = {} THEN Width ELSE CHOOSE i \in lines : \A j \in lines : j <= i
From(rest, i) == SubSeq(rest, i, Len(rest))
Split(text) ==
  LET pieces[i \in 1..(Len(text) + 1)] ==
        LET rest == From(text, i)
        IN IF rest = <<>> THEN <<>>
           ELSE IF Len(rest) <= Width THEN <<rest>>
           ELSE <<SubSeq(rest, 1, Cut(rest))>> \o pieces[i + Cut(rest)]
  IN IF Len(text) <= MaxChars THEN <<text>> ELSE pieces[1]

----------------------------------------------------------------------------
(* TelegramAdapter::run                                                    *)

NewPoller == [pc |-> "poll", offset |-> NoOffset, batch |-> <<>>, level |-> 0]

Arrive == /\ server.arrived < Updates /\ server' = [server EXCEPT !.arrived = @ + 1]
          /\ UNCHANGED <<poller, discord, channel, answer, seen, accepted, faults, crashes>>

Confirmed == IF poller.offset = NoOffset THEN server.confirmed ELSE poller.offset - 1
Fetched == [i \in 1..Lesser(Limit, server.arrived - Confirmed) |-> Confirmed + i]
\* Telegram gets the request; its answer may not arrive, or not be one.
Poll ==
  /\ poller.pc = "poll" /\ (server.arrived > Confirmed \/ server.confirmed # Confirmed)
  /\ server' = [server EXCEPT !.confirmed = Confirmed]
  /\ \/ /\ poller' = [poller EXCEPT !.pc = "take", !.batch = Fetched, !.level = 0]
        /\ UNCHANGED faults
     \/ Fault /\ poller' = [poller EXCEPT !.pc = "backoff"]
  /\ UNCHANGED <<discord, channel, answer, seen, accepted, crashes>>
\* The delay of its level passes.
Retry == /\ poller.pc = "backoff"
         /\ poller' = [poller EXCEPT !.pc = "poll", !.level = Lesser(@ + 1, Levels)]
         /\ UNCHANGED <<server, discord, channel, answer, seen, accepted, faults, crashes>>

\* The offset goes past an update before it is looked at.
TakeUpdate ==
  /\ poller.pc = "take"
  /\ poller' = IF poller.batch = <<>> THEN [poller EXCEPT !.pc = "poll"]
               ELSE LET u == Head(poller.batch)
                    IN [poller EXCEPT !.offset = u + 1,
                                      !.pc = IF u \in Plain THEN "send" ELSE "take",
                                      !.batch = IF u \in Plain THEN @ ELSE Tail(@)]
  /\ UNCHANGED <<server, discord, channel, answer, seen, accepted, faults, crashes>>

Accept(m) == /\ Len(channel) < Room /\ channel' = Append(channel, m)
             /\ accepted' = [accepted EXCEPT ![m] = @ + 1]
SendUpdate ==
  /\ poller.pc = "send" /\ Accept(Head(poller.batch))
  /\ poller' = [poller EXCEPT !.pc = "take", !.batch = Tail(@)]
  /\ UNCHANGED <<server, discord, answer, seen, faults, crashes>>

----------------------------------------------------------------------------
(* DiscordAdapter                                                          *)

Offline == [state |-> "starting", ready |-> FALSE, held |-> {}]
Ready == /\ discord.state = "starting" /\ discord' = [discord EXCEPT !.state = "up", !.ready = TRUE]
         /\ UNCHANGED <<server, poller, channel, answer, seen, accepted, faults, crashes>>
\* A handler of its own for each message; Discord pushes one once.
Push(m) == /\ m \notin Polled /\ m \in Plain /\ discord.state = "up"
           /\ m \notin discord.held /\ accepted[m] = 0
           /\ discord' = [discord EXCEPT !.held = @ \cup {m}]
           /\ UNCHANGED <<server, poller, channel, answer, seen, accepted, faults, crashes>>
SendPushed(m) == /\ m \in discord.held /\ Accept(m)
                 /\ discord' = [discord EXCEPT !.held = @ \ {m}]
                 /\ UNCHANGED <<server, poller, answer, seen, faults, crashes>>
\* client.start returns an error: nobody starts it again, answers can still be sent.
Disconnect == /\ discord.state # "ended" /\ Fault /\ discord' = [discord EXCEPT !.state = "ended"]
              /\ UNCHANGED <<server, poller, channel, answer, seen, accepted, crashes>>

----------------------------------------------------------------------------
(* The event loop of the gateway, the sessions and send_response.          *)

Waiting == [state |-> "new", left |-> <<>>]
Route == /\ channel # <<>> /\ channel' = Tail(channel)
         /\ answer' = [answer EXCEPT ![Head(channel)] = [Waiting EXCEPT !.state = "routed"]]
         /\ UNCHANGED <<server, poller, discord, seen, accepted, faults, crashes>>
\* The text that route returns of a full or failing router goes nowhere.
Refuse(m) == /\ answer[m].state = "routed"
             /\ answer' = [answer EXCEPT ![m].state = "silent"]
             /\ UNCHANGED <<server, poller, discord, channel, seen, accepted, faults, crashes>>
Respond(m) == /\ answer[m].state = "routed"
              /\ answer' = [answer EXCEPT ![m] = [state |-> "sending", left |-> Split(Text)]]
              /\ seen' = [seen EXCEPT ![m] = Append(@, <<>>)]
              /\ UNCHANGED <<server, poller, discord, channel, accepted, faults, crashes>>
Sendable(m) == m \in Polled \/ discord.ready
Show(m, piece) == [seen EXCEPT ![m][Len(seen[m])] = Append(@, piece)]
\* One piece after the other; the first that fails ends it.
SendPiece(m) ==
  /\ answer[m].state = "sending" /\ answer[m].left # <<>> /\ Sendable(m)
  /\ seen' = Show(m, Head(answer[m].left))
  /\ answer' = [answer EXCEPT ![m].left = Tail(@)]
  /\ UNCHANGED <<server, poller, discord, channel, accepted, faults, crashes>>
PieceFails(m) ==
  /\ answer[m].state = "sending" /\ answer[m].left # <<>>
  /\ IF Sendable(m) THEN Fault ELSE UNCHANGED faults
  /\ answer' = [answer EXCEPT ![m].state = "cut"]
  /\ UNCHANGED <<server, poller, discord, channel, seen, accepted, crashes>>
Answered(m) == /\ answer[m].state = "sending" /\ answer[m].left = <<>>
               /\ answer' = [answer EXCEPT ![m].state = "done"]
               /\ UNCHANGED <<server, poller, discord, channel, seen, accepted, faults, crashes>>

\* The gateway dies and is started again.
Crash ==
  /\ crashes < MaxCrashes /\ crashes' = crashes + 1
  /\ poller' = NewPoller /\ discord' = Offline /\ channel' = <<>>
  /\ answer' = [m \in Messages |-> IF answer[m].state \in {"routed", "sending"}
                                   THEN [answer[m] EXCEPT !.state = "died"] ELSE answer[m]]
  /\ UNCHANGED <<server, seen, accepted, faults>>

Init ==
  /\ server = [arrived |-> 0, confirmed |-> 0] /\ poller = NewPoller /\ discord = Offline
  /\ channel = <<>> /\ answer = [m \in Messages |-> Waiting]
  /\ seen = [m \in Messages |-> <<>>] /\ accepted = [m \in Messages |-> 0]
  /\ faults = 0 /\ crashes = 0

Next ==
  \/ Arrive \/ Poll \/ Retry \/ TakeUpdate \/ SendUpdate \/ Ready \/ Disconnect \/ Route \/ Crash
  \/ \E m \in Messages : \/ Push(m) \/ SendPushed(m) \/ Refuse(m) \/ Respond(m)
                         \/ SendPiece(m) \/ PieceFails(m) \/ Answered(m)
Spec == Init /\ [][Next]_vars

----------------------------------------------------------------------------
(* Properties                                                              *)

\* What is confirmed to Telegram has been accepted, or is not answered to anyone:
\* whenever the gateway dies, an update that was never accepted comes again.
ConfirmedIsAccepted == \A u \in Plain \cap Polled : u <= server.confirmed => accepted[u] > 0

\* A message is accepted, and answered, once in the life of a gateway, and one
\* more time at most for each death.
AnsweredOnce ==
  \A m \in Messages : /\ accepted[m] <= 1 + (IF m \in Polled THEN crashes ELSE 0)
                      /\ Len(seen[m]) <= accepted[m]

Joined(pieces) == LET upto[i \in 0..Len(pieces)] == IF i = 0 THEN <<>> ELSE upto[i - 1] \o pieces[i]
                  IN upto[Len(pieces)]
Begins(s, t) == Len(s) <= Len(t) /\ s = SubSeq(t, 1, Len(s))
\* What a user is sent of an answer is its beginning, without a gap; all of it, if
\* nothing failed.
AnswersWhole ==
  \A m \in Messages :
     /\ \A i \in 1..Len(seen[m]) : Begins(Joined(seen[m][i]), Text)
     /\ answer[m].state = "done" => Joined(seen[m][Len(seen[m])]) = Text

\* The pieces of any text are the text; each leaves room for its number, none is
\* empty, and a line is only cut when it does not fit.
SplitWhole ==
  \A n \in 0..MaxText : \A t \in [1..n -> {"x", "n"}] :
    LET p == Split(t)
    IN /\ Joined(p) = t
       /\ \A i \in 1..Len(p) : /\ Len(p) > 1 => Len(p[i]) \in 1..Width
                               /\ i < Len(p) => \/ p[i][Len(p[i])] = "n"
                                                \/ \A k \in DOMAIN p[i] : p[i][k] # "n"

ChatsSound == /\ ConfirmedIsAccepted /\ AnsweredOnce /\ AnswersWhole
              /\ Init => SplitWhole

\* Not kept (README): a message that the router refuses gets no answer at all, and
\* one that was accepted is lost with the gateway once Telegram has confirmed it.
AcceptedIsAnswered ==
  \A m \in Messages : answer[m].state # "silent"
NothingIsLost ==
  \A u \in Plain \cap Polled : u <= server.confirmed => answer[u].state # "new" \/ \E i \in DOMAIN channel : channel[i] = u
=============================================================================
