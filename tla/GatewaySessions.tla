--------------------------- MODULE GatewaySessions ---------------------------
(***************************************************************************)
(* The session router of hermes-gateway: one agent task per chat, found or *)
(* created by the messages that name its key, ended when every sender of   *)
(* its channel is gone.  Messages are routed by tasks of their own, and a  *)
(* cleanup task evicts the sessions that were idle for too long.  The      *)
(* runtime has several threads: only what happens under one lock of the    *)
(* session map is a single step.                                           *)
(***************************************************************************)
EXTENDS Integers, Sequences, FiniteSets

CONSTANTS Msgs, Keys, KeyOf,
          Tasks,         \* the session tasks there can be
          MaxSessions, Timeout, Capacity,   \* of the code's configuration
          Word,          \* clock readings are subtracted modulo Word
          MaxTime,       \* bound of the clock
          None,
          Panics         \* may an agent panic?

ASSUME SessionAssumption ==
  /\ KeyOf \in [Msgs -> Keys] /\ None \notin Tasks \cup Msgs
  /\ MaxSessions \in Nat \ {0} /\ Timeout \in Nat \ {0} /\ Capacity \in Nat \ {0}
  /\ MaxTime \in Nat /\ Word \in Nat /\ Word > MaxTime + Timeout
  /\ Panics \in BOOLEAN

VARIABLES sessions,    \* the task whose sender is in the map
          task,
          msg,         \* the routing of each message
          cleaner,     \* the retain call of the cleanup task, and the tasks whose
                       \* senders such calls have dropped so far
          clock        \* epoch seconds
vars == <<sessions, task, msg, cleaner, clock>>

NoTask == [state |-> "unborn", key |-> None, queue |-> <<>>, cur |-> None, active |-> 0]
Open(k) == sessions[k] # None
Count == Cardinality({k \in Keys : Open(k)})
Alive(t) == task[t].state \in {"idle", "busy"}
At(m, pc) == msg[m].pc = pc
Answer(m, a) == [msg EXCEPT ![m] = [pc |-> "answered", tx |-> None, answer |-> a]]

Init ==
  /\ sessions = [k \in Keys |-> None]
  /\ task = [t \in Tasks |-> NoTask]
  /\ msg = [m \in Msgs |-> [pc |-> "new", tx |-> None, answer |-> "none"]]
  /\ cleaner = [now |-> 0, todo |-> {}, evicted |-> {}]
  /\ clock = 0

Advance ==
  /\ clock < MaxTime
  /\ clock' = clock + 1
  /\ UNCHANGED <<sessions, task, msg, cleaner>>

----------------------------------------------------------------------------
(* route                                                                   *)

\* The event loop, or a request, starts a task for the message.
Arrive(m) ==
  /\ At(m, "new")
  /\ msg' = [msg EXCEPT ![m].pc = "check"]
  /\ UNCHANGED <<sessions, task, cleaner, clock>>

Full == Count >= MaxSessions

\* The limit is looked at before the entry of the key is locked.
CheckLimit(m) ==
  /\ At(m, "check")
  /\ \/ Full /\ msg' = Answer(m, "full")
     \/ ~Full /\ msg' = [msg EXCEPT ![m].pc = "enter"]
  /\ UNCHANGED <<sessions, task, cleaner, clock>>

Found(m) ==
  /\ At(m, "enter") /\ Open(KeyOf[m])
  /\ LET t == sessions[KeyOf[m]] IN
       /\ task' = [task EXCEPT ![t].active = clock]
       /\ msg' = [msg EXCEPT ![m].pc = "send", ![m].tx = t]
  /\ UNCHANGED <<sessions, cleaner, clock>>

\* A session task is spawned for the key, its sender put into the map.
Unborn == {t \in Tasks : task[t].state = "unborn"}
Spawn(m) ==
  /\ Unborn # {}
  /\ LET t == CHOOSE x \in Unborn : TRUE IN
       /\ task' = [task EXCEPT ![t] = [NoTask EXCEPT !.state = "idle", !.key = KeyOf[m],
                                                     !.active = clock]]
       /\ sessions' = [sessions EXCEPT ![KeyOf[m]] = t]
       /\ msg' = [msg EXCEPT ![m].pc = "send", ![m].tx = t]
  /\ UNCHANGED <<cleaner, clock>>

BadCreate(m) ==
  /\ At(m, "enter")
  /\ Spawn(m)
Create(m) ==
  /\ At(m, "enter") /\ ~Open(KeyOf[m])
  /\ Spawn(m)

\* build_session_agent fails.
CreateFails(m) ==
  /\ At(m, "enter") /\ ~Open(KeyOf[m])
  /\ msg' = Answer(m, "error")
  /\ UNCHANGED <<sessions, task, cleaner, clock>>

\* The channel holds Capacity messages; a sender waits for room.
HasRoom(t) == Len(task[t].queue) < Capacity
Send(m) ==
  /\ At(m, "send") /\ Alive(msg[m].tx) /\ HasRoom(msg[m].tx)
  /\ task' = [task EXCEPT ![msg[m].tx].queue = Append(@, m)]
  /\ msg' = [msg EXCEPT ![m].pc = "waiting", ![m].tx = None]
  /\ UNCHANGED <<sessions, cleaner, clock>>

\* The receiver is gone: whatever session the key has by now is removed.
SendFails(m) ==
  /\ At(m, "send") /\ ~Alive(msg[m].tx)
  /\ sessions' = [sessions EXCEPT ![KeyOf[m]] = None]
  /\ msg' = Answer(m, "gone")
  /\ UNCHANGED <<task, cleaner, clock>>

----------------------------------------------------------------------------
(* session_task_with_agent                                                 *)

Take(t) ==
  /\ task[t].state = "idle" /\ task[t].queue # <<>>
  /\ task' = [task EXCEPT ![t].state = "busy", ![t].cur = Head(task[t].queue),
                          ![t].queue = Tail(@), ![t].active = clock]
  /\ UNCHANGED <<sessions, msg, cleaner, clock>>

\* The agent returns, with a text or an error, and the message is answered.
Reply(t) ==
  /\ task[t].state = "busy"
  /\ msg' = Answer(task[t].cur, "reply")
  /\ task' = [task EXCEPT ![t].state = "idle", ![t].cur = None]
  /\ UNCHANGED <<sessions, cleaner, clock>>

\* The agent panics: its receiver is dropped, with every message in it.
BadHeld(t) == {task[t].cur}
Held(t) == {task[t].cur} \cup {task[t].queue[i] : i \in 1..Len(task[t].queue)}
Panic(t) ==
  /\ Panics /\ task[t].state = "busy"
  /\ msg' = [m \in Msgs |-> IF m \in Held(t) THEN Answer(m, "dropped")[m] ELSE msg[m]]
  /\ task' = [task EXCEPT ![t].state = "dead", ![t].cur = None, ![t].queue = <<>>]
  /\ UNCHANGED <<sessions, cleaner, clock>>

\* recv returns None once the channel is empty and has no sender: neither the
\* one in the map nor a clone that a message is still being routed with.
BadHasSender(t) == \E k \in Keys : sessions[k] = t
HasSender(t) == (\E k \in Keys : sessions[k] = t) \/ (\E m \in Msgs : msg[m].tx = t)
End(t) ==
  /\ task[t].state = "idle" /\ task[t].queue = <<>> /\ ~HasSender(t)
  /\ task' = [task EXCEPT ![t].state = "ended"]
  /\ UNCHANGED <<sessions, msg, cleaner, clock>>

----------------------------------------------------------------------------
(* cleanup_stale: the time is read once, then the entries are visited.  A  *)
(* release build subtracts the readings modulo the word.                   *)

Stale(t) == (cleaner.now - task[t].active) % Word >= Timeout

Cleanup ==
  /\ cleaner.todo = {} /\ \E k \in Keys : Open(k)
  /\ cleaner' = [cleaner EXCEPT !.now = clock, !.todo = Keys]
  /\ UNCHANGED <<sessions, task, msg, clock>>

Visit(k) ==
  /\ k \in cleaner.todo
  /\ IF Open(k) /\ Stale(sessions[k])
     THEN /\ sessions' = [sessions EXCEPT ![k] = None]
          /\ cleaner' = [cleaner EXCEPT !.todo = @ \ {k}, !.evicted = @ \cup {sessions[k]}]
     ELSE /\ cleaner' = [cleaner EXCEPT !.todo = @ \ {k}]
          /\ UNCHANGED sessions
  /\ UNCHANGED <<task, msg, clock>>

----------------------------------------------------------------------------
Route(m) == CheckLimit(m) \/ Found(m) \/ Create(m) \/ CreateFails(m) \/ Send(m) \/ SendFails(m)
Work(t) == Take(t) \/ Reply(t) \/ End(t)
Sweep == Cleanup \/ \E k \in Keys : Visit(k)

Next == \/ Advance \/ Sweep
        \/ \E m \in Msgs : Arrive(m) \/ Route(m)
        \/ \E t \in Tasks : Work(t) \/ Panic(t)

\* The runtime polls every task that can run, agents return, the interval
\* of the cleanup task fires again and again, and a full channel serves
\* those who wait for room in turn (tokio queues them).
Fairness == /\ \A m \in Msgs : SF_vars(Route(m))
            /\ \A t \in Tasks : WF_vars(Work(t))
            /\ WF_vars(Sweep)

Spec == Init /\ [][Next]_vars
FairSpec == Spec /\ Fairness

----------------------------------------------------------------------------
(* Properties.                                                             *)

Answers == {"none", "full", "error", "gone", "dropped", "reply"}
TypeOK ==
  /\ sessions \in [Keys -> Tasks \cup {None}]
  /\ task \in [Tasks -> [state : {"unborn", "idle", "busy", "dead", "ended"},
                         key : Keys \cup {None}, queue : Seq(Msgs), cur : Msgs \cup {None},
                         active : 0..MaxTime]]
  /\ msg \in [Msgs -> [pc : {"new", "check", "enter", "send", "waiting", "answered"},
                       tx : Tasks \cup {None}, answer : Answers]]
  /\ cleaner \in [now : 0..MaxTime, todo : SUBSET Keys, evicted : SUBSET Tasks]
  /\ clock \in 0..MaxTime
  /\ \A t \in Tasks : Len(task[t].queue) <= Capacity

Panicked(k) == \E t \in Tasks : task[t].state = "dead" /\ task[t].key = k

\* However many messages are routed at once, their senders and the map agree on
\* one agent for a chat: two work on it at a time, each with half of its
\* history, only when the cleanup has evicted one of them or an agent of the
\* chat has panicked.
OneAtATime ==
  \A t, u \in Tasks :
    (t # u /\ task[t].state = "busy" /\ task[u].state = "busy" /\ task[t].key = task[u].key)
       => t \in cleaner.evicted \/ u \in cleaner.evicted \/ Panicked(task[t].key)

\* Neither eviction nor the end of a task loses a message: one that was accepted
\* is held by a task that lives until it is answered, and only an agent that
\* panicked leaves messages of its chat without a reply.
OnlyPanicsLose ==
  \A m \in Msgs :
    /\ At(m, "waiting") => \E t \in Tasks : Alive(t) /\ m \in Held(t)
    /\ msg[m].answer \in {"dropped", "gone"} => Panicked(KeyOf[m])

\* A session that the cleanup evicts was idle past the timeout, unless it was used
\* after the pass had read the clock: then the difference wraps.
EvictsIdleOrUsed ==
  [][\A k \in Keys : Visit(k) /\ sessions'[k] # sessions[k]
                       => \/ clock - task[sessions[k]].active >= Timeout
                          \/ task[sessions[k]].active > cleaner.now]_vars

\* Every message is answered, if only with an error.
EveryMessageAnswered == \A m \in Msgs : At(m, "check") ~> At(m, "answered")

\* A session task that nobody can reach any more ends.
UnreachableEnds ==
  \A t \in Tasks : (Alive(t) /\ \A k \in Keys : sessions[k] # t) ~> ~Alive(t)

\* A session that stays idle is evicted.
IdleEvicted ==
  \A k \in Keys : (Open(k) /\ clock - task[sessions[k]].active >= Timeout)
                    ~> (~Open(k) \/ clock - task[sessions[k]].active < Timeout)

\* Sessions come to rest: whatever evictions, new sessions and panics come
\* between its steps, each message is answered, and no session or task of a
\* session stays behind that is not used.
SessionsSettle == EveryMessageAnswered /\ UnreachableEnds /\ IdleEvicted

----------------------------------------------------------------------------
(* Promises that the code keeps in part: the README names, for each, the   *)
(* constants under which TLC finds it broken.                              *)

\* A chat has one agent at a time.
OneAgentPerChat ==
  \A t, u \in Tasks : (t # u /\ task[t].state = "busy" /\ task[u].state = "busy")
                         => task[t].key # task[u].key

\* cleanup_stale removes sessions that have been idle past the timeout, and no
\* others.
EvictsOnlyIdle ==
  [][\A k \in Keys : Visit(k) /\ sessions'[k] # sessions[k]
                       => clock - task[sessions[k]].active >= Timeout]_vars
=============================================================================
