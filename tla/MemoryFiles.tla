----------------------------- MODULE MemoryFiles ------------------------------
(***************************************************************************)
(* What an agent keeps between conversations (hermes-memory and the memory *)
(* tools): two files of entries, for notes and for the user, that every    *)
(* agent of the home directory reads and rewrites whole, the snapshot an   *)
(* agent has of them, and the system prompt made of that snapshot.         *)
(*                                                                         *)
(* memory_write reads the file, changes the text, cuts it to the newest    *)
(* entries that fit, writes it, refreshes the snapshot, and the prompt     *)
(* follows.  A text is the sequence of its entries.  A write that fails    *)
(* has emptied the file; none leaves half a text.                          *)
(***************************************************************************)
EXTENDS Naturals, Sequences

CONSTANTS Agents,
          Writers,     \* the agents that write
          Keys, First, \* the files, and the one that is read first
          Entries, Size,
          Room,        \* characters a file may have: [Keys -> Nat]
          Between,     \* those of the separator of two entries
          MaxWrites, MaxFaults

VARIABLES file,      \* what is on disk
          agent,     \* [pc, key, op, old, entry, text, snap, system, segments, wrote]
          ledger,    \* history: what was written, and never taken back
          writes, faults
vars == <<file, agent, ledger, writes, faults>>

Nothing == [k \in Keys |-> <<>>]
Has(text, e) == \E i \in DOMAIN text : text[i] = e
Fault == faults < MaxFaults /\ faults' = faults + 1

----------------------------------------------------------------------------
(* The texts                                                               *)

Length(text) ==
  LET upto[i \in 0..Len(text)] ==
        IF i = 0 THEN 0
        ELSE upto[i - 1] + Size[text[i]] + (IF i = 1 THEN 0 ELSE Between)
  IN upto[Len(text)]
Newest(text, i) == SubSeq(text, i, Len(text))

\* The oldest entries go, one after the other, until the rest fits.
Truncate(text, max) ==
  LET fit == {i \in 1..(Len(text) + 1) : Length(Newest(text, i)) <= max}
  IN Newest(text, CHOOSE i \in fit : \A j \in fit : i <= j)

FirstWith(text, e) == CHOOSE i \in DOMAIN text : text[i] = e /\ \A j \in 1..(i - 1) : text[j] # e
Added(text, e) == Append(text, e)
Replaced(text, old, e) == [text EXCEPT ![FirstWith(text, old)] = e]
Removed(text, old) ==
  LET i == FirstWith(text, old) IN SubSeq(text, 1, i - 1) \o Newest(text, i + 1)

----------------------------------------------------------------------------
(* An agent and its memory tool                                            *)

\* A prompt, and the segments of it that the provider may cache, are made of the
\* snapshot when a turn begins, when memory_write went well, and at a compression.
Showing(rec, snap) == [rec EXCEPT !.snap = snap, !.system = snap, !.segments = snap]
\* A refresh that cannot read the second file has the first already.
Halfway(snap) == [snap EXCEPT ![First] = file[First]]

NewAgent(snap) ==
  [pc |-> "idle", key |-> First, op |-> "none", old |-> "none", entry |-> "none", text |-> <<>>,
   snap |-> snap, system |-> Nothing, segments |-> Nothing, wrote |-> FALSE]

Init == /\ file = Nothing
        /\ agent = [a \in Agents |-> NewAgent(Nothing)]
        /\ ledger = Nothing /\ writes = 0 /\ faults = 0

Load(a) ==
  /\ agent[a].pc = "idle"
  /\ agent' = [agent EXCEPT ![a] = NewAgent(file)]
  /\ UNCHANGED <<file, ledger, writes, faults>>

BeginTurn(a) ==
  /\ agent[a].pc = "idle"
  /\ agent' = [agent EXCEPT ![a] = [Showing(@, @.snap) EXCEPT !.pc = "thinking", !.wrote = FALSE]]
  /\ UNCHANGED <<file, ledger, writes, faults>>

EndTurn(a) ==
  /\ agent[a].pc = "thinking"
  /\ agent' = [agent EXCEPT ![a].pc = "idle"]
  /\ UNCHANGED <<file, ledger, writes, faults>>

\* What a call makes of a text.
Changed(text, op, old, e) == CASE op = "add" -> Added(text, e)
                               [] op = "replace" -> Replaced(text, old, e)
                               [] op = "remove" -> Removed(text, old)

\* memory_write reads the file; without the old text in it, it only reports an error.
Prepare(a, k, op, old, e) ==
  /\ agent[a].pc = "thinking" /\ a \in Writers /\ writes < MaxWrites
  /\ op # "add" => Has(file[k], old)
  /\ agent' = [agent EXCEPT ![a] =
       [@ EXCEPT !.pc = "write", !.key = k, !.op = op, !.old = old, !.entry = e,
                 !.text = Changed(file[k], op, old, e), !.wrote = FALSE]]
  /\ writes' = writes + 1
  /\ UNCHANGED <<file, ledger, faults>>

\* The same call on all that was written, of which the file has the last entries.
Recorded(a) ==
  LET rec == agent[a]   all == ledger[rec.key]
      gone == Len(all) - Len(file[rec.key])
  IN SubSeq(all, 1, gone) \o Changed(Newest(all, gone + 1), rec.op, rec.old, rec.entry)

Write(a) ==
  /\ agent[a].pc = "write"
  /\ file' = [file EXCEPT ![agent[a].key] = Truncate(agent[a].text, Room[agent[a].key])]
  /\ ledger' = [ledger EXCEPT ![agent[a].key] = Recorded(a)]
  /\ agent' = [agent EXCEPT ![a].pc = "refresh"]
  /\ UNCHANGED <<writes, faults>>

WriteFails(a) ==
  /\ agent[a].pc = "write" /\ Fault
  /\ file' = [file EXCEPT ![agent[a].key] = <<>>]
  /\ agent' = [agent EXCEPT ![a].pc = "thinking"]
  /\ UNCHANGED <<ledger, writes>>

Refresh(a) ==
  /\ agent[a].pc = "refresh"
  /\ agent' = [agent EXCEPT ![a] = [Showing(@, file) EXCEPT !.pc = "thinking", !.wrote = TRUE]]
  /\ UNCHANGED <<file, ledger, writes, faults>>

\* The tool reports an error: what the prompt says stays, though the file is written.
RefreshFails(a) ==
  /\ agent[a].pc = "refresh" /\ Fault
  /\ \E snap \in {agent[a].snap, Halfway(agent[a].snap)} :
       agent' = [agent EXCEPT ![a].pc = "thinking", ![a].snap = snap]
  /\ UNCHANGED <<file, ledger, writes>>

\* A failing refresh is ignored here: the prompt is made of what the snapshot is.
Compress(a) ==
  /\ agent[a].pc = "thinking"
  /\ \E snap \in {file, agent[a].snap, Halfway(agent[a].snap)} :
       /\ IF snap = file THEN faults' = faults ELSE Fault
       /\ agent' = [agent EXCEPT ![a] = Showing(@, snap)]
  /\ UNCHANGED <<file, ledger, writes>>

Next ==
  \E a \in Agents :
    \/ Load(a) \/ BeginTurn(a) \/ EndTurn(a)
    \/ \E k \in Keys, e \in Entries :
         \/ Prepare(a, k, "add", e, e) \/ Prepare(a, k, "remove", e, e)
         \/ \E old \in Entries : Prepare(a, k, "replace", old, e)
    \/ Write(a) \/ WriteFails(a) \/ Refresh(a) \/ RefreshFails(a) \/ Compress(a)

Spec == Init /\ [][Next]_vars

----------------------------------------------------------------------------
(* Properties                                                              *)

\* A file is the end of what was written to it: what is missing is older than all
\* that is there, and nothing that was replaced or removed comes back, whatever
\* failed in between.  This is of an agent that is alone in writing: the file is
\* read, changed and written in calls of their own (see the README).
KeepsTheNewest ==
  \A k \in Keys : \E i \in 1..(Len(ledger[k]) + 1) : file[k] = Newest(ledger[k], i)

\* What the tool says it wrote is in the very next request to the provider, unless
\* the entry alone is too long for the file, and the prompt and its cached segments
\* tell the same.
PromptTells ==
  \A a \in Agents :
    agent[a].pc = "thinking" =>
      /\ agent[a].system = agent[a].segments
      /\ agent[a].wrote /\ agent[a].op = "add" /\ Size[agent[a].entry] <= Room[agent[a].key] =>
           Has(agent[a].system[agent[a].key], agent[a].entry)

MemorySound == KeepsTheNewest /\ PromptTells
=============================================================================
