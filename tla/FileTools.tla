------------------------------ MODULE FileTools ------------------------------
(***************************************************************************)
(* A batch of tool calls on files.  should_parallelize looks at the paths  *)
(* as the calls spell them; the calls then run as tasks on several threads *)
(* or one after the other.  write_file truncates its file and writes it,   *)
(* patch reads it, writes a copy and renames it, read_file reads it.  The  *)
(* process may be killed at any point.                                     *)
(***************************************************************************)
EXTENDS Naturals, Sequences, SequencesExt

CONSTANTS Paths,     \* as calls spell them, in components; no two of one file: else
                     \* two calls that write it run together and one is lost
          Initial,   \* the lines of each file before the batch
          Contents,  \* what write_file writes
          Edits,     \* what patch is asked to replace: [old, new, all]
          Offsets,   \* where read_file begins
          MaxBatch, MaxKills  \* bounds

VARIABLES batch,  \* the calls the model asked for
          mode,   \* how they are run
          files,  \* the lines of each file
          step,   \* of each call: where it is and the text it holds
          result, \* of each call
          killed
fileVars == <<batch, mode, files, step, result, killed>>

Calls == [tool : {"write_file"}, path : Paths, arg : Contents]
         \cup [tool : {"patch"}, path : Paths, arg : Edits]
         \cup [tool : {"read_file"}, path : Paths, arg : Offsets]
         \cup {[tool |-> "clarify", path |-> <<>>, arg |-> "question"]}

\* resolve_path: the file a spelling names.
Resolve(p) == SelectSeq(p, LAMBDA c : c # ".")
Exists(fs, p) == Resolve(p) \in DOMAIN fs

----------------------------------------------------------------------------
(* What a call does to its file when it is alone with it                   *)

\* Lines are words; "a " is "a" in another spacing, found when nothing matches
\* exactly.
Spaced == [a |-> "a "]
Exact(text, old) == {i \in DOMAIN text : text[i] = old}
Matches(text, old) ==
  IF Exact(text, old) # {} \/ old \notin DOMAIN Spaced THEN Exact(text, old)
  ELSE Exact(text, Spaced[old])

Refusal(text, edit) ==
  LET found == Matches(text, edit.old) IN
    IF found = {} THEN "not found"
    ELSE IF ~edit.all /\ \E i, j \in found : i # j THEN "multiple matches" ELSE "none"
Patched(text, edit) ==
  [i \in DOMAIN text |-> IF i \in Matches(text, edit.old) THEN edit.new ELSE text[i]]

\* read_file: the lines from the offset on.  A slice that begins behind the last
\* line panics; one that begins right after it is empty.
ReadFrom(text, offset) ==
  IF offset - 1 > Len(text) THEN [kind |-> "panic", text |-> <<>>]
  ELSE [kind |-> "ok", text |-> SubSeq(text, offset, Len(text))]

Ok == [kind |-> "ok", text |-> <<>>]
Failed(why) == [kind |-> why, text |-> <<>>]
NoResult == Failed("none")

Put(fs, f, text) == [x \in DOMAIN fs \cup {f} |-> IF x = f THEN text ELSE fs[x]]

----------------------------------------------------------------------------
(* The batch                                                               *)

Init ==
  /\ batch = <<>> /\ mode = "idle" /\ files = Initial
  /\ step = <<>> /\ result = <<>> /\ killed = 0

Writes(c) == c.tool \in {"write_file", "patch"}
Conflict(p, q) == IsPrefix(p, q) \/ IsPrefix(q, p)
Together(b) ==
  /\ Len(b) > 1
  /\ \A i \in DOMAIN b : b[i].tool # "clarify"
  /\ \A i, j \in DOMAIN b :
       i < j /\ Writes(b[i]) /\ Writes(b[j]) => ~Conflict(b[i].path, b[j].path)

Start(b) ==
  /\ mode = "idle" /\ batch' = b
  /\ mode' = IF Together(b) THEN "together" ELSE "in turn"
  /\ step' = [i \in DOMAIN b |-> [at |-> "ready", text |-> <<>>]]
  /\ result' = [i \in DOMAIN b |-> NoResult]
  /\ UNCHANGED <<files, killed>>

Done(i) == step[i].at = "done"
Runs(i) == \/ mode = "together"
           \/ mode = "in turn" /\ \A j \in 1..(i - 1) : Done(j)

\* Call i goes on to `at`, holding text; or it ends with r.
On(i, at, text) == step' = [step EXCEPT ![i] = [at |-> at, text |-> text]] /\ UNCHANGED result
End(i, r) == /\ step' = [step EXCEPT ![i] = [at |-> "done", text |-> <<>>]]
             /\ result' = [result EXCEPT ![i] = r]

\* fs::write empties the file and then fills it.
Truncate(i) ==
  LET c == batch[i] IN
    /\ Runs(i) /\ c.tool = "write_file" /\ step[i].at = "ready"
    /\ files' = Put(files, Resolve(c.path), <<>>)
    /\ On(i, "emptied", c.arg)
    /\ UNCHANGED <<batch, mode, killed>>
Fill(i) ==
  /\ Runs(i) /\ step[i].at = "emptied"
  /\ files' = Put(files, Resolve(batch[i].path), step[i].text)
  /\ End(i, Ok)
  /\ UNCHANGED <<batch, mode, killed>>

\* patch reads the file and works on what it has read.
PatchReads(i) ==
  LET c == batch[i]
      text == files[Resolve(c.path)]
  IN /\ Runs(i) /\ c.tool = "patch" /\ step[i].at = "ready"
     /\ IF ~Exists(files, c.path) THEN End(i, Failed("no file"))
        ELSE IF Refusal(text, c.arg) # "none" THEN End(i, Failed(Refusal(text, c.arg)))
        ELSE On(i, "copied", Patched(text, c.arg))
     /\ UNCHANGED <<batch, mode, files, killed>>

\* atomic_write: the copy has a name of its own and is renamed.
Rename(i) ==
  /\ Runs(i) /\ step[i].at = "copied"
  /\ files' = Put(files, Resolve(batch[i].path), step[i].text)
  /\ End(i, Ok)
  /\ UNCHANGED <<batch, mode, killed>>

\* A panic ends the task of this call; in turn, it ends the agent.
Read(i) ==
  LET c == batch[i]
      r == IF Exists(files, c.path) THEN ReadFrom(files[Resolve(c.path)], c.arg)
           ELSE Failed("no file")
  IN /\ Runs(i) /\ c.tool = "read_file" /\ step[i].at = "ready"
     /\ End(i, r)
     /\ mode' = IF mode = "in turn" /\ r.kind = "panic" THEN "died" ELSE mode
     /\ UNCHANGED <<batch, files, killed>>

Clarify(i) ==
  /\ Runs(i) /\ batch[i].tool = "clarify" /\ step[i].at = "ready"
  /\ End(i, Ok)
  /\ UNCHANGED <<batch, mode, files, killed>>

Finish ==
  /\ mode \in {"together", "in turn"} /\ \A i \in DOMAIN batch : Done(i)
  /\ mode' = "answered"
  /\ UNCHANGED <<batch, files, step, result, killed>>

Kill ==
  /\ mode \in {"together", "in turn"} /\ killed < MaxKills
  /\ killed' = killed + 1 /\ mode' = "killed"
  /\ UNCHANGED <<batch, files, step, result>>

Next ==
  \/ \E n \in 1..MaxBatch : \E b \in [1..n -> Calls] : Start(b)
  \/ \E i \in DOMAIN batch : \/ Truncate(i) \/ Fill(i) \/ PatchReads(i) \/ Rename(i)
                             \/ Read(i) \/ Clarify(i)
  \/ Finish \/ Kill

Spec == Init /\ [][Next]_fileVars

----------------------------------------------------------------------------
(* Properties                                                              *)

\* What the first n calls do when each is over before the next one starts.
After(fs, c) ==
  LET f == Resolve(c.path) IN
    CASE c.tool = "write_file" -> [files |-> Put(fs, f, c.arg), result |-> Ok]
      [] c.tool = "clarify" -> [files |-> fs, result |-> Ok]
      [] f \notin DOMAIN fs -> [files |-> fs, result |-> Failed("no file")]
      [] c.tool = "read_file" -> [files |-> fs, result |-> ReadFrom(fs[f], c.arg)]
      [] Refusal(fs[f], c.arg) # "none" -> [files |-> fs, result |-> Failed(Refusal(fs[f], c.arg))]
      [] OTHER -> [files |-> Put(fs, f, Patched(fs[f], c.arg)), result |-> Ok]
InOrder ==
  LET O[n \in 0..Len(batch)] == IF n = 0 THEN [files |-> Initial, result |-> NoResult]
                                ELSE After(O[n - 1].files, batch[n])
  IN O

\* Who reads a file beside its writer may find it emptied, or what is written later.
Watched(i) == batch[i].tool = "read_file" /\ \E j \in DOMAIN batch :
                Writes(batch[j]) /\ Resolve(batch[j].path) = Resolve(batch[i].path)

\* A batch, in parallel or not, leaves the files, and answers its calls, as if
\* they had been executed in the order in which the model asked for them.
AsInOrder ==
  mode = "answered" =>
    /\ files = InOrder[Len(batch)].files
    /\ \A i \in DOMAIN batch : ~(Together(batch) /\ Watched(i)) => result[i] = InOrder[i].result

\* Whenever the process dies, a file is as some of the calls left it, or is the
\* one that write_file had emptied; patch leaves the old file or the new one.
WholeFiles ==
  \A f \in DOMAIN files :
    \/ \E n \in DOMAIN InOrder : f \in DOMAIN InOrder[n].files /\ files[f] = InOrder[n].files[f]
    \/ \E i \in DOMAIN batch : /\ batch[i].tool = "write_file" /\ Resolve(batch[i].path) = f
                               /\ step[i].at = "emptied" /\ files[f] = <<>>

FilesSound == AsInOrder /\ WholeFiles
=============================================================================
