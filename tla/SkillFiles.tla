------------------------------ MODULE SkillFiles ------------------------------
(***************************************************************************)
(* The skills of hermes-skills: directories with a SKILL.md that declares  *)
(* the name of the skill, the list every process keeps of them and reads   *)
(* anew after each operation of its own, the skills chosen for a turn, and *)
(* the list a managed run gets.                                            *)
(*                                                                         *)
(* Skill names are numbers, in the order of the names; a directory has the *)
(* number of the name it was created for.  The order in which a directory  *)
(* tree is walked is left open.                                            *)
(***************************************************************************)
EXTENDS Naturals, FiniteSets, SequencesExt

CONSTANTS Procs, Names,
          Most, Budget,   \* skills, and characters of them, added to a turn
          Lengths, Scores,   \* characters of a skill, words it shares with a message
          MaxOps, MaxFaults

VARIABLES dir,       \* for a directory: Gone, Bare, Broken or the name in its SKILL.md
          list,      \* what a process knows: for a name, where it was found, or 0
          shown,     \* has the process seen all since its last successful operation?
          ops, faults
Gone == 0
Bare == 1000       \* a directory without its file
Broken == 1001     \* a file that is not a skill
vars == <<dir, list, shown, ops, faults>>

Skills(d) == {n \in Names : d[n] \in Names}     \* the directories with a readable skill
Fault == faults < MaxFaults /\ faults' = faults + 1

\* Reading all: one SKILL.md that is not one fails it.
Readable(d) == \A n \in Names : d[n] # Broken
Discovered(d) ==
  {l \in [Names -> Names \cup {0}] :
     \A n \in Names : LET places == {q \in Skills(d) : d[q] = n} IN
       IF places = {} THEN l[n] = 0 ELSE l[n] \in places}

Init == /\ dir \in [Names -> {Gone} \cup Names]
        /\ \A n \in Names : dir[n] \in {Gone, n}
        /\ list \in [Procs -> Discovered(dir)]
        /\ shown = [p \in Procs |-> TRUE]
        /\ ops = 0 /\ faults = 0

----------------------------------------------------------------------------
(* The operations, each under the write lock of its process                *)

\* After its change an operation reads all again; when it cannot, it reports an
\* error, keeps the list it had, and the change is made all the same.
Reload(p, d) ==
  /\ ops < MaxOps /\ ops' = ops + 1 /\ faults' = faults
  /\ dir' = d
  /\ IF Readable(d)
     THEN /\ \E l \in Discovered(d) : list' = [list EXCEPT ![p] = l]
          /\ shown' = [q \in Procs |-> IF q = p THEN TRUE ELSE shown[q] /\ d = dir]
     ELSE list' = list /\ shown' = [q \in Procs |-> shown[q] /\ q # p /\ d = dir]

\* An operation that fails on its way leaves the directory as it is then.
Fails(d) ==
  /\ ops < MaxOps /\ ops' = ops + 1 /\ Fault
  /\ dir' = d
  /\ shown' = [q \in Procs |-> shown[q] /\ d = dir]
  /\ UNCHANGED list

\* The name in the content is not compared with that of the directory.
Create(p, n, content) ==
  /\ dir[n] = Gone
  /\ \/ Reload(p, [dir EXCEPT ![n] = content])
     \/ \E left \in {Gone, Bare, Broken} : Fails([dir EXCEPT ![n] = left])

\* What the process knows may be gone by now.
Found(p, n) == list[p][n] # 0 /\ dir[list[p][n]] # Gone

\* The file that is written is the one the process found under that name.
Edit(p, n, content) ==
  /\ Found(p, n)
  /\ \/ Reload(p, [dir EXCEPT ![list[p][n]] = content])
     \/ Fails([dir EXCEPT ![list[p][n]] = Broken])

Delete(p, n) ==
  /\ Found(p, n)
  /\ \/ Reload(p, [dir EXCEPT ![list[p][n]] = Gone])
     \/ Fails(dir)

\* Somebody edits the files.
ByHand(n) ==
  /\ \E c \in {Gone, Broken} \cup Names : c # dir[n] /\ dir' = [dir EXCEPT ![n] = c]
  /\ ops < MaxOps /\ ops' = ops + 1
  /\ shown' = [q \in Procs |-> FALSE]
  /\ UNCHANGED <<list, faults>>

\* The process starts again; it does not without its skills.
Restart(p) == Readable(dir) /\ Reload(p, dir)

----------------------------------------------------------------------------
(* What a turn, and a managed run, get of a list                           *)

\* A managed run is refused, Refused, when a skill it may use is not known.
Refused == {}
Allowed(known, names) == IF names \subseteq known THEN names ELSE Refused

\* Those the user named first, then by score, then by name.
Before(m, n, named, score) ==
  LET rank(x) == IF x \in named THEN 0 ELSE 1 IN
  \/ rank(m) < rank(n)
  \/ m \notin named /\ n \notin named /\ score[m] > score[n]
  \/ rank(m) = rank(n) /\ (m \in named \/ score[m] = score[n]) /\ m < n
Candidates(known, named, score) ==
  SetToSortSeq({n \in known : n \in named \/ score[n] > 0},
               LAMBDA m, n : Before(m, n, named, score))
Total(chosen, length) == FoldLeft(LAMBDA sum, n : sum + length[n], 0, chosen)
Matched(known, named, score, length) ==
  FoldLeft(LAMBDA chosen, n : IF /\ Len(chosen) < Most
                                 /\ Total(chosen, length) + length[n] <= Budget
                              THEN Append(chosen, n) ELSE chosen,
           <<>>, Candidates(known, named, score))

Next == \/ \E p \in Procs, n \in Names :
             \/ \E c \in Names : Create(p, n, c) \/ Edit(p, n, c)
             \/ Delete(p, n)
        \/ \E n \in Names : ByHand(n)
        \/ \E p \in Procs : Restart(p)

Spec == Init /\ [][Next]_vars

----------------------------------------------------------------------------
(* Properties                                                              *)

\* After an operation that succeeded, and until somebody else changes a file, a
\* process knows exactly the skills there are, each at a place that declares it.
KnowsWhatIsThere == \A p \in Procs : shown[p] => list[p] \in Discovered(dir)

\* A turn gets few enough skills, all among those it may have, and one that the
\* user named is missing only when other named ones have taken its room.
TurnIsServed(known, named, score, length) ==
  LET chosen == Matched(known, named, score, length)
      first == SelectSeq(chosen, LAMBDA n : n \in named) IN
  /\ Len(chosen) <= Most /\ Total(chosen, length) <= Budget
  /\ ToSet(chosen) \subseteq known
  /\ \A n \in (named \cap known) \ ToSet(chosen) :
       Len(first) = Most \/ Total(first, length) + length[n] > Budget

TurnsAreServed ==
  \A known \in {Allowed(k, names) : k, names \in SUBSET Names}, named \in SUBSET Names :
    \A score \in [Names -> Scores], length \in [Names -> Lengths] :
      TurnIsServed(known, named, score, length)

\* The second is the same in every state: one is enough to look at.
SkillsSound == KnowsWhatIsThere /\ (Init /\ Skills(dir) = {} => TurnsAreServed)
=============================================================================
