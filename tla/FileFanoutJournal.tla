------------------------- MODULE FileFanoutJournal -------------------------
(***************************************************************************)
(* The default journal of the fan-out (store-fanout/src/journal.ts): an    *)
(* append-only file of lines, folded into memory once per process and      *)
(* rewritten when most of it is dead.  Mutations wait for one another;     *)
(* questions do not wait for anything.  The disk may refuse a read or a    *)
(* write, and the process may die between any two awaits, in the middle of *)
(* a line too.                                                             *)
(***************************************************************************)
EXTENDS Integers, FiniteSets, Sequences, SequencesExt

CONSTANTS Keys,       \* the keys of entries
          Snapshots,  \* the snapshots a commit mark may name, numbers
          CompactAt,  \* lines below which the file is never rewritten
          MaxLines,   \* bound: lines ever appended
          MaxTears,   \* bound: lines left without their end
          MaxCrashes  \* bound: deaths that leave no such line

ASSUME JournalAssumption ==
  /\ IsFiniteSet(Keys) /\ Keys # {} /\ Snapshots \subseteq Nat \ {0}
  /\ {CompactAt, MaxLines, MaxTears, MaxCrashes} \subseteq Nat /\ CompactAt # 0

VARIABLES file,     \* the complete lines of the file, garbled ones included
          partial,  \* the file ends in a line without its end
          entries,  \* memory: the keys owed
          mark,     \* memory: the commit mark, 0 for none
          loaded,   \* memory: the file has been, or is being, read
          lines,    \* memory: the lines there are thought to be in the file
          op,       \* the mutation whose turn it is
          asker,    \* the question that is reading the file
          promised, \* keys whose last mutation to return recorded them
          forgiven, \* keys whose last mutation to return resolved them
          blessed,  \* the mark whose mutation was the last to return, -1 if in doubt
          blind,    \* what this process holds in memory is not what the file says
          tears, crashes, appended

memory == <<entries, mark, loaded, lines>>
ghosts == <<promised, forgiven, blessed>>
counts == <<tears, crashes, appended>>
vars   == <<file, partial, entries, mark, loaded, lines, op, asker, promised,
            forgiven, blessed, blind, tears, crashes, appended>>

Garbled == [op |-> "garbled"]
Line == [op : {"record", "resolve"}, key : Keys] \cup [op : {"commit"}, mark : Snapshots]
        \cup {Garbled}

Rest == [at |-> "rest"]

Init ==
  /\ file = <<>> /\ partial = FALSE
  /\ entries = {} /\ mark = 0 /\ loaded = FALSE /\ lines = 0
  /\ op = Rest /\ asker = Rest
  /\ promised = {} /\ forgiven = Keys /\ blessed = 0 /\ blind = FALSE
  /\ tears = 0 /\ crashes = 0 /\ appended = 0

-----------------------------------------------------------------------------
(* Folding lines. *)

Keeping(es, l) ==
  CASE l.op = "record" -> es \cup {l.key}
    [] l.op = "resolve" -> es \ {l.key}
    [] OTHER -> es

\* What memory becomes when lines are folded into it one after the other: the last
\* line about a key decides, and the last commit.
About(k, l) == l.op \in {"record", "resolve"} /\ l.key = k

FoldedEntries(es, ls) ==
  {k \in Keys :
     LET about == {i \in DOMAIN ls : About(k, ls[i])}
     IN IF about = {} THEN k \in es
        ELSE \E i \in about : ls[i].op = "record" /\ \A j \in about : j <= i}

FoldedMark(m, ls) ==
  LET commits == {i \in DOMAIN ls : ls[i].op = "commit"}
  IN IF commits = {} THEN m
     ELSE ls[CHOOSE i \in commits : \A j \in commits : j <= i].mark

\* A line without its end, met by the reader, is a line that does not parse.
ReadFile == IF partial THEN Append(file, Garbled) ELSE file

\* Any error of the read is taken for a file that is not there: an empty journal.
Reads == {ReadFile, <<>>}

\* A question that finds the file being read goes on with what memory holds.
Loading == \/ op.at \in {"read", "fold"} \/ asker.at \in {"read", "fold"}

-----------------------------------------------------------------------------
(* A mutation: load, change memory, append, compact. *)

Doubtful(l) ==
  /\ promised' = IF l.op = "commit" THEN promised ELSE promised \ {l.key}
  /\ forgiven' = IF l.op = "commit" THEN forgiven ELSE forgiven \ {l.key}
  /\ blessed'  = IF l.op = "commit" THEN -1 ELSE blessed

Returned(l) ==
  /\ promised' = IF l.op = "record" THEN promised \cup {l.key} ELSE promised
  /\ forgiven' = IF l.op = "resolve" THEN forgiven \cup {l.key} ELSE forgiven
  /\ blessed'  = IF l.op = "commit" THEN l.mark ELSE blessed

\* The file is rewritten: from a memory that is not the file's, what it no longer
\* says can no longer be held to be kept.
Rewritten(l, body) ==
  IF ~blind THEN Returned(l)
  ELSE LET es == FoldedEntries({}, body)
           m == FoldedMark(0, body)
       IN /\ promised' = promised \cap es
          /\ forgiven' = forgiven \ es
          /\ blessed' = IF blessed = m THEN m ELSE -1

\* record, resolve, markCommitted: loaded is set before the file is read, so one that
\* finds a question reading it is made on memory as it is.
Mutate ==
  /\ op = Rest /\ appended < MaxLines
  /\ \E l \in Line \ {Garbled} :
       /\ op' = [at |-> IF loaded THEN "change" ELSE "read", line |-> l]
       /\ Doubtful(l)
  /\ loaded' = TRUE /\ blind' = (blind \/ Loading)
  /\ UNCHANGED <<file, partial, entries, mark, lines, asker, counts>>

LoadRead ==
  /\ op.at = "read"
  /\ \E raw \in Reads :
       /\ op' = [at |-> "fold", line |-> op.line, raw |-> raw]
       /\ blind' = (blind \/ raw # ReadFile)
  /\ UNCHANGED <<file, partial, memory, asker, ghosts, counts>>

\* Mutant: lines met while reading are not counted.
FoldUncounted(raw) ==
  /\ entries' = FoldedEntries(entries, raw)
  /\ mark' = FoldedMark(mark, raw)
  /\ UNCHANGED lines

Fold(raw) ==
  /\ entries' = FoldedEntries(entries, raw)
  /\ mark' = FoldedMark(mark, raw)
  /\ lines' = lines + Len(raw)

LoadFold ==
  /\ op.at = "fold"
  /\ Fold(op.raw)
  /\ op' = [at |-> "change", line |-> op.line]
  /\ UNCHANGED <<file, partial, loaded, asker, ghosts, blind, counts>>

Change ==
  /\ op.at = "change"
  /\ entries' = Keeping(entries, op.line)
  /\ mark' = IF op.line.op = "commit" THEN op.line.mark ELSE mark
  /\ op' = [op EXCEPT !.at = "append"]
  /\ UNCHANGED <<file, partial, loaded, lines, asker, ghosts, blind, counts>>

\* What is appended to a line without its end makes one line with it.
Appended(l) == Append(file, IF partial THEN Garbled ELSE l)

Live == Cardinality(entries) + (IF mark = 0 THEN 0 ELSE 1)
DueForCompaction == lines + 1 >= CompactAt /\ lines + 1 >= Live * 4

\* Mutant: the entries are kept, the mark is not.
KeptEntries == SetToSeq([op : {"record"}, key : entries])

\* What compaction keeps: the entries, then the mark.
Kept ==
  SetToSeq([op : {"record"}, key : entries])
    \o (IF mark = 0 THEN <<>> ELSE <<[op |-> "commit", mark |-> mark]>>)

AppendLine ==
  /\ op.at = "append"
  /\ file' = Appended(op.line) /\ partial' = FALSE
  /\ lines' = lines + 1 /\ appended' = appended + 1
  /\ IF DueForCompaction
       THEN op' = [at |-> "rename", line |-> op.line, body |-> Kept] /\ UNCHANGED ghosts
       ELSE op' = Rest /\ Returned(op.line)
  /\ UNCHANGED <<entries, mark, loaded, asker, blind, tears, crashes>>

\* The body is in a file of its own by now; the rename is atomic.
Rename ==
  /\ op.at = "rename"
  /\ file' = op.body /\ partial' = FALSE
  /\ lines' = Len(op.body)
  /\ op' = Rest /\ Rewritten(op.line, op.body)
  /\ UNCHANGED <<entries, mark, loaded, asker, blind, counts>>

\* The disk refuses the append, the temporary file or the rename: the caller is told,
\* memory stays as it was changed, and the next mutation has its turn.
Refused ==
  /\ op.at \in {"append", "rename"}
  /\ op' = Rest
  /\ \/ UNCHANGED <<partial, tears>>
     \/ /\ op.at = "append" /\ tears < MaxTears
        /\ partial' = TRUE /\ tears' = tears + 1
  /\ UNCHANGED <<file, memory, asker, ghosts, blind, crashes, appended>>

-----------------------------------------------------------------------------
(* A question: outstanding, lastCommitted.  Only the one that finds the file not     *)
(* read does anything but answer from memory.                                       *)

Ask ==
  /\ ~loaded
  /\ asker' = [at |-> "read"]
  /\ loaded' = TRUE
  /\ UNCHANGED <<file, partial, entries, mark, lines, op, ghosts, blind, counts>>

AskRead ==
  /\ asker.at = "read"
  /\ \E raw \in Reads :
       /\ asker' = [at |-> "fold", raw |-> raw]
       /\ blind' = (blind \/ raw # ReadFile)
  /\ UNCHANGED <<file, partial, memory, op, ghosts, counts>>

AskFold ==
  /\ asker.at = "fold"
  /\ Fold(asker.raw)
  /\ asker' = Rest
  /\ UNCHANGED <<file, partial, loaded, op, ghosts, blind, counts>>

-----------------------------------------------------------------------------
(* Death. *)

\* Mutant: a mutation outlives the memory it is made on.
ForgottenMemory ==
  /\ entries' = {} /\ mark' = 0 /\ loaded' = FALSE /\ lines' = 0
  /\ asker' = Rest /\ blind' = FALSE /\ UNCHANGED op

Forgotten ==
  /\ entries' = {} /\ mark' = 0 /\ loaded' = FALSE /\ lines' = 0
  /\ op' = Rest /\ asker' = Rest /\ blind' = FALSE

\* Before an await, or after it: an append is whole or not there.
Crash ==
  /\ loaded /\ crashes < MaxCrashes
  /\ crashes' = crashes + 1
  /\ Forgotten
  /\ \/ UNCHANGED <<file, partial, ghosts>>
     \/ /\ op.at = "append"
        /\ file' = Appended(op.line) /\ partial' = FALSE
        /\ UNCHANGED ghosts
     \/ /\ op.at = "rename"
        /\ file' = op.body /\ partial' = FALSE
        /\ IF blind THEN Rewritten(op.line, op.body) ELSE UNCHANGED ghosts
  /\ UNCHANGED <<tears, appended>>

\* In the middle of an append.
Tear ==
  /\ op.at = "append" /\ tears < MaxTears
  /\ tears' = tears + 1
  /\ partial' = TRUE
  /\ Forgotten
  /\ UNCHANGED <<file, ghosts, crashes, appended>>

Next ==
  \/ Mutate \/ LoadRead \/ LoadFold \/ Change \/ AppendLine \/ Rename \/ Refused
  \/ Ask \/ AskRead \/ AskFold
  \/ Crash \/ Tear

Spec == Init /\ [][Next]_vars

-----------------------------------------------------------------------------
(* Properties. *)

TypeOK ==
  /\ file \in Seq(Line) /\ partial \in BOOLEAN
  /\ entries \subseteq Keys /\ mark \in Snapshots \cup {0}
  /\ loaded \in BOOLEAN /\ lines \in Nat
  /\ op.at \in {"rest", "read", "fold", "change", "append", "rename"}
  /\ op # Rest => op.line \in Line \ {Garbled}
  /\ asker.at \in {"rest", "read", "fold"}
  /\ (op # Rest \/ asker # Rest) => loaded
  /\ promised \subseteq Keys /\ forgiven \subseteq Keys \ promised
  /\ blessed \in Snapshots \cup {-1, 0} /\ blind \in BOOLEAN
  /\ tears \in 0 .. MaxTears /\ crashes \in 0 .. MaxCrashes
  /\ appended \in 0 .. MaxLines

\* What a set of entries and a mark have wrong of what has been acknowledged.
Wrong(es, m) ==
  Cardinality(promised \ es) + Cardinality(forgiven \cap es)
    + (IF blessed \in {-1, m} THEN 0 ELSE 1)

\* What was acknowledged stays in the file over refusals and deaths, whoever asks
\* meanwhile: a process that dies between two awaits loses nothing, a line left without
\* its end costs at most the next one, rewriting the file loses nothing, and a process
\* that has read the file answers from memory as the file would (load, append,
\* maybeCompact, mutate).  Not held to it: the memory of a process that could not read
\* the file, or changed memory while the file was being read, and what is no longer in
\* a file rewritten from such a memory.
KeepsWhatReturned ==
  /\ Wrong(FoldedEntries({}, file), FoldedMark(0, file)) <= tears
  /\ loaded /\ ~Loading /\ ~blind => Wrong(entries, mark) <= tears

\* The file stays in proportion to what is owed, however much has been recorded and
\* resolved and however often the disk has refused or the process has died: a mutation
\* returns with fewer lines than CompactAt, or fewer than four times the live ones
\* (maybeCompact, load).
FileIsBounded ==
  [][op # Rest /\ op' = Rest /\ file' # file /\ loaded' /\ ~blind =>
       Len(file') < CompactAt \/ Len(file') < 4 * Live']_vars
=============================================================================
