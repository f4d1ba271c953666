------------------------ MODULE MCFileFanoutJournal ------------------------
(* Entries are alike.  FoldedEntries and FoldedMark say in one go what the code   *)
(* finds line by line: they are compared with that on every short file.           *)
EXTENDS FileFanoutJournal, TLC

MCSymmetry == Permutations(Keys)

ASSUME FoldsLineByLine ==
  \A ls \in BoundedSeq(Line, 4) :
    /\ \A es \in SUBSET Keys : FoldedEntries(es, ls) = FoldLeft(Keeping, es, ls)
    /\ \A m \in Snapshots \cup {0} :
         FoldedMark(m, ls) =
           FoldLeft(LAMBDA n, l : IF l.op = "commit" THEN l.mark ELSE n, m, ls)
=============================================================================
