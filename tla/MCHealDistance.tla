----------------------------- MODULE MCHealDistance -----------------------------
(* Every pair of short texts and every target path with every list of candidate *)
(* paths, against what the distances mean.                                      *)
EXTENDS HealDistance

CONSTANTS Letters, MaxLength, MaxPaths

VARIABLES target, paths
vars == <<target, paths>>

Words == SeqOf(Letters, MaxLength)

\* The candidates of a page are read one after the other.
Init == target \in Words /\ paths = <<>>
Next == /\ Len(paths) < MaxPaths /\ UNCHANGED target
        /\ \E p \in Words : paths' = Append(paths, p)
Spec == Init /\ [][Next]_vars

--------------------------------------------------------------------------------
(* What the distances mean.                                                     *)
\* The texts that one deletion, insertion or substitution makes of a text.
Edits(s) ==
  {RemoveAt(s, i) : i \in DOMAIN s}
    \union {InsertAt(s, i, x) : i \in 1..(IF Len(s) < MaxLength THEN Len(s) + 1 ELSE 0), x \in Letters}
    \union {[s EXCEPT ![i] = x] : i \in DOMAIN s, x \in Letters}
\* The texts within a number of edits of a text.
Around(s) ==
  LET near[k \in 0..MaxLength] == IF k = 0 THEN {s} ELSE near[k - 1] \union UNION {Edits(t) : t \in near[k - 1]}
  IN near

Common(s, t) == AllSubSeqs(s) \intersect AllSubSeqs(t)
Agreement(s, t) == CHOOSE n \in 0..MaxLength :
  n \in {Len(c) : c \in Common(s, t)} /\ \A c \in Common(s, t) : Len(c) <= n

\* The loop over two rows counts the fewest edits that make one text of the other
\* (levenshteinRunes).
LevenshteinCountsEdits ==
  \A p \in Range(paths) : LET near == Around(target)
                            n == levenshteinRunes(target, p)
                        IN n \in 0..MaxLength /\ p \in near[n] /\ (n > 0 => p \notin near[n - 1])

\* The buffer is long enough for every candidate, however long its path is
\* (shortestPathLength): no row leaves it.
BufferFits == Measured(target, paths).ok

\* Whatever was measured in the buffer before, the candidates that are kept are
\* those that share the longest subsequence of ancestors with the target, and no
\* others (narrowByPathLCS).
NarrowingKeepsTheNearest ==
  narrowByPathLCS(target, paths) =
    {i \in DOMAIN paths : \A j \in DOMAIN paths : Agreement(target, paths[j]) <= Agreement(target, paths[i])}

\* The distances mean what healing takes them for, within their buffer.
DistancesAreTrue == BufferFits /\ LevenshteinCountsEdits /\ NarrowingKeepsTheNearest
================================================================================
