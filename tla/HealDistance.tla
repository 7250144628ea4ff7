------------------------------ MODULE HealDistance ------------------------------
(* The distances that healing measures (domain/heal/scorer.go, lcs.go): how far *)
(* two texts are apart, how much of two ancestor paths agrees, and the          *)
(* narrowing of the candidates to those whose path agrees most. Texts and paths *)
(* are sequences. Both loops are told row by row; the narrowing reuses one      *)
(* buffer for all candidates.                                                   *)
EXTENDS Naturals, Sequences, FiniteSets, SequencesExt

min2(a, b) == IF a < b THEN a ELSE b
min3(a, b, c) == min2(min2(a, b), c)
max2(a, b) == IF a < b THEN b ELSE a

levenshteinRunes(ra, rb) ==
  LET row[i \in 0..Len(ra)] ==
        IF i = 0 THEN [j \in 0..Len(rb) |-> j]
        ELSE LET prev == row[i - 1]
                 curr[j \in 0..Len(rb)] ==
                   IF j = 0 THEN i
                   ELSE min3(prev[j] + 1, curr[j - 1] + 1,
                             prev[j - 1] + IF ra[i] = rb[j] THEN 0 ELSE 1)
             IN [j \in 0..Len(rb) |-> curr[j]]
  IN row[Len(ra)][Len(rb)]

\* The buffer after each row: a cell becomes the cell up and to the left of it,
\* as it was before the row, and one, or the larger of its neighbours.
lcsLengthWithBuffer(rows, columns, dp) ==
  LET after[i \in 0..Len(rows)] ==
        IF i = 0 THEN [j \in DOMAIN dp |-> 0]
        ELSE LET above == after[i - 1]
                 cell[j \in 0..Len(columns)] ==
                   IF j = 0 THEN 0
                   ELSE IF rows[i] = columns[j] THEN above[j - 1] + 1
                   ELSE max2(above[j], cell[j - 1])
             IN [j \in 0..Len(columns) |-> cell[j]]
  IN after[Len(rows)]

\* The longest of the shorter paths, and one.
shortestPathLength(target, paths) ==
  LET shorter == {min2(Len(target), Len(p)) : p \in Range(paths)} \union {0}
  IN 1 + CHOOSE n \in shorter : \A k \in shorter : k <= n

\* The buffer and the distances once the first n candidates are measured. A row
\* that does not fit the buffer is a panic.
Panic == [buffer |-> <<>>, distances |-> <<>>, ok |-> FALSE]
Measure(m, target, path) ==
  LET columns == IF Len(path) > Len(target) THEN target ELSE path
      rows == IF Len(path) > Len(target) THEN path ELSE target
      dp == lcsLengthWithBuffer(rows, columns, [j \in 0..Len(columns) |-> m.buffer[j]])
  IN IF ~m.ok \/ Len(columns) \notin DOMAIN m.buffer THEN Panic
     ELSE [buffer |-> [j \in DOMAIN m.buffer |-> IF j \in DOMAIN dp THEN dp[j] ELSE m.buffer[j]],
           distances |-> Append(m.distances, dp[Len(columns)]), ok |-> TRUE]
Measured(target, paths) ==
  FoldLeft(LAMBDA m, p : Measure(m, target, p),
           [buffer |-> [j \in 0..shortestPathLength(target, paths) - 1 |-> 0],
            distances |-> <<>>, ok |-> TRUE], paths)

\* The candidates that are kept, by their index.
narrowByPathLCS(target, paths) ==
  LET d == Measured(target, paths).distances
  IN {i \in DOMAIN d : \A j \in DOMAIN d : d[j] <= d[i]}
================================================================================
