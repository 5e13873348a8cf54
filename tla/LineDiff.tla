------------------------------ MODULE LineDiff ------------------------------
(***************************************************************************)
(* The line difference of two texts, createLineDiff of content.ts.  A text *)
(* is a sequence of characters, one of which ends a line; a change names   *)
(* the line it deletes from the first text or inserts from the second.     *)
(***************************************************************************)
EXTENDS Integers, Sequences, SequencesExt, Selections

CONSTANTS
  NewLine,     \* the character "\n"
  MaxEntries,  \* maximumDiffEntries, 2 000
  MaxCells     \* maximumLCSCells, 2 000 000

ASSUME LimitsAssumption == MaxEntries \in Nat /\ MaxCells \in Nat

\* text.split("\n"), with no line at all for the empty text.
SplitLines(text) ==
  LET ends  == {i \in 1 .. Len(text) : text[i] = NewLine}
      marks == <<0>> \o ItemsAt([i \in 1 .. Len(text) |-> i], ends) \o <<Len(text) + 1>>
  IN IF text = <<>> THEN <<>>
     ELSE [k \in 1 .. Len(marks) - 1 |-> SubSeq(text, marks[k] + 1, marks[k + 1] - 1)]

Delete(line, text) == [kind |-> "delete", line |-> line, text |-> text, cut |-> FALSE]
Insert(line, text) == [kind |-> "insert", line |-> line, text |-> text, cut |-> FALSE]

-----------------------------------------------------------------------------
\* createReplacementChanges, for texts that are too long for the table.
ReplacementChanges(before, after, offset) ==
     [i \in DOMAIN before |-> Delete(offset + i, before[i])]
  \o [j \in DOMAIN after  |-> Insert(offset + j, after[j])]

\* A cell is a place in each of the texts, which may be behind the last line.
Cells(before, after) == (1 .. Len(before) + 1) \X (1 .. Len(after) + 1)

\* The lengths of the longest common subsequences of what follows each cell.
Rows(before, after) ==
  LET rows[cell \in Cells(before, after)] ==
        LET i == cell[1]
            j == cell[2]
        IN IF i > Len(before) \/ j > Len(after) THEN 0
           ELSE IF before[i] = after[j] THEN rows[<<i + 1, j + 1>>] + 1
           ELSE Max({rows[<<i + 1, j>>], rows[<<i, j + 1>>]})
  IN rows

\* createMinimalChanges: what is on no longest common subsequence.
MinimalChanges(before, after, offset) ==
  LET rows == Rows(before, after)
      Same(i, j)    == i <= Len(before) /\ j <= Len(after) /\ before[i] = after[j]
      Inserts(i, j) == /\ j <= Len(after)
                       /\ i > Len(before) \/ rows[<<i, j + 1>>] > rows[<<i + 1, j>>]
      walk[cell \in Cells(before, after)] ==
        LET i == cell[1]
            j == cell[2]
        IN IF i > Len(before) /\ j > Len(after) THEN <<>>
           ELSE IF Same(i, j)    THEN walk[<<i + 1, j + 1>>]
           ELSE IF Inserts(i, j) THEN <<Insert(offset + j, after[j])>> \o walk[<<i, j + 1>>]
           ELSE <<Delete(offset + i, before[i])>> \o walk[<<i + 1, j>>]
  IN walk[<<1, 1>>]

-----------------------------------------------------------------------------
\* Lines the two have in common at the beginning.
CommonPrefix(a, b) ==
  Max({k \in 0 .. Min({Len(a), Len(b)}) : \A n \in 1 .. k : a[n] = b[n]})

\* The same if a line might count for the beginning and for the end.
CommonEnd(a, b, prefix) ==
  Max({k \in 0 .. Min({Len(a), Len(b)}) :
         \A n \in 0 .. k - 1 : a[Len(a) - n] = b[Len(b) - n]})

\* Lines the two have in common at the end, beyond those at the beginning.
CommonSuffix(a, b, prefix) ==
  Max({k \in 0 .. Min({Len(a), Len(b)}) - prefix :
         \A n \in 0 .. k - 1 : a[Len(a) - n] = b[Len(b) - n]})

\* returnedCharacterCount after each of the changes.
Counts(changes) ==
  LET counts[k \in 0 .. Len(changes)] ==
        IF k = 0 THEN 0 ELSE counts[k - 1] + Len(changes[k].text)
  IN counts

Characters(changes) == Counts(changes)[Len(changes)]

\* The changes that fit, and what is left of the first one that does not.
Bounded(changes, maxChars) ==
  LET most    == Min({Len(changes), MaxEntries})
      whole   == Max({k \in 0 .. most : Counts(changes)[k] <= maxChars})
      kept    == SubSeq(changes, 1, whole)
      rest    == maxChars - Characters(kept)
      Cut     == LET change == changes[whole + 1]
                 IN [change EXCEPT !.text = SubSeq(@, 1, rest), !.cut = TRUE]
  IN IF whole < most /\ rest > 0 THEN Append(kept, Cut) ELSE kept

\* createLineDiff.
CreateLineDiff(beforeText, afterText, maxChars) ==
  LET before  == SplitLines(beforeText)
      after   == SplitLines(afterText)
      prefix  == CommonPrefix(before, after)
      suffix  == CommonSuffix(before, after, prefix)
      old     == SubSeq(before, prefix + 1, Len(before) - suffix)
      new     == SubSeq(after, prefix + 1, Len(after) - suffix)
      minimal == Len(old) * Len(new) <= MaxCells
      changes == IF minimal THEN MinimalChanges(old, new, prefix)
                            ELSE ReplacementChanges(old, new, prefix)
      result  == Bounded(changes, maxChars)
  IN [changes |-> result, minimal |-> minimal, count |-> Len(changes),
      truncated |-> \/ Len(result) # Len(changes)
                    \/ Characters(result) # Characters(changes)]

-----------------------------------------------------------------------------
(* What a difference is for, independent of how it is computed. *)

\* The lines of a text that a list of changes says nothing about.
Untouched(lines, changes, kind) ==
  LET gone == {changes[k].line : k \in {k \in DOMAIN changes : changes[k].kind = kind}}
  IN ItemsAt(lines, DOMAIN lines \ gone)

\* Deleting and inserting as told turns the first text into the second.
Explains(changes, before, after) ==
  /\ \A k \in DOMAIN changes :
       LET lines == IF changes[k].kind = "delete" THEN before ELSE after
       IN /\ changes[k].line \in DOMAIN lines
          /\ changes[k].text = lines[changes[k].line]
  /\ Untouched(before, changes, "delete") = Untouched(after, changes, "insert")

\* The most lines two texts can have in common, in the same order.
MostInCommon(before, after) ==
  LET Picks(lines) == {ItemsAt(lines, kept) : kept \in SUBSET DOMAIN lines}
  IN Max({Len(common) : common \in Picks(before) \cap Picks(after)})
=============================================================================
