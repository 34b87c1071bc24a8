----------------------------- MODULE OrderIndex -----------------------------
(***************************************************************************)
(* Fractional indices: the text keys that order the cards of a list        *)
(* (backend/src/utils/order-index.ts, mirrored on the client by            *)
(* frontend/src/components/kanban/order-utils.ts).                         *)
(*                                                                         *)
(* A key is a sequence of letters, a letter being its place in CHARS; -1   *)
(* stands for a character outside CHARS that sorts below 'a', such as the  *)
(* '0' of the default index 'a0' of integrations/action-executor.ts.       *)
(***************************************************************************)
EXTENDS Integers, Sequences, FiniteSets, FiniteSetsExt

CONSTANTS
  Letters,   \* CHARS.length
  NoKey      \* null

ASSUME OrderIndexConstants == Letters \in Nat /\ Letters > 1

MID == Letters \div 2

Letter == -1 .. Letters - 1

Key == Seq(Letter) \ {<<>>}

\* The order of text in the database and of strings on the client.
k \prec l ==
  \E i \in 1..Len(l) :
    /\ i <= Len(k) + 1
    /\ \A j \in 1..(i - 1) : k[j] = l[j]
    /\ i <= Len(k) => k[i] < l[i]

generateInitialIndex == <<MID>>

generateIndexAfter(after) == Append(after, MID)

\* Of several rows appended at once each goes after the one before: the i-th index.
keyAfter(key, i) == key \o [j \in 1..(i - 1) |-> MID]

\* Slip: only the first letter is looked at, so 'an' has nothing below it but 'a'.
generateIndexBeforeFirst(before) ==
  IF before[1] > 0 THEN <<before[1] \div 2>> ELSE <<before[1], MID>>

\* Halves the first letter that can be lowered; null when there is none.
generateIndexBefore(before) ==
  LET lowerable == {i \in 1..Len(before) : before[i] > 0}
      i         == Min(lowerable)
  IN  IF lowerable = {} THEN NoKey
      ELSE Append(SubSeq(before, 1, i - 1), before[i] \div 2)

\* Slip: half the distance, not the middle.
generateIndexBetweenHalf(before, after) ==
  LET m      == Min({Len(before), Len(after)})
      rising == {i \in 1..m : after[i] > before[i]}
      i      == Min(rising)
  IN  IF rising = {} THEN Append(before, MID)
      ELSE IF after[i] - before[i] > 1
           THEN Append(SubSeq(before, 1, i - 1), (after[i] - before[i]) \div 2)
           ELSE Append(SubSeq(before, 1, i), MID)

\* The first letter where `after` is higher decides.
generateIndexBetween(before, after) ==
  LET m      == Min({Len(before), Len(after)})
      rising == {i \in 1..m : after[i] > before[i]}
      i      == Min(rising)
  IN  IF rising = {} THEN Append(before, MID)
      ELSE IF after[i] - before[i] > 1
           THEN Append(SubSeq(before, 1, i - 1), (before[i] + after[i]) \div 2)
           ELSE Append(SubSeq(before, 1, i), MID)

\* Evenly spaced letters.  A letter given out before gets one more MID for each
\* time it was.
generateNIndices(count) ==
  LET step    == Letters \div (count + 1)
      char(i) == Min({step * i, Letters - 1})
      dups(i) == Cardinality({j \in 1..(i - 1) : char(j) = char(i)})
  IN  [i \in 1..count |-> <<char(i)>> \o [d \in 1..dups(i) |-> MID]]

\* The index of a card dropped between two others, either of which may be null.
indexForSlot(prev, next) ==
  CASE prev # NoKey /\ next # NoKey -> generateIndexBetween(prev, next)
    [] prev # NoKey /\ next = NoKey -> generateIndexAfter(prev)
    [] prev = NoKey /\ next # NoKey -> generateIndexBefore(next)
    [] OTHER                        -> generateInitialIndex

\* Two keys whose first difference leaves a letter in between.
Gap(k, l) ==
  \E i \in 1..Len(l) :
    /\ i <= Len(k) /\ \A j \in 1..(i - 1) : k[j] = l[j]
    /\ l[i] - k[i] > 1
=============================================================================
