----------------------------- MODULE StringUtils -----------------------------
(* The pure helpers of utils::String (src/src/utils/String.h) on strings as  *)
(* sequences of characters. A position is a TLA+ index, from 1; npos is 0.   *)
EXTENDS Naturals, SequencesExt

npos == 0

\* find_first_of, from position p on.
FindFirstOf(value, separators, p) ==
  SelectInSubSeq(value, p, Len(value), LAMBDA c : c \in separators)

\* A variant of LastPiece: no piece for an empty rest, as a getline loop has it.
LastPieceGetline(value, p) ==
  IF p > Len(value) THEN <<>> ELSE <<SubSeq(value, p, Len(value))>>

\* What SplitAux appends at the end of the string: the rest, even if empty.
LastPiece(value, p) == <<SubSeq(value, p, Len(value))>>

SplitString(value, separators) ==
  LET pieces[p \in 1..(Len(value) + 1)] ==
        LET q == FindFirstOf(value, separators, p)
        IN  IF q = npos THEN LastPiece(value, p)
            ELSE <<SubSeq(value, p, q - 1)>> \o pieces[q + 1]
  IN  pieces[1]

Trim(value, spaces) ==
  LET begin == SelectInSeq(value, LAMBDA c : c \notin spaces)
      end == SelectLastInSeq(value, LAMBDA c : c \notin spaces)
  IN  IF begin = npos THEN <<>> ELSE SubSeq(value, begin, end)

=============================================================================
