----------------------------- MODULE Splitting ------------------------------
(***************************************************************************)
(* recursive_split_text and its helpers (app/services/chunkers/hybrid.py): *)
(* a text that is too long is split at the first separator that occurs in  *)
(* it, pieces that are still too long are split at the separators that     *)
(* follow, and short ones are merged again, with an overlap.               *)
(*                                                                         *)
(* A text is a sequence of characters.  Letters are positive numbers, so   *)
(* that each letter of a page can be told from all others; white space is  *)
(* Space or Newline.                                                       *)
(***************************************************************************)
EXTENDS Integers, Sequences, SequencesExt

Space == 0
Newline == -1

Texts == Seq(Int)

\* Mutant: a line is never split at a space.
SeparatorsOfLines == << <<Newline, Newline>>, <<Newline>>, <<>> >>

\* DEFAULT_SEPARATORS; the empty one cuts between any two characters.
Separators == << <<Newline, Newline>>, <<Newline>>, <<Space>>, <<>> >>

\* str.strip
Strip(t) ==
    LET ink == {i \in DOMAIN t : t[i] > 0}
    IN IF ink = {} THEN <<>> ELSE SubSeq(t, Min(ink), Max(ink))

\* str.join
Join(pieces, sep) ==
    IF pieces = <<>> THEN <<>>
    ELSE FoldLeft(LAMBDA t, p : t \o sep \o p, Head(pieces), Tail(pieces))

\* Where sep occurs in t.
Places(sep, t) == {i \in 1..(Len(t) - Len(sep) + 1) : SubSeq(t, i, i + Len(sep) - 1) = sep}

\* str.split
SplitBy(text, sep) ==
    LET parts[t \in Texts] ==
          LET places == Places(sep, t)
          IN IF places = {} THEN <<t>>
             ELSE <<SubSeq(t, 1, Min(places) - 1)>>
                    \o parts[SubSeq(t, Min(places) + Len(sep), Len(t))]
    IN parts[text]

\* _choose_separator, among the separators from the k-th on.
ChooseSeparator(t, k) ==
    Min({i \in k..Len(Separators) :
            Separators[i] = <<>> \/ Places(Separators[i], t) # {}})

\* Mutant: only full slices are made.
FullSlices(t, max, overlap) ==
    LET size == Max({1, max - overlap})
    IN [k \in 1..((Len(t) - max) \div size + 1) |->
            SubSeq(t, (k - 1) * size + 1, (k - 1) * size + max)]

\* The fallback of recursive_split_text: every slice begins overlap characters before the
\* end of the one before.
Slices(t, max, overlap) ==
    LET size == Max({1, max - overlap})
    IN [k \in 1..((Len(t) - 1) \div size + 1) |->
            SubSeq(t, (k - 1) * size + 1, Min({(k - 1) * size + max, Len(t)}))]

LastOf(pieces, n) == SubSeq(pieces, Len(pieces) - n + 1, Len(pieces))

\* Mutant: whatever is within the overlap is kept, whether or not the next piece fits.
OverlapInFull(acc, sep, overlap, piece, max) ==
    LastOf(acc, Max({n \in 0..Len(acc) :
                        n = 0 \/ Len(Join(LastOf(acc, n), sep)) <= overlap}))

\* _compute_overlap: the last pieces of acc that fit into the overlap and before piece.
OverlapOf(acc, sep, overlap, piece, max) ==
    LET fits(n) ==
          LET kept == Len(Join(LastOf(acc, n), sep))
          IN kept <= overlap /\ kept + Len(sep) + Len(piece) <= max
    IN LastOf(acc, Max({n \in 0..Len(acc) : n = 0 \/ fits(n)}))

\* Mutant: blank chunks are kept.
EmittedAlways(chunks, acc, sep) ==
    IF acc = <<>> THEN chunks ELSE Append(chunks, Strip(Join(acc, sep)))

\* The chunks once the pieces in acc are merged to one, unless it is blank.
Emitted(chunks, acc, sep) ==
    LET merged == Strip(Join(acc, sep))
    IN IF merged = <<>> THEN chunks ELSE Append(chunks, merged)

\* _merge_pieces
Merge(pieces, sep, max, overlap) ==
    LET Add(st, piece) ==
          IF Len(Join(Append(st.acc, piece), sep)) <= max
          THEN [st EXCEPT !.acc = Append(st.acc, piece)]
          ELSE [chunks |-> Emitted(st.chunks, st.acc, sep),
                acc |-> Append(OverlapOf(st.acc, sep, overlap, piece, max), piece)]
        end == FoldLeft(Add, [chunks |-> <<>>, acc |-> <<>>], pieces)
    IN Emitted(end.chunks, end.acc, sep)

\* recursive_split_text with _refine_splits, by the separators from the k-th on.
Split(text, max, overlap) ==
    LET split[k \in 1..Len(Separators)] == [t \in Texts |->
          IF Len(t) <= max
          THEN IF Strip(t) = <<>> THEN <<>> ELSE <<t>>
          ELSE LET i == ChooseSeparator(t, k)
                   sep == Separators[i]
                   refined(part) ==
                     IF Len(part) > max THEN split[i + 1][part]
                     ELSE IF part # <<>> THEN <<part>> ELSE <<>>
                   parts == SplitBy(t, sep)
               IN IF sep = <<>> THEN Slices(t, max, overlap)
                  ELSE Merge(FlattenSeq([n \in DOMAIN parts |-> refined(parts[n])]),
                             sep, max, overlap)]
    IN split[1][text]
=============================================================================
