-------------------------- MODULE TranslationText ---------------------------
(* The text side of a translation: ai/translation_utils.py. A document is cut *)
(* into segments that must join again, what must not be translated is hidden  *)
(* behind sentinels, segments travel in batches, and each answer is judged    *)
(* without a second call.                                                     *)
(*                                                                            *)
(* A text is a sequence of characters, of which Space, Newline, Stop (an end  *)
(* of a sentence), Mark (a control character without meaning) and Page (a     *)
(* page marker) are told apart. X_Y is X with a plausible mistake in it.      *)
EXTENDS Integers, SequencesExt

CONSTANTS
    Space, Newline, Stop, Mark, Page, Escape,
    Letters,        \* characters a script counts
    MinSegment,     \* MIN_SEGMENT_CHARACTERS
    MaxSegment,     \* MAX_SEGMENT_CHARACTERS
    Spans,          \* what protect_placeholders looks for: terms, the longest
                    \* first, then the patterns, as a sequence of sets of spans
    Penalty(_),     \* ISSUE_PENALTIES
    Lower(_),       \* a character in lower case
    ReviewThreshold \* REVIEW_THRESHOLD

TranslationTextAssumption ==
    /\ MinSegment \in Nat \ {0} /\ MaxSegment \in Nat /\ MinSegment <= MaxSegment
    /\ \A issue \in {"placeholder_lost", "placeholder_unresolved", "empty"} : Penalty(issue) \in 0..100

White == {Space, Newline}

RStrip(t) ==
    LET last == {i \in DOMAIN t : t[i] \notin White}
    IN  IF last = {} THEN <<>> ELSE SubSeq(t, 1, Max(last))

Joined(texts) == FlattenSeq(texts)

-----------------------------------------------------------------------------
(* Cutting a document. *)

(* normalise_source_text: marks go, and spaces at the end of a line. *)
Normalised(t) ==
    LET s == SelectSeq(t, LAMBDA c : c # Mark)
        Trailing(i) == s[i] = Space /\ \A j \in i..Len(s) : s[j] = Space \/ \E k \in i..j : s[k] = Newline
        keep == {i \in DOMAIN s : ~Trailing(i)}
        kept == SetToSortSeq(keep, <)
    IN  [i \in DOMAIN kept |-> s[kept[i]]]

(* The longest stretches of white space, and where a text breaks: between     *)
(* blocks at an empty line, within a block behind a sentence.                 *)
Runs(t) ==
    {r \in (1..Len(t)) \X (1..Len(t)) :
        /\ r[1] <= r[2] /\ \A i \in r[1]..r[2] : t[i] \in White
        /\ r[1] = 1 \/ t[r[1] - 1] \notin White
        /\ r[2] = Len(t) \/ t[r[2] + 1] \notin White}

NewlinesIn(t, r) == {i \in r[1]..r[2] : t[i] = Newline}

BlockBreaks(t) ==
    {<<Min(NewlinesIn(t, r)), r[2]>> : r \in {r \in Runs(t) : Cardinality(NewlinesIn(t, r)) > 1}}

SentenceBreaks(t) == {r \in Runs(t) : r[1] > 1 /\ t[r[1] - 1] = Stop}

(* _split_keeping_separators, at breaks in their order. *)
PiecesBetween(t, cuts) ==
    [k \in 1..Len(cuts) + 1 |->
        [text |-> SubSeq(t, IF k = 1 THEN 1 ELSE cuts[k - 1][2] + 1, IF k > Len(cuts) THEN Len(t) ELSE cuts[k][1] - 1),
         sep |-> IF k > Len(cuts) THEN <<>> ELSE SubSeq(t, cuts[k][1], cuts[k][2])]]

OneAtLeast(pieces, t) == IF pieces = <<>> THEN <<[text |-> t, sep |-> <<>>]>> ELSE pieces

Split(t, breaks) ==
    OneAtLeast(SelectSeq(PiecesBetween(t, SetToSortSeq(breaks, LAMBDA a, b : a[1] < b[1])),
                         LAMBDA p : p.text # <<>>), t)

Parted(t) == [text |-> RStrip(t), sep |-> SubSeq(t, Len(RStrip(t)) + 1, Len(t))]

(* _pack_pieces: what is packed and what is still open. *)
AddPiece(acc, longer, p, budget) ==
    IF acc.buffer # <<>> /\ Len(longer) > budget
    THEN [packed |-> Append(acc.packed, Parted(acc.buffer)), buffer |-> p.text \o p.sep]
    ELSE [acc EXCEPT !.buffer = longer]

Flushed(acc) == IF acc.buffer = <<>> THEN acc.packed ELSE Append(acc.packed, Parted(acc.buffer))

Packed(pieces, budget) ==
    Flushed(FoldLeft(LAMBDA acc, p : AddPiece(acc, acc.buffer \o p.text \o p.sep, p, budget),
                     [packed |-> <<>>, buffer |-> <<>>], pieces))

(* _hard_split: every part but the last has no separator. *)
PartSeparator_All(p, last) == p.sep

PartSeparator(p, last) == IF last THEN p.sep ELSE <<>>

HardSplit(p, budget) ==
    LET parts == (Len(p.text) + budget - 1) \div budget
    IN  [k \in 1..parts |->
            [text |-> SubSeq(p.text, (k - 1) * budget + 1, IF k = parts THEN Len(p.text) ELSE k * budget),
             sep |-> PartSeparator(p, k = parts)]]

Fitting(pieces, budget) ==
    FlattenSeq([k \in DOMAIN pieces |->
        IF Len(pieces[k].text) <= budget THEN <<pieces[k]>> ELSE HardSplit(pieces[k], budget)])

Closing(pieces, sep) == [pieces EXCEPT ![Len(pieces)].sep = sep]

Pieces(block, budget) ==
    IF Len(block.text) <= budget THEN <<block>>
    ELSE Closing(Fitting(Packed(Split(block.text, SentenceBreaks(block.text)), budget), budget), block.sep)

(* _classify_block, as far as it decides what is sent to a model. *)
Translatable(text, block) ==
    RStrip(block) # <<Page>> /\ \E i \in DOMAIN text : text[i] \in Letters

Budget(asked) == Max({MinSegment, Min({asked, MaxSegment})})

(* segment_text, of a normalised text. *)
SegmentsOf(b, pieces) ==
    [k \in DOMAIN pieces |-> [source |-> pieces[k].text, separator |-> pieces[k].sep,
                              translatable |-> Translatable(pieces[k].text, b.text)]]

BlockSegments(blocks, asked) ==
    FlattenSeq([k \in DOMAIN blocks |-> SegmentsOf(blocks[k], Pieces(blocks[k], Budget(asked)))])

Blocks(source) == SelectSeq(Split(source, BlockBreaks(source)), LAMBDA b : RStrip(b.text) # <<>>)

Segments(source, asked) == SelectSeq(BlockSegments(Blocks(source), asked), LAMBDA s : s.source # <<>>)

(* encode_separator and decode_separator: an escaped character has a name. *)
Encoded(sep) ==
    FlattenSeq([i \in DOMAIN sep |->
        IF sep[i] \in White \cup {Escape} THEN <<Escape, <<"name of", sep[i]>>>> ELSE <<sep[i]>>])

Decoded(stored) ==
    LET Read(acc, c) ==
            IF acc.escaped THEN [text |-> Append(acc.text, c[2]), escaped |-> FALSE]
            ELSE IF c = Escape THEN [acc EXCEPT !.escaped = TRUE]
            ELSE [acc EXCEPT !.text = Append(@, c)]
    IN  FoldLeft(Read, [text |-> <<>>, escaped |-> FALSE], stored).text

(* reassemble, of segments that were stored; out has the translations. *)
Reassembled(segments, out) ==
    Append(RStrip(Joined([k \in DOMAIN segments |-> out[k] \o Decoded(Encoded(segments[k].separator))])), Newline)

(* A document nobody has translated comes back with the layout it had, line   *)
(* by line: only what comes before its first block and after its last is not  *)
(* kept. No segment is longer than the budget, none is empty, and a page      *)
(* marker that stands alone is not sent to a model.                           *)
Survives(source, first, segments, asked) ==
    /\ \A k \in DOMAIN segments : Len(segments[k].source) \in 1..Budget(asked)
    /\ first = {} => segments = <<>>
    /\ first # {} =>
           \E lead \in 1..Min(first) :
               /\ lead = 1 \/ source[lead - 1] \in White
               /\ Reassembled(segments, [k \in DOMAIN segments |-> segments[k].source])
                      = Append(RStrip(SubSeq(source, lead, Len(source))), Newline)

LayoutSurvives(source, asked) ==
    Survives(source, {i \in DOMAIN source : source[i] \notin White}, Segments(source, asked), asked)

-----------------------------------------------------------------------------
(* Batches. *)

(* plan_batches, of segments with these lengths. *)
BatchFull(batch, size, length, maxCharacters, maxSegments) ==
    batch # <<>> /\ (size + length > maxCharacters \/ Len(batch) >= maxSegments)

Batches(lengths, maxCharacters, maxSegments) ==
    LET Add(acc, k) ==
            IF BatchFull(acc.current, acc.size, lengths[k], maxCharacters, maxSegments)
            THEN [batches |-> Append(acc.batches, acc.current), current |-> <<k>>, size |-> lengths[k]]
            ELSE [acc EXCEPT !.current = Append(@, k), !.size = @ + lengths[k]]
        end == FoldLeft(Add, [batches |-> <<>>, current |-> <<>>, size |-> 0], [k \in DOMAIN lengths |-> k])
    IN  IF end.current = <<>> THEN end.batches ELSE Append(end.batches, end.current)

(* parse_batch_response: the answer is a sequence of <<marker, body>>; of two *)
(* with one marker the first counts, and a marker nobody asked for does not.  *)
Parsed(answer, expected) ==
    [k \in {a[1] : a \in Range(answer)} \cap expected |->
        answer[Min({i \in DOMAIN answer : answer[i][1] = k})][2]]

(* Every segment is in one batch, in order; no batch is over its limits but   *)
(* one segment alone; and an answer with all markers of its batch, whatever   *)
(* else it repeats or makes up behind them, gives each its own translation.   *)
EachSegmentOnce(lengths, maxCharacters, maxSegments, noise) ==
    LET batches == Batches(lengths, maxCharacters, maxSegments)
        Size(batch) == FoldLeft(+, 0, [i \in DOMAIN batch |-> lengths[batch[i]]])
    IN  /\ Joined(batches) = [k \in DOMAIN lengths |-> k]
        /\ \A b \in DOMAIN batches :
               /\ Len(batches[b]) \in 1..maxSegments
               /\ Size(batches[b]) <= maxCharacters \/ Len(batches[b]) = 1
               /\ LET answer == [i \in DOMAIN batches[b] |-> <<batches[b][i], <<"own", batches[b][i]>>>>] \o noise
                  IN  Parsed(answer, Range(batches[b])) = [k \in Range(batches[b]) |-> <<"own", k>>]

-----------------------------------------------------------------------------
(* Sentinels. A part of a text is frozen when it hides a span; the sentinel   *)
(* of a frozen part is <<"T", its position>>.                                 *)

Sentinel(k) == <<"T", k>>

Loose(t) == [text |-> t, frozen |-> FALSE]

(* finditer, for one of the patterns: the longest span from here, and on. *)
Matches(pattern, t) ==
    LET Here(i) == {n \in 1..Len(t) - i + 1 : SubSeq(t, i, i + n - 1) \in pattern}
        cut[i \in 1..Len(t) + 1] ==
            IF i > Len(t) THEN <<>>
            ELSE IF Here(i) # {}
                 THEN <<[text |-> SubSeq(t, i, i + Max(Here(i)) - 1), frozen |-> TRUE]>> \o cut[i + Max(Here(i))]
            ELSE <<Loose(<<t[i]>>)>> \o cut[i + 1]
    IN  cut[1]

(* Loose characters next to each other are one fragment. *)
Merged(parts) ==
    LET Add(acc, p) ==
            IF acc # <<>> /\ ~p.frozen /\ ~acc[Len(acc)].frozen
            THEN [acc EXCEPT ![Len(acc)].text = @ \o p.text] ELSE Append(acc, p)
    IN  FoldLeft(Add, <<>>, parts)

(* A sentinel is text as well, and has a number in it. *)
Masked_Again(parts, pattern) ==
    Merged(FlattenSeq([k \in DOMAIN parts |->
        IF parts[k].frozen THEN <<[text |-> <<Sentinel(k)>>, frozen |-> TRUE]>> ELSE Matches(pattern, parts[k].text)]))

Masked(parts, pattern) ==
    Merged(FlattenSeq([k \in DOMAIN parts |->
        IF parts[k].frozen THEN <<parts[k]>> ELSE Matches(pattern, parts[k].text)]))

Protected(t) == FoldLeft(Masked, IF t = <<>> THEN <<>> ELSE <<Loose(t)>>, Spans)

(* What a model is sent, and what the sentinels stand for. *)
Sent(parts) == Joined([k \in DOMAIN parts |-> IF parts[k].frozen THEN <<Sentinel(k)>> ELSE parts[k].text])

Tokens(parts) == {k \in DOMAIN parts : parts[k].frozen}

(* restore_placeholders *)
Restored(produced, parts) ==
    Joined([i \in DOMAIN produced |->
        IF \E k \in Tokens(parts) : produced[i] = Sentinel(k) THEN parts[produced[i][2]].text ELSE <<produced[i]>>])

Within(t, u) == \E i \in 0..Len(u) - Len(t) : SubSeq(u, i + 1, i + Len(t)) = t

Missing(restored, parts) == {k \in Tokens(parts) : ~Within(parts[k].text, restored)}

Unresolved(t, parts) == \E i \in DOMAIN t : t[i] \in {Sentinel(k) : k \in 0..Len(parts) + 1}

(* assess_translation, of what a placeholder can do to the score. *)
Issues(restored, parts) ==
    IF RStrip(restored) = <<>> THEN {"empty"}
    ELSE {issue \in {"placeholder_lost", "placeholder_unresolved"} :
             \/ issue = "placeholder_lost" /\ Missing(restored, parts) # {}
             \/ issue = "placeholder_unresolved" /\ Unresolved(restored, parts)}

Score(issues) ==
    LET lost == FoldLeft(+, 0, [i \in 1..Cardinality(issues) |-> Penalty(SetToSeq(issues)[i])])
    IN  IF lost > 100 THEN 0 ELSE 100 - lost

Accepted(restored, parts) == Score(Issues(restored, parts)) >= ReviewThreshold

(* A model that copies what it is sent gives back the text it was hidden in;  *)
(* whatever it answers, the answer passes without a review only when every    *)
(* span that must not be translated stands in it and no sentinel is left.     *)
PlaceholdersReturn(t, Answers) ==
    LET parts == Protected(t)
    IN  /\ Restored(Sent(parts), parts) = t
        /\ \A answer \in Answers :
               LET restored == Restored(answer, parts)
               IN  Accepted(restored, parts) =>
                       /\ \A k \in Tokens(parts) : Within(parts[k].text, restored)
                       /\ ~Unresolved(restored, parts)

-----------------------------------------------------------------------------
(* The glossary: a row has its term in each language, whether it is kept      *)
(* untranslated in all of them, and whether the case of its letters counts.   *)

Folded(t) == [i \in DOMAIN t |-> Lower(t[i])]

In(entry, t) == IF entry.exact THEN t ELSE Folded(t)

(* resolve_glossary, for a pair of languages *)
Entries(rows, from, to) ==
    LET kept == {r \in rows : r.keep}
        given == {r \in rows \ kept : r.terms[from] # <<>> /\ r.terms[to] # <<>>}
    IN  UNION {{[source |-> term, target |-> term, keep |-> TRUE, exact |-> r.exact] :
                   term \in Range(r.terms) \ {<<>>}} : r \in kept}
        \cup {[source |-> r.terms[from], target |-> r.terms[to], keep |-> FALSE, exact |-> r.exact] : r \in given}

(* applicable_glossary: those a model is told of with a text. One entry whose *)
(* case counts keeps the text as it is for all of them.                       *)
Applicable(entries, t) ==
    LET haystack == IF \E e \in entries : e.exact THEN t ELSE Folded(t)
    IN  {e \in entries : Within(In(e, e.source), haystack)}

(* A word does not begin or end within another. *)
WordWithin(w, t) ==
    \E i \in 0..Len(t) - Len(w) :
        /\ SubSeq(t, i + 1, i + Len(w)) = w
        /\ i = 0 \/ t[i] \notin Letters
        /\ i + Len(w) = Len(t) \/ t[i + Len(w) + 1] \notin Letters

(* glossary_violations *)
Violated(entries, t, translated) ==
    {e \in entries :
        /\ ~e.keep
        /\ WordWithin(In(e, e.source), In(e, t))
        /\ ~Within(In(e, e.target), In(e, translated))}

(* A translation is blamed only for terms its model was told of. With entries *)
(* whose case counts among others the code does not keep to it.               *)
GlossaryTold(rows, from, to, t, translated) ==
    LET entries == Entries(rows, from, to)
    IN  (\A e, f \in entries : e.exact = f.exact) =>
            Violated(entries, t, translated) \subseteq Applicable(entries, t)

=============================================================================
