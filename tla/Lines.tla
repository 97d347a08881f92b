-------------------------------- MODULE Lines ---------------------------------
(***************************************************************************)
(* What the parsers of internal/sshprobe do with the lines of an output.   *)
(* A line is a record: its kind k stands for the pattern or the mark that  *)
(* matches it, the other fields for what the pattern captures.             *)
(***************************************************************************)
EXTENDS Integers, Sequences, SequencesExt

None == "none"  \* Go's zero value of what is captured

IsOf(line, kinds) == line.k \in kinds

Has(text, kinds) == \E i \in DOMAIN text : IsOf(text[i], kinds)

\* The index of the first line of these kinds, 0 if there is none.
FirstAt(text, kinds) == SelectInSeq(text, LAMBDA line : IsOf(line, kinds))

\* Field f of the first line of kind k (FindStringSubmatch), or its zero.
Captured(text, k, f, zero) ==
  IF Has(text, {k}) THEN text[FirstAt(text, {k})][f] ELSE zero

\* The lines before the first one of these kinds (cutAtFold).
CutAt(text, kinds) ==
  IF Has(text, kinds) THEN SubSeq(text, 1, FirstAt(text, kinds) - 1) ELSE text

\* The lines after the first one of these kinds, none if there is none.
After(text, kinds) ==
  IF Has(text, kinds) THEN SubSeq(text, FirstAt(text, kinds) + 1, Len(text))
  ELSE <<>>

\* The text from each line of kind k to the next one of it (splitMarkedBlocks).
Blocks(text, k) ==
  LET starts == SelectSeq([i \in DOMAIN text |-> i],
                          LAMBDA i : text[i].k = k)
  IN  [b \in DOMAIN starts |->
         SubSeq(text, starts[b], IF b = Len(starts) THEN Len(text)
                                 ELSE starts[b + 1] - 1)]

Mapped(op(_), s) == [i \in DOMAIN s |-> op(s[i])]
=============================================================================
