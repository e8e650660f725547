----------------------------- MODULE PageRanges -----------------------------
(***************************************************************************)
(* The page ranges of a split (operations/split.py).  The text of a range  *)
(* is what splitting it at commas leaves: a sequence of parts, each a page *)
(* ("7"), an interval ("2-4", "-3", "5-", "-") or blank.  A bound is a     *)
(* number, or one of three markers for a text that is not one.             *)
(***************************************************************************)
EXTENDS Integers, SequencesExt

Blank      == -1   \* nothing but white space
NotDigits  == -2   \* a text isdigit() refuses: "x", "2-3" after a first dash
OddDigit   == -3   \* a text isdigit() accepts and int() refuses: a superscript
Bound == Nat \cup {Blank, NotDigits, OddDigit}

Page(p)        == [dash |-> FALSE, from |-> p, to |-> p]
Interval(p, q) == [dash |-> TRUE, from |-> p, to |-> q]
BlankPart      == Page(Blank)
Part == {part \in [dash : BOOLEAN, from : Bound, to : Bound] : part.dash \/ part.from = part.to}

\* The code of the first of several checks that fails, "none" when all hold;
\* a check is a pair of a condition and a code.
FirstError(checks) ==
  LET failed == {i \in DOMAIN checks : ~checks[i][1]}
  IN  IF failed = {} THEN "none" ELSE checks[Min(failed)][2]

\* What _parse_page_bound returns, where it returns.
PageBound(bound, default) == IF bound = Blank THEN default ELSE bound

\* A page's own text is never blank, so its default is never used.
PartStart(part) == PageBound(part.from, 1)

\* Mutant: an interval with an open end is one page.
PartEnd_OpenIsOnePage(part, n) == PageBound(part.to, PartStart(part))

PartEnd(part, n) == PageBound(part.to, n)

\* int() is called before the next bound is looked at; its ValueError is none
\* of the errors the operation knows.
BoundError(bound) ==
  FirstError(<< <<bound # NotDigits, "INVALID_PAGE_RANGE">>,
                <<bound # OddDigit, "UNEXPECTED_WORKER_ERROR">> >>)

\* A blank part is skipped.
PartError(part, n) ==
  LET readable == BoundError(part.from) = "none" /\ BoundError(part.to) = "none"
  IN  IF part = BlankPart THEN "none"
      ELSE FirstError(<<
        <<BoundError(part.from) = "none", BoundError(part.from)>>,
        <<BoundError(part.to) = "none", BoundError(part.to)>>,
        <<readable => /\ 1 <= PartStart(part)
                      /\ PartStart(part) <= PartEnd(part, n)
                      /\ PartEnd(part, n) <= n, "INVALID_PAGE_RANGE">> >>)

\* The pages of one part, counted from 1.
PartPages(part, n) ==
  IF part = BlankPart THEN <<>>
  ELSE [i \in 1 .. PartEnd(part, n) - PartStart(part) + 1 |-> PartStart(part) + i - 1]

RangePages(range, n) == FlattenSeq([i \in DOMAIN range |-> PartPages(range[i], n)])

RangeError(range, n) ==
  FirstError([i \in DOMAIN range |->
                <<PartError(range[i], n) = "none", PartError(range[i], n)>>]
             \o << <<\E i \in DOMAIN range : range[i] # BlankPart, "INVALID_PAGE_RANGE">> >>)

\* parse_page_ranges: the error it raises, and the pages of every output.
PageRangesError(ranges, n) ==
  FirstError(<< <<ranges # <<>>, "MISSING_PAGE_RANGE">> >>
             \o [i \in DOMAIN ranges |->
                   <<RangeError(ranges[i], n) = "none", RangeError(ranges[i], n)>>])

SelectedPages(ranges, n) == [i \in DOMAIN ranges |-> RangePages(ranges[i], n)]
=============================================================================
