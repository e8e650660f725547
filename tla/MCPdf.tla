------------------------------- MODULE MCPdf --------------------------------
(***************************************************************************)
(* PdfOperations for TLC: the requests worth asking, on documents of one   *)
(* or two pages (up to three for a split).                                 *)
(***************************************************************************)
EXTENDS PdfOperations

CONSTANTS l1, l2, l3

Plain(pages) == [pages |-> pages, pdf |-> TRUE, text |-> "every", name |-> 1]
Mixed(pages) == [Plain(pages) EXCEPT !.text = "some"]
Scan(pages)  == [Plain(pages) EXCEPT !.text = "little"]
Late(doc)    == [doc EXCEPT !.name = 2]
Json         == [Plain(1) EXCEPT !.pdf = FALSE]

Base(op, documents) ==
  [ operation |-> op, documents |-> documents,
    labels |-> [p \in DOMAIN documents |-> NoLabel],
    given |-> {}, bad |-> {}, language |-> "eng", order |-> "as_provided",
    manifest |-> <<>>, allowUnlisted |-> FALSE, ranges |-> <<>>,
    preset |-> "ebook", ocrIfNeeded |-> FALSE ]

\* Splits: one and two ranges of up to two parts over a document of three pages.
Bounds == {Blank, NotDigits, OddDigit, 0, 1, 3, 4}
Parts == {BlankPart} \cup {Page(p) : p \in Bounds} \cup {Interval(p, q) : p, q \in Bounds}
CommonParts ==
  {BlankPart, Page(1), Page(3), Page(4), Interval(Blank, 2), Interval(2, Blank), Interval(2, 2)}
SplitRanges ==
  {<<>>, << <<>> >>}
  \cup {<< <<a>> >> : a \in Parts} \cup {<< <<a, b>> >> : a \in Parts, b \in CommonParts}
  \cup {<< <<a>>, <<b>> >> : a, b \in CommonParts}
Splits ==
  {[Base("split", <<Plain(3)>>) EXCEPT !.given = {"page_ranges"}, !.ranges = r] : r \in SplitRanges}

\* Packets in manifest order: up to three inputs with any labels, up to two
\* sections with the counts that matter for as many.
Sections ==
  {Section(l, count[1], count[2]) : l \in {l1, l2}, count \in {<<1, Null>>, <<0, 1>>, <<2, 2>>}}
OddSections ==
  {Section(NoLabel, 1, Null), Section(l1, BadCount, Null), Section(l1, 1, BadCount),
   Section(l1, 1, 0), [Section(l1, 1, Null) EXCEPT !.wellFormed = FALSE]}
Manifests ==
  {<<>>} \cup {<<s>> : s \in Sections \cup OddSections} \cup {<<s, t>> : s, t \in Sections}
Inputs == {<<Scan(1), Plain(2)>>, <<Plain(1), Scan(2), Scan(1)>>}
ManifestPackets ==
  UNION {{[Base("prepare_packet", docs) EXCEPT
             !.given = {"order", "manifest"} \cup IF allow THEN {"allow_unlisted"} ELSE {},
             !.order = "manifest", !.labels = labels, !.manifest = manifest,
             !.allowUnlisted = allow] :
            labels \in [DOMAIN docs -> {l1, l2, l3}],
            manifest \in Manifests, allow \in BOOLEAN} : docs \in Inputs}

\* Packets in the other orders, and requests with labels or settings that do
\* not belong to them.
PlainInputs ==
  Inputs \cup {<<Late(Plain(1)), Plain(2)>>, <<Late(Scan(2)), Scan(1), Plain(1)>>,
               <<Mixed(2), Scan(1)>>,
               <<Plain(1)>>, <<Plain(1), Plain(MaxPages + 1)>>, <<Plain(1), Json>>}
PlainPackets ==
  {[Base("prepare_packet", docs) EXCEPT !.order = order, !.given = {"order"} \cup given,
      !.bad = bad, !.language = language, !.allowUnlisted = "allow_unlisted" \in given,
      !.labels = [@ EXCEPT ![1] = label]] :
     docs \in PlainInputs, order \in PacketOrders \cup {"by_hand"},
     given \in {{}, {"manifest"}, {"allow_unlisted"}}, bad \in {{}, {"order"}},
     language \in {"eng", "+", "?"}, label \in {NoLabel, l1}}

Merges ==
  {[Base("merge", docs) EXCEPT !.ocrIfNeeded = ocr, !.given = {"ocr_if_needed"} \cup given,
      !.bad = bad, !.language = language] :
     docs \in PlainInputs, ocr \in BOOLEAN, given \in {{}, {"language", "deskew"}, {"order"}},
     bad \in {{}, {"ocr_if_needed"}}, language \in {"eng", "+", "?"}}

Singles ==
  {[Base(op, docs) EXCEPT !.given = given, !.bad = bad, !.language = language, !.preset = preset] :
     op \in {"ocr", "compress", "extract_text", "split"},
     docs \in {<<Plain(2)>>, <<Scan(1)>>, <<Json>>, <<Plain(MaxPages + 1)>>, <<Plain(1), Plain(1)>>},
     given \in {{}, {"deskew"}, {"unknown"}, {"page_ranges"}}, bad \in {{}, {"deskew"}},
     language \in {"eng", "+", "?"}, preset \in {"ebook", "best"}}

AllRequests ==
  Splits \cup ManifestPackets
  \cup {r \in PlainPackets \cup Merges \cup Singles : r.bad \subseteq r.given}
=============================================================================
