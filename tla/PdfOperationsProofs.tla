------------------------ MODULE PdfOperationsProofs -------------------------
(***************************************************************************)
(* Theorems about PdfOperations, for any set of requests, with documents   *)
(* of any number of pages, and any way the tools may fail.                 *)
(***************************************************************************)
EXTENDS PdfOperations, SequenceLemmas

-----------------------------------------------------------------------------
(* The first of several checks that fails.                                 *)

IsCode(c) == c \notin {"none"} \cup Success

\* What a sequence of checks yields: no error when all hold, else a code.
Yields(error, hold) == IF hold THEN error = "none" ELSE IsCode(error)

LEMMA FirstErrorOf ==
  ASSUME NEW S, NEW checks \in Seq(S),
         \A i \in 1 .. Len(checks) : ~checks[i][1] => IsCode(checks[i][2])
  PROVE  Yields(FirstError(checks), \A i \in 1 .. Len(checks) : checks[i][1])
<1> DEFINE failed == {i \in DOMAIN checks : ~checks[i][1]}
<1>1. DOMAIN checks = 1 .. Len(checks) /\ Len(checks) \in Nat
  BY LenProperties
<1>2. CASE failed = {}
  BY <1>1, <1>2 DEF FirstError, Yields
<1>3. CASE failed # {}
  <2>1. failed \subseteq Nat
    BY <1>1
  <2>2. Min(failed) \in failed
    <3> HIDE DEF failed
    <3> QED
      BY <1>3, <2>1, MinIsLeast
  <2>3. IsCode(checks[Min(failed)][2])
    BY <1>1, <2>2
  <2>4. FirstError(checks) = checks[Min(failed)][2]
    BY <1>3 DEF FirstError
  <2>5. ~ \A i \in 1 .. Len(checks) : checks[i][1]
    BY <1>1, <1>3
  <2> QED
    BY <2>3, <2>4, <2>5 DEF Yields
<1> QED
  BY <1>2, <1>3

LEMMA ErrorOfOne ==
  ASSUME NEW p1 \in BOOLEAN,
         NEW a1,
         p1 \/ IsCode(a1)
  PROVE  Yields(FirstError(
           << <<p1, a1>> >>),
           p1)
<1> DEFINE c == << <<p1, a1>> >>
<1>1. /\ c \in Seq({<<p1, a1>>}) /\ Len(c) = 1
      /\ c[1][1] = p1 /\ c[1][2] = a1
  OBVIOUS
<1> HIDE DEF c
<1>2. \A i \in 1 .. Len(c) : ~c[i][1] => IsCode(c[i][2])
  BY <1>1
<1>3. Yields(FirstError(c), \A i \in 1 .. Len(c) : c[i][1])
  BY <1>1, <1>2, FirstErrorOf
<1>4. (\A i \in 1 .. Len(c) : c[i][1]) <=> p1
  BY <1>1
<1> QED
  BY <1>3, <1>4 DEF c, Yields

LEMMA ErrorOfTwo ==
  ASSUME NEW p1 \in BOOLEAN, NEW p2 \in BOOLEAN,
         NEW a1, NEW a2,
         p1 \/ IsCode(a1), p2 \/ IsCode(a2)
  PROVE  Yields(FirstError(
           << <<p1, a1>>, <<p2, a2>> >>),
           p1 /\ p2)
<1> DEFINE c == << <<p1, a1>>, <<p2, a2>> >>
<1>1. /\ c \in Seq({<<p1, a1>>, <<p2, a2>>}) /\ Len(c) = 2
      /\ c[1][1] = p1 /\ c[1][2] = a1
      /\ c[2][1] = p2 /\ c[2][2] = a2
  OBVIOUS
<1> HIDE DEF c
<1>2. \A i \in 1 .. Len(c) : ~c[i][1] => IsCode(c[i][2])
  BY <1>1
<1>3. Yields(FirstError(c), \A i \in 1 .. Len(c) : c[i][1])
  BY <1>1, <1>2, FirstErrorOf
<1>4. (\A i \in 1 .. Len(c) : c[i][1]) <=> p1 /\ p2
  BY <1>1
<1> QED
  BY <1>3, <1>4 DEF c, Yields

LEMMA ErrorOfThree ==
  ASSUME NEW p1 \in BOOLEAN, NEW p2 \in BOOLEAN, NEW p3 \in BOOLEAN,
         NEW a1, NEW a2, NEW a3,
         p1 \/ IsCode(a1), p2 \/ IsCode(a2), p3 \/ IsCode(a3)
  PROVE  Yields(FirstError(
           << <<p1, a1>>, <<p2, a2>>, <<p3, a3>> >>),
           p1 /\ p2 /\ p3)
<1> DEFINE c == << <<p1, a1>>, <<p2, a2>>, <<p3, a3>> >>
<1>1. /\ c \in Seq({<<p1, a1>>, <<p2, a2>>, <<p3, a3>>}) /\ Len(c) = 3
      /\ c[1][1] = p1 /\ c[1][2] = a1
      /\ c[2][1] = p2 /\ c[2][2] = a2
      /\ c[3][1] = p3 /\ c[3][2] = a3
  OBVIOUS
<1> HIDE DEF c
<1>2. \A i \in 1 .. Len(c) : ~c[i][1] => IsCode(c[i][2])
  BY <1>1
<1>3. Yields(FirstError(c), \A i \in 1 .. Len(c) : c[i][1])
  BY <1>1, <1>2, FirstErrorOf
<1>4. (\A i \in 1 .. Len(c) : c[i][1]) <=> p1 /\ p2 /\ p3
  BY <1>1
<1> QED
  BY <1>3, <1>4 DEF c, Yields

LEMMA ErrorOfFour ==
  ASSUME NEW p1 \in BOOLEAN, NEW p2 \in BOOLEAN, NEW p3 \in BOOLEAN,
         NEW p4 \in BOOLEAN,
         NEW a1, NEW a2, NEW a3, NEW a4,
         p1 \/ IsCode(a1), p2 \/ IsCode(a2), p3 \/ IsCode(a3),
         p4 \/ IsCode(a4)
  PROVE  Yields(FirstError(
           << <<p1, a1>>, <<p2, a2>>, <<p3, a3>>, <<p4, a4>> >>),
           p1 /\ p2 /\ p3 /\ p4)
<1> DEFINE c == << <<p1, a1>>, <<p2, a2>>, <<p3, a3>>, <<p4, a4>> >>
<1>1. /\ c \in Seq({<<p1, a1>>, <<p2, a2>>, <<p3, a3>>, <<p4, a4>>}) /\ Len(c) = 4
      /\ c[1][1] = p1 /\ c[1][2] = a1
      /\ c[2][1] = p2 /\ c[2][2] = a2
      /\ c[3][1] = p3 /\ c[3][2] = a3
      /\ c[4][1] = p4 /\ c[4][2] = a4
  OBVIOUS
<1> HIDE DEF c
<1>2. \A i \in 1 .. Len(c) : ~c[i][1] => IsCode(c[i][2])
  BY <1>1
<1>3. Yields(FirstError(c), \A i \in 1 .. Len(c) : c[i][1])
  BY <1>1, <1>2, FirstErrorOf
<1>4. (\A i \in 1 .. Len(c) : c[i][1]) <=> p1 /\ p2 /\ p3 /\ p4
  BY <1>1
<1> QED
  BY <1>3, <1>4 DEF c, Yields

LEMMA ErrorOfFive ==
  ASSUME NEW p1 \in BOOLEAN, NEW p2 \in BOOLEAN, NEW p3 \in BOOLEAN,
         NEW p4 \in BOOLEAN, NEW p5 \in BOOLEAN,
         NEW a1, NEW a2, NEW a3, NEW a4, NEW a5,
         p1 \/ IsCode(a1), p2 \/ IsCode(a2), p3 \/ IsCode(a3),
         p4 \/ IsCode(a4), p5 \/ IsCode(a5)
  PROVE  Yields(FirstError(
           << <<p1, a1>>, <<p2, a2>>, <<p3, a3>>, <<p4, a4>>, <<p5, a5>> >>),
           p1 /\ p2 /\ p3 /\ p4 /\ p5)
<1> DEFINE c == << <<p1, a1>>, <<p2, a2>>, <<p3, a3>>, <<p4, a4>>, <<p5, a5>> >>
<1>1. /\ c \in Seq({<<p1, a1>>, <<p2, a2>>, <<p3, a3>>, <<p4, a4>>, <<p5, a5>>}) /\ Len(c) = 5
      /\ c[1][1] = p1 /\ c[1][2] = a1
      /\ c[2][1] = p2 /\ c[2][2] = a2
      /\ c[3][1] = p3 /\ c[3][2] = a3
      /\ c[4][1] = p4 /\ c[4][2] = a4
      /\ c[5][1] = p5 /\ c[5][2] = a5
  OBVIOUS
<1> HIDE DEF c
<1>2. \A i \in 1 .. Len(c) : ~c[i][1] => IsCode(c[i][2])
  BY <1>1
<1>3. Yields(FirstError(c), \A i \in 1 .. Len(c) : c[i][1])
  BY <1>1, <1>2, FirstErrorOf
<1>4. (\A i \in 1 .. Len(c) : c[i][1]) <=> p1 /\ p2 /\ p3 /\ p4 /\ p5
  BY <1>1
<1> QED
  BY <1>3, <1>4 DEF c, Yields

LEMMA ErrorOfSix ==
  ASSUME NEW p1 \in BOOLEAN, NEW p2 \in BOOLEAN, NEW p3 \in BOOLEAN,
         NEW p4 \in BOOLEAN, NEW p5 \in BOOLEAN, NEW p6 \in BOOLEAN,
         NEW a1, NEW a2, NEW a3, NEW a4, NEW a5, NEW a6,
         p1 \/ IsCode(a1), p2 \/ IsCode(a2), p3 \/ IsCode(a3),
         p4 \/ IsCode(a4), p5 \/ IsCode(a5), p6 \/ IsCode(a6)
  PROVE  Yields(FirstError(
           << <<p1, a1>>, <<p2, a2>>, <<p3, a3>>, <<p4, a4>>, <<p5, a5>>, <<p6, a6>> >>),
           p1 /\ p2 /\ p3 /\ p4 /\ p5 /\ p6)
<1> DEFINE c == << <<p1, a1>>, <<p2, a2>>, <<p3, a3>>, <<p4, a4>>, <<p5, a5>>, <<p6, a6>> >>
<1>1. /\ c \in Seq({<<p1, a1>>, <<p2, a2>>, <<p3, a3>>, <<p4, a4>>, <<p5, a5>>, <<p6, a6>>}) /\ Len(c) = 6
      /\ c[1][1] = p1 /\ c[1][2] = a1
      /\ c[2][1] = p2 /\ c[2][2] = a2
      /\ c[3][1] = p3 /\ c[3][2] = a3
      /\ c[4][1] = p4 /\ c[4][2] = a4
      /\ c[5][1] = p5 /\ c[5][2] = a5
      /\ c[6][1] = p6 /\ c[6][2] = a6
  OBVIOUS
<1> HIDE DEF c
<1>2. \A i \in 1 .. Len(c) : ~c[i][1] => IsCode(c[i][2])
  BY <1>1
<1>3. Yields(FirstError(c), \A i \in 1 .. Len(c) : c[i][1])
  BY <1>1, <1>2, FirstErrorOf
<1>4. (\A i \in 1 .. Len(c) : c[i][1]) <=> p1 /\ p2 /\ p3 /\ p4 /\ p5 /\ p6
  BY <1>1
<1> QED
  BY <1>3, <1>4 DEF c, Yields

\* The checks c, all in S: each that fails has a code, and all hold just when
\* "hold" does.
Checks(S, c, hold) ==
  /\ c \in Seq(S)
  /\ \A i \in 1 .. Len(c) : ~c[i][1] => IsCode(c[i][2])
  /\ (\A i \in 1 .. Len(c) : c[i][1]) <=> hold

LEMMA ChecksYield ==
  ASSUME NEW S, NEW c, NEW hold \in BOOLEAN, Checks(S, c, hold)
  PROVE  Yields(FirstError(c), hold)
<1>1. Yields(FirstError(c), \A i \in 1 .. Len(c) : c[i][1])
  BY FirstErrorOf DEF Checks
<1> QED
  BY <1>1 DEF Checks, Yields

LEMMA ChecksOne ==
  ASSUME NEW S, NEW p1 \in BOOLEAN, NEW a1, p1 \/ IsCode(a1), <<p1, a1>> \in S
  PROVE  Checks(S, << <<p1, a1>> >>, p1)
<1> DEFINE c == << <<p1, a1>> >>
<1>1. c \in Seq(S) /\ Len(c) = 1 /\ c[1][1] = p1 /\ c[1][2] = a1
  OBVIOUS
<1> HIDE DEF c
<1>2. Checks(S, c, p1)
  BY <1>1 DEF Checks
<1> QED
  BY <1>2 DEF c

LEMMA ChecksTwo ==
  ASSUME NEW S, NEW p1 \in BOOLEAN, NEW p2 \in BOOLEAN, NEW a1, NEW a2,
         p1 \/ IsCode(a1), p2 \/ IsCode(a2), {<<p1, a1>>, <<p2, a2>>} \subseteq S
  PROVE  Checks(S, << <<p1, a1>>, <<p2, a2>> >>, p1 /\ p2)
<1> DEFINE c == << <<p1, a1>>, <<p2, a2>> >>
<1>1. /\ c \in Seq(S) /\ Len(c) = 2
      /\ c[1][1] = p1 /\ c[1][2] = a1 /\ c[2][1] = p2 /\ c[2][2] = a2
  OBVIOUS
<1> HIDE DEF c
<1>2. Checks(S, c, p1 /\ p2)
  BY <1>1 DEF Checks
<1> QED
  BY <1>2 DEF c

LEMMA ChecksThree ==
  ASSUME NEW S, NEW p1 \in BOOLEAN, NEW p2 \in BOOLEAN, NEW p3 \in BOOLEAN,
         NEW a1, NEW a2, NEW a3, p1 \/ IsCode(a1), p2 \/ IsCode(a2), p3 \/ IsCode(a3),
         {<<p1, a1>>, <<p2, a2>>, <<p3, a3>>} \subseteq S
  PROVE  Checks(S, << <<p1, a1>>, <<p2, a2>>, <<p3, a3>> >>, p1 /\ p2 /\ p3)
<1> DEFINE c == << <<p1, a1>>, <<p2, a2>>, <<p3, a3>> >>
<1>1. /\ c \in Seq(S) /\ Len(c) = 3 /\ c[1][1] = p1 /\ c[1][2] = a1
      /\ c[2][1] = p2 /\ c[2][2] = a2 /\ c[3][1] = p3 /\ c[3][2] = a3
  OBVIOUS
<1> HIDE DEF c
<1>2. Checks(S, c, p1 /\ p2 /\ p3)
  BY <1>1 DEF Checks
<1> QED
  BY <1>2 DEF c

LEMMA ChecksEach ==
  ASSUME NEW S, NEW n \in Nat, NEW c \in [1 .. n -> S],
         \A i \in 1 .. n : ~c[i][1] => IsCode(c[i][2])
  PROVE  Checks(S, c, \A i \in 1 .. n : c[i][1])
<1>1. c \in Seq(S) /\ Len(c) = n
  OBVIOUS
<1> QED
  BY <1>1 DEF Checks

LEMMA ChecksConcat ==
  ASSUME NEW S, NEW one, NEW two, NEW h1 \in BOOLEAN, NEW h2 \in BOOLEAN,
         Checks(S, one, h1), Checks(S, two, h2)
  PROVE  Checks(S, one \o two, h1 /\ h2)
<1> DEFINE c == Cat(one, two)
<1>0. one \in Seq(S) /\ two \in Seq(S)
  BY DEF Checks
<1>1. Len(one) \in Nat /\ Len(two) \in Nat
  BY <1>0, LenProperties
<1>2. /\ c \in Seq(S) /\ Len(c) = Len(one) + Len(two)
      /\ \A i \in 1 .. Len(one) + Len(two) :
           c[i] = IF i <= Len(one) THEN one[i] ELSE two[i - Len(one)]
  BY <1>0, CatProperties
<1>3. \A i \in 1 .. Len(one) : c[i] = one[i] /\ i \in 1 .. Len(c)
  BY <1>1, <1>2
<1>4. \A i \in 1 .. Len(two) : c[Len(one) + i] = two[i] /\ Len(one) + i \in 1 .. Len(c)
  <2> SUFFICES ASSUME NEW i \in 1 .. Len(two)
               PROVE  c[Len(one) + i] = two[i] /\ Len(one) + i \in 1 .. Len(c)
    OBVIOUS
  <2>1. /\ Len(one) + i \in 1 .. Len(one) + Len(two) /\ ~ (Len(one) + i <= Len(one))
        /\ (Len(one) + i) - Len(one) = i
    BY <1>1
  <2> HIDE DEF c
  <2> QED
    BY <1>2, <2>1
<1>5. \A i \in 1 .. Len(c) : i \in 1 .. Len(one) \/ i - Len(one) \in 1 .. Len(two)
  BY <1>1, <1>2
<1> HIDE DEF c
<1>6. \A i \in 1 .. Len(c) : \/ i \in 1 .. Len(one) /\ c[i] = one[i]
                             \/ i - Len(one) \in 1 .. Len(two) /\ c[i] = two[i - Len(one)]
  BY <1>1, <1>2, <1>5
<1>7. \A i \in 1 .. Len(c) : ~c[i][1] => IsCode(c[i][2])
  BY <1>6 DEF Checks
<1>8. (\A i \in 1 .. Len(c) : c[i][1]) <=> (h1 /\ h2)
  BY <1>3, <1>4, <1>6 DEF Checks
<1>9. Checks(S, c, h1 /\ h2)
  BY <1>2, <1>7, <1>8 DEF Checks
<1> QED
  BY <1>9 DEF c, Cat

-----------------------------------------------------------------------------
(* The checks of a request, when it is made and when it is run.            *)

LEMMA InputResult ==
  ASSUME NEW document \in Document, MaxPages \in Nat
  PROVE  Yields(InputError(document), document.pdf /\ document.pages <= MaxPages)
<1>1. IsCode("UNSUPPORTED_FILE_TYPE") /\ IsCode("PAGE_LIMIT_EXCEEDED")
  BY DEF IsCode, Success
<1>2. document.pdf \in BOOLEAN /\ (document.pages <= MaxPages) \in BOOLEAN
  BY DEF Document
<1>3. Yields(FirstError(<< <<document.pdf, "UNSUPPORTED_FILE_TYPE">>,
                           <<document.pages <= MaxPages, "PAGE_LIMIT_EXCEEDED">> >>),
             document.pdf /\ document.pages <= MaxPages)
  BY <1>1, <1>2, ErrorOfTwo
<1> QED
  BY <1>3 DEF InputError

\* Nothing is wrong with section i.
SectionGood(manifest, i) ==
  LET s == manifest[i]
  IN  /\ s.wellFormed /\ s.label \in Labels
      /\ \A j \in 1 .. i - 1 : manifest[j].label # s.label
      /\ s.min # BadCount /\ s.max # BadCount
      /\ s.max # Null => s.min <= s.max

LEMMA SectionResult ==
  ASSUME NEW manifest \in Seq(AnySection), NEW i \in 1 .. Len(manifest)
  PROVE  Yields(SectionError(manifest, i), SectionGood(manifest, i))
<1>1. IsCode("INVALID_PACKET_MANIFEST") /\ IsCode("INVALID_PACKET_LABEL")
  BY DEF IsCode, Success
<1> DEFINE s == manifest[i]
           p1 == s.wellFormed
           p2 == s.label \in Labels
           p3 == \A j \in 1 .. i - 1 : manifest[j].label # s.label
           p4 == s.min # BadCount
           p5 == s.max # BadCount
           p6 == s.max # Null => s.min <= s.max
<1>2. s \in AnySection
  BY ElementOfSeq
<1>3. /\ p1 \in BOOLEAN /\ p2 \in BOOLEAN /\ p3 \in BOOLEAN
      /\ p4 \in BOOLEAN /\ p5 \in BOOLEAN /\ p6 \in BOOLEAN
  BY <1>2 DEF AnySection
<1>4. Yields(FirstError(<<
               <<p1, "INVALID_PACKET_MANIFEST">>, <<p2, "INVALID_PACKET_LABEL">>,
               <<p3, "INVALID_PACKET_MANIFEST">>, <<p4, "INVALID_PACKET_MANIFEST">>,
               <<p5, "INVALID_PACKET_MANIFEST">>, <<p6, "INVALID_PACKET_MANIFEST">> >>),
             p1 /\ p2 /\ p3 /\ p4 /\ p5 /\ p6)
  <2> HIDE DEF p1, p2, p3, p4, p5, p6
  <2> QED
    BY SMTT(120), <1>1, <1>3, ErrorOfSix
<1> QED
  BY <1>4 DEF SectionError, SectionGood, Yields

\* Labels, sections and counts are as they must be.
ManifestGood(inputCount, labels, manifest, allowUnlisted) ==
  /\ Len(labels) = inputCount
  /\ \A p \in DOMAIN labels : labels[p] \in Labels
  /\ Len(manifest) \in 1 .. MaxSections
  /\ \A i \in DOMAIN manifest : SectionGood(manifest, i)
  /\ allowUnlisted \/ \A p \in DOMAIN labels : labels[p] \in Listed(manifest)
  /\ \A i \in DOMAIN manifest : Satisfied(manifest[i], labels)

LEMMA ManifestResult ==
  ASSUME NEW manifest \in Seq(AnySection), NEW inputCount \in Nat,
         NEW labels \in Seq(Labels \cup {NoLabel}), NEW allowUnlisted \in BOOLEAN
  PROVE  Yields(ManifestError(inputCount, labels, manifest, allowUnlisted),
                ManifestGood(inputCount, labels, manifest, allowUnlisted))
<1> DEFINE n == Len(manifest)
           e(i) == SectionError(manifest, i)
           p1 == Len(labels) = inputCount
           p2 == \A p \in DOMAIN labels : labels[p] \in Labels
           p3 == Len(manifest) \in 1 .. MaxSections
           q1 == allowUnlisted \/ \A p \in DOMAIN labels : labels[p] \in Listed(manifest)
           q2 == \A i \in DOMAIN manifest : Satisfied(manifest[i], labels)
           c1 == <<p1, "INVALID_PACKET_LABELS">>
           c2 == <<p2, "INVALID_PACKET_LABEL">>
           c3 == <<p3, "INVALID_PACKET_MANIFEST">>
           d1 == <<q1, "PACKET_LABEL_NOT_IN_MANIFEST">>
           d2 == <<q2, "PACKET_MANIFEST_COUNT_MISMATCH">>
           each == [i \in DOMAIN manifest |-> <<e(i) = "none", e(i)>>]
           S == {c1, c2, c3} \cup {d1, d2} \cup {<<e(i) = "none", e(i)>> : i \in 1 .. n}
           all == \A i \in 1 .. n : e(i) = "none"
<1>1. /\ p1 \in BOOLEAN /\ p2 \in BOOLEAN /\ p3 \in BOOLEAN /\ q1 \in BOOLEAN /\ q2 \in BOOLEAN
      /\ all \in BOOLEAN
  OBVIOUS
<1>2. /\ IsCode("INVALID_PACKET_LABELS") /\ IsCode("INVALID_PACKET_LABEL")
      /\ IsCode("INVALID_PACKET_MANIFEST") /\ IsCode("PACKET_LABEL_NOT_IN_MANIFEST")
      /\ IsCode("PACKET_MANIFEST_COUNT_MISMATCH")
  BY DEF IsCode, Success
<1>3. DOMAIN manifest = 1 .. n /\ n \in Nat
  BY LenProperties
<1>4. \A i \in 1 .. n : Yields(e(i), SectionGood(manifest, i))
  BY SectionResult
<1>5. each \in [1 .. n -> S] /\ \A i \in 1 .. n : each[i][1] <=> e(i) = "none"
  <2>1. each = [i \in 1 .. n |-> <<e(i) = "none", e(i)>>]
    BY <1>3
  <2> HIDE DEF e
  <2>2. \A i \in 1 .. n : <<e(i) = "none", e(i)>> \in S
    OBVIOUS
  <2>3. \A i \in 1 .. n : each[i] = <<e(i) = "none", e(i)>>
    BY <2>1
  <2> HIDE DEF each
  <2>4. \A i \in 1 .. n : each[i][1] <=> e(i) = "none"
    <3>1. \A i \in 1 .. n : <<e(i) = "none", e(i)>>[1] <=> e(i) = "none"
      OBVIOUS
    <3> QED
      BY <2>3, <3>1, Zenon
  <2> HIDE DEF S
  <2> QED
    BY <2>1, <2>2, <2>4
<1>6. \A i \in 1 .. n : ~each[i][1] => IsCode(each[i][2])
  BY <1>3, <1>4 DEF Yields
<1>7. {c1, c2, c3} \subseteq S /\ {d1, d2} \subseteq S
  OBVIOUS
<1>8. Checks(S, <<c1, c2, c3>>, p1 /\ p2 /\ p3)
  <2> HIDE DEF S, p1, p2, p3
  <2> QED
    BY SMTT(60), <1>1, <1>2, <1>7, ChecksThree
<1>9. Checks(S, <<d1, d2>>, q1 /\ q2)
  <2> HIDE DEF S, q1, q2
  <2> QED
    BY <1>1, <1>2, <1>7, ChecksTwo
<1>10. Checks(S, each, all)
  <2> HIDE DEF each, S
  <2>1. Checks(S, each, \A i \in 1 .. n : each[i][1])
    BY <1>3, <1>5, <1>6, ChecksEach
  <2> QED
    BY <1>5, <2>1 DEF Checks
<1>11. Yields(FirstError((<<c1, c2, c3>> \o each) \o <<d1, d2>>),
              ((p1 /\ p2 /\ p3) /\ all) /\ (q1 /\ q2))
  <2> HIDE DEF each, S, p1, p2, p3, q1, q2, all, c1, c2, c3, d1, d2
  <2>1. Checks(S, <<c1, c2, c3>> \o each, (p1 /\ p2 /\ p3) /\ all)
    BY <1>1, <1>8, <1>10, ChecksConcat
  <2>2. Checks(S, (<<c1, c2, c3>> \o each) \o <<d1, d2>>, ((p1 /\ p2 /\ p3) /\ all) /\ (q1 /\ q2))
    BY <1>1, <1>9, <2>1, ChecksConcat
  <2> QED
    BY <1>1, <2>2, ChecksYield
<1>12. all <=> \A i \in DOMAIN manifest : SectionGood(manifest, i)
  BY <1>3, <1>4 DEF Yields, IsCode
<1>13. ManifestError(inputCount, labels, manifest, allowUnlisted)
         = FirstError((<<c1, c2, c3>> \o each) \o <<d1, d2>>)
  BY DEF ManifestError
<1>14. ManifestGood(inputCount, labels, manifest, allowUnlisted)
         <=> ((p1 /\ p2 /\ p3) /\ all) /\ (q1 /\ q2)
  BY <1>12 DEF ManifestGood
<1> HIDE DEF each, S, p1, p2, p3, q1, q2, all, c1, c2, c3, d1, d2
<1> QED
  BY <1>11, <1>13, <1>14 DEF Yields

\* What the assumption on the requests says of one of them.
LEMMA RequestTypes ==
  ASSUME NEW r \in Requests
  PROVE  /\ r.operation \in Operations /\ MaxPages \in Nat
         /\ r.documents \in Seq(Document) /\ Len(r.documents) \in Nat /\ Len(r.documents) >= 1
         /\ r.labels \in Seq(Labels \cup {NoLabel}) /\ Len(r.labels) = Len(r.documents)
         /\ r.allowUnlisted \in BOOLEAN /\ r.ocrIfNeeded \in BOOLEAN
         /\ r.allowUnlisted => "allow_unlisted" \in r.given
         /\ r.manifest \in Seq(AnySection) /\ r.ranges \in Seq(Seq(Part))
         /\ \A i \in 1 .. Len(r.documents) :
              r.documents[i] \in Document /\ r.documents[i].pages \in Nat \ {0}
<1>1. r.documents \in Seq(Document) /\ r.documents # <<>>
  BY RequestsAssumption
<1>2. Len(r.documents) \in Nat /\ Len(r.documents) >= 1
  BY <1>1, EmptySeq, LenProperties
<1>3. \A i \in 1 .. Len(r.documents) : r.documents[i] \in Document
  BY <1>1, ElementOfSeq
<1>4. \A i \in 1 .. Len(r.documents) : r.documents[i].pages \in Nat \ {0}
  BY <1>3 DEF Document
<1> QED
  BY <1>1, <1>2, <1>3, <1>4, RequestsAssumption

\* The error is one of ours, or none.
IsResult(error) == error = "none" \/ IsCode(error)

ManifestOf(r) == ManifestGood(Len(r.documents), r.labels, r.manifest, r.allowUnlisted)

LEMMA PacketOptionResult ==
  ASSUME NEW r \in Requests
  PROVE  Yields(PacketOptionError(r),
                /\ "deskew" \notin r.bad /\ r.language # "?" /\ r.order \in PacketOrders
                /\ r.order = "manifest" => "allow_unlisted" \notin r.bad /\ ManifestOf(r)
                /\ r.order = "manifest" \/ /\ \A p \in DOMAIN r.labels : r.labels[p] = NoLabel
                                           /\ r.given \cap {"manifest", "allow_unlisted"} = {})
<1> DEFINE e == ManifestError(Len(r.documents), r.labels, r.manifest, r.allowUnlisted)
           p1 == "deskew" \notin r.bad
           p2 == r.language # "?"
           p3 == r.order \in PacketOrders
           p4 == r.order = "manifest" => "allow_unlisted" \notin r.bad
           p5 == r.order = "manifest" => e = "none"
           p6 == r.order = "manifest" \/ /\ \A p \in DOMAIN r.labels : r.labels[p] = NoLabel
                                         /\ r.given \cap {"manifest", "allow_unlisted"} = {}
<1>1. /\ p1 \in BOOLEAN /\ p2 \in BOOLEAN /\ p3 \in BOOLEAN
      /\ p4 \in BOOLEAN /\ p5 \in BOOLEAN /\ p6 \in BOOLEAN
  OBVIOUS
<1>2. /\ IsCode("INVALID_PARAMETERS") /\ IsCode("INVALID_OCR_LANGUAGE")
      /\ IsCode("INVALID_PACKET_ORDER") /\ IsCode("INVALID_PACKET_MANIFEST")
      /\ IsCode("PACKET_MANIFEST_NOT_ENABLED")
  BY DEF IsCode, Success
<1>3. Yields(e, ManifestOf(r))
  BY RequestTypes, ManifestResult DEF ManifestOf
<1>4. p5 \/ IsCode(e)
  BY <1>3 DEF Yields
<1>5. (e = "none") <=> ManifestOf(r)
  BY <1>3 DEF Yields, IsCode
<1>6. Yields(FirstError(<<
               <<p1, "INVALID_PARAMETERS">>, <<p2, "INVALID_OCR_LANGUAGE">>,
               <<p3, "INVALID_PACKET_ORDER">>, <<p4, "INVALID_PACKET_MANIFEST">>,
               <<p5, e>>, <<p6, "PACKET_MANIFEST_NOT_ENABLED">> >>),
             p1 /\ p2 /\ p3 /\ p4 /\ p5 /\ p6)
  <2> HIDE DEF p1, p2, p3, p4, p5, p6, e
  <2> QED
    BY SMTT(120), <1>1, <1>2, <1>4, ErrorOfSix
<1>7. PacketOptionError(r) = FirstError(<<
               <<p1, "INVALID_PARAMETERS">>, <<p2, "INVALID_OCR_LANGUAGE">>,
               <<p3, "INVALID_PACKET_ORDER">>, <<p4, "INVALID_PACKET_MANIFEST">>,
               <<p5, e>>, <<p6, "PACKET_MANIFEST_NOT_ENABLED">> >>)
  BY DEF PacketOptionError, TypeError, LanguageError
<1> QED
  BY <1>5, <1>6, <1>7 DEF Yields

LEMMA OptionResult ==
  ASSUME NEW r \in Requests
  PROVE  /\ IsResult(OptionError(r))
         /\ OptionError(r) = "none" =>
              /\ r.operation = "split" => "page_ranges" \in r.given \ r.bad
              /\ r.operation = "compress" => r.preset \in Presets
              /\ r.operation = "prepare_packet" => PacketOptionError(r) = "none"
<1>1. /\ IsCode("INVALID_PARAMETERS") /\ IsCode("INVALID_OCR_LANGUAGE")
      /\ IsCode("INVALID_COMPRESSION_PRESET")
  BY DEF IsCode, Success
<1> DEFINE p1 == "ocr_if_needed" \notin r.bad
           p2 == "deskew" \notin r.bad
           p3 == r.language # "?"
           p4 == "page_ranges" \in r.given \ r.bad
           p5 == r.preset \in Presets
           p6 == "include_coordinates" \notin r.bad
<1>2. /\ p1 \in BOOLEAN /\ p2 \in BOOLEAN /\ p3 \in BOOLEAN
      /\ p4 \in BOOLEAN /\ p5 \in BOOLEAN /\ p6 \in BOOLEAN
  OBVIOUS
<1>3. r.operation \in {"merge", "prepare_packet", "split", "ocr", "compress", "extract_text"}
  BY RequestTypes DEF Operations, MultiInput
<1>4. CASE r.operation = "merge"
  <2>1. OptionError(r) = FirstError(<< <<p1, "INVALID_PARAMETERS">>, <<p2, "INVALID_PARAMETERS">>,
                                       <<p3, "INVALID_OCR_LANGUAGE">> >>)
    BY <1>4 DEF OptionError, TypeError, LanguageError
  <2> HIDE DEF p1, p2, p3
  <2>2. Yields(OptionError(r), p1 /\ p2 /\ p3)
    BY <1>1, <1>2, <2>1, ErrorOfThree
  <2> QED
    BY <1>4, <2>2 DEF Yields, IsResult
<1>5. CASE r.operation = "prepare_packet"
  <2>1. OptionError(r) = PacketOptionError(r)
    BY <1>5 DEF OptionError
  <2>2. IsResult(PacketOptionError(r))
    BY PacketOptionResult DEF Yields, IsResult
  <2> QED
    BY <1>5, <2>1, <2>2
<1>6. CASE r.operation = "split"
  <2>1. OptionError(r) = FirstError(<< <<p4, "INVALID_PARAMETERS">> >>)
    BY <1>6 DEF OptionError
  <2> HIDE DEF p4
  <2>2. Yields(OptionError(r), p4)
    BY <1>1, <1>2, <2>1, ErrorOfOne
  <2> QED
    BY <1>6, <2>2 DEF Yields, IsResult, IsCode, p4
<1>7. CASE r.operation = "ocr"
  <2>1. OptionError(r) = FirstError(<< <<p2, "INVALID_PARAMETERS">>, <<p3, "INVALID_OCR_LANGUAGE">> >>)
    BY <1>7 DEF OptionError, TypeError, LanguageError
  <2> HIDE DEF p2, p3
  <2>2. Yields(OptionError(r), p2 /\ p3)
    BY <1>1, <1>2, <2>1, ErrorOfTwo
  <2> QED
    BY <1>7, <2>2 DEF Yields, IsResult
<1>8. CASE r.operation = "compress"
  <2>1. OptionError(r) = FirstError(<< <<p5, "INVALID_COMPRESSION_PRESET">> >>)
    BY <1>8 DEF OptionError
  <2> HIDE DEF p5
  <2>2. Yields(OptionError(r), p5)
    BY <1>1, <1>2, <2>1, ErrorOfOne
  <2> QED
    BY <1>8, <2>2 DEF Yields, IsResult, IsCode, p5
<1>9. CASE r.operation = "extract_text"
  <2>1. OptionError(r) = FirstError(<< <<p6, "INVALID_PARAMETERS">> >>)
    BY <1>9 DEF OptionError, TypeError
  <2> HIDE DEF p6
  <2>2. Yields(OptionError(r), p6)
    BY <1>1, <1>2, <2>1, ErrorOfOne
  <2> QED
    BY <1>9, <2>2 DEF Yields, IsResult
<1> QED
  BY <1>3, <1>4, <1>5, <1>6, <1>7, <1>8, <1>9

\* A request that is admitted.
RequestGood(r) ==
  /\ r.operation \in MultiInput => Len(r.documents) >= 2
  /\ r.operation \in MultiInput \/ Len(r.documents) = 1
  /\ OptionError(r) = "none"

LEMMA RequestResult ==
  ASSUME NEW r \in Requests
  PROVE  /\ IsResult(RequestError(r))
         /\ RequestError(r) = "none" => RequestGood(r)
<1> DEFINE p1 == r.operation \in MultiInput => Len(r.documents) >= 2
           p2 == r.operation \in MultiInput \/ Len(r.documents) = 1
           p3 == r.given \subseteq AllowedParameters[r.operation]
           p4 == \/ r.operation = "prepare_packet"
                 \/ \A p \in DOMAIN r.labels : r.labels[p] = NoLabel
           p5 == OptionError(r) = "none"
<1>1. p1 \in BOOLEAN /\ p2 \in BOOLEAN /\ p3 \in BOOLEAN /\ p4 \in BOOLEAN /\ p5 \in BOOLEAN
  OBVIOUS
<1>2. /\ IsCode("NOT_ENOUGH_INPUTS") /\ IsCode("INVALID_INPUT_COUNT")
      /\ IsCode("INVALID_PARAMETERS") /\ IsCode("INPUT_LABEL_NOT_SUPPORTED")
  BY DEF IsCode, Success
<1>3. p5 \/ IsCode(OptionError(r))
  BY OptionResult DEF IsResult
<1>4. RequestError(r) = FirstError(<<
        <<p1, "NOT_ENOUGH_INPUTS">>, <<p2, "INVALID_INPUT_COUNT">>, <<p3, "INVALID_PARAMETERS">>,
        <<p4, "INPUT_LABEL_NOT_SUPPORTED">>, <<p5, OptionError(r)>> >>)
  BY DEF RequestError
<1>5. Yields(RequestError(r), p1 /\ p2 /\ p3 /\ p4 /\ p5)
  <2> HIDE DEF p1, p2, p3, p4, p5
  <2> QED
    BY SMTT(60), <1>1, <1>2, <1>3, <1>4, ErrorOfFive
<1> QED
  BY <1>5 DEF Yields, IsResult, IsCode, RequestGood

\* What an operation checks again of a request that was admitted holds.
LEMMA RunResult ==
  ASSUME NEW r \in Requests
  PROVE  /\ \A labels \in Seq(Labels \cup {NoLabel}) : IsResult(RunError(r, labels))
         /\ RequestGood(r) => RunError(r, StoredLabels(r)) = "none"
<1> DEFINE Stored == StoredLabels(r)
<1>1. /\ IsCode("NOT_ENOUGH_INPUTS") /\ IsCode("INVALID_INPUT_COUNT")
      /\ IsCode("INVALID_PARAMETERS") /\ IsCode("INVALID_PACKET_ORDER")
      /\ IsCode("PACKET_MANIFEST_NOT_ENABLED") /\ IsCode("INVALID_COMPRESSION_PRESET")
  BY DEF IsCode, Success
<1>2. r.operation \in {"merge", "prepare_packet", "split", "ocr", "compress", "extract_text"}
  BY RequestTypes DEF Operations, MultiInput
<1>3. Stored \in Seq(Labels \cup {NoLabel})
  BY RequestTypes DEF StoredLabels
<1>4. ASSUME NEW labels \in Seq(Labels \cup {NoLabel})
      PROVE  IsResult(RunError(r, labels)) /\ (RequestGood(r) /\ labels = Stored => RunError(r, labels) = "none")
  <2> DEFINE one == Len(r.documents) = 1
  <2>1. CASE r.operation = "merge"
    <3> DEFINE two == Len(r.documents) >= 2
    <3>1. RunError(r, labels) = FirstError(<< <<two, "NOT_ENOUGH_INPUTS">> >>)
      BY <2>1 DEF RunError
    <3>2. two \in BOOLEAN
      OBVIOUS
    <3>3. Yields(RunError(r, labels), two)
      <4> HIDE DEF two
      <4> QED
        BY <1>1, <3>1, <3>2, ErrorOfOne
    <3>4. RequestGood(r) => two
      BY <2>1 DEF RequestGood, MultiInput
    <3> QED
      BY <3>3, <3>4 DEF Yields, IsResult
  <2>2. CASE r.operation = "split"
    <3> DEFINE p == "page_ranges" \in r.given \ r.bad
    <3>1. RunError(r, labels) = FirstError(<< <<one, "INVALID_INPUT_COUNT">>, <<p, "INVALID_PARAMETERS">> >>)
      BY <2>2 DEF RunError
    <3>2. one \in BOOLEAN /\ p \in BOOLEAN
      OBVIOUS
    <3>3. Yields(RunError(r, labels), one /\ p)
      <4> HIDE DEF one, p
      <4> QED
        BY <1>1, <3>1, <3>2, ErrorOfTwo
    <3>4. RequestGood(r) => one /\ p
      BY <2>2, OptionResult DEF RequestGood, MultiInput
    <3> QED
      BY <3>3, <3>4 DEF Yields, IsResult
  <2>3. CASE r.operation = "compress"
    <3> DEFINE p == r.preset \in Presets
    <3>1. RunError(r, labels) = FirstError(<< <<one, "INVALID_INPUT_COUNT">>,
                                              <<p, "INVALID_COMPRESSION_PRESET">> >>)
      BY <2>3 DEF RunError
    <3>2. one \in BOOLEAN /\ p \in BOOLEAN
      OBVIOUS
    <3>3. Yields(RunError(r, labels), one /\ p)
      <4> HIDE DEF one, p
      <4> QED
        BY <1>1, <3>1, <3>2, ErrorOfTwo
    <3>4. RequestGood(r) => one /\ p
      BY <2>3, OptionResult DEF RequestGood, MultiInput
    <3> QED
      BY <3>3, <3>4 DEF Yields, IsResult
  <2>4. CASE r.operation \in {"ocr", "extract_text"}
    <3>1. RunError(r, labels) = FirstError(<< <<one, "INVALID_INPUT_COUNT">> >>)
      BY <2>4 DEF RunError
    <3>2. one \in BOOLEAN
      OBVIOUS
    <3>3. Yields(RunError(r, labels), one)
      <4> HIDE DEF one
      <4> QED
        BY <1>1, <3>1, <3>2, ErrorOfOne
    <3>4. RequestGood(r) => one
      BY <2>4 DEF RequestGood, MultiInput
    <3> QED
      BY <3>3, <3>4 DEF Yields, IsResult
  <2>5. CASE r.operation = "prepare_packet"
    <3> DEFINE e == ManifestError(Len(r.documents), labels, r.manifest, r.allowUnlisted)
               p1 == Len(r.documents) >= 2
               p2 == r.order \in PacketOrders
               p3 == r.order = "manifest" => e = "none"
               p4 == r.order = "manifest" \/ (labels = <<>> /\ "manifest" \notin r.given /\ ~r.allowUnlisted)
    <3>1. RunError(r, labels) = FirstError(<<
            <<p1, "NOT_ENOUGH_INPUTS">>, <<p2, "INVALID_PACKET_ORDER">>, <<p3, e>>,
            <<p4, "PACKET_MANIFEST_NOT_ENABLED">> >>)
      BY <2>5 DEF RunError
    <3>2. p1 \in BOOLEAN /\ p2 \in BOOLEAN /\ p3 \in BOOLEAN /\ p4 \in BOOLEAN
      OBVIOUS
    <3>3. Yields(e, ManifestGood(Len(r.documents), labels, r.manifest, r.allowUnlisted))
      BY RequestTypes, ManifestResult
    <3>4. p3 \/ IsCode(e)
      BY <3>3 DEF Yields
    <3>5. Yields(RunError(r, labels), p1 /\ p2 /\ p3 /\ p4)
      <4> HIDE DEF p1, p2, p3, p4, e
      <4> QED
        BY SMTT(60), <1>1, <3>1, <3>2, <3>4, ErrorOfFour
    <3>6. ASSUME RequestGood(r), labels = Stored PROVE p1 /\ p2 /\ p3 /\ p4
      <4>1. PacketOptionError(r) = "none" /\ p1
        BY <2>5, <3>6, OptionResult DEF RequestGood, MultiInput
      <4>2. /\ p2 /\ (r.order = "manifest" => ManifestOf(r))
            /\ r.order = "manifest" \/ r.given \cap {"manifest", "allow_unlisted"} = {}
        BY <4>1, PacketOptionResult DEF Yields, IsCode
      <4>3. CASE r.order = "manifest"
        <5>1. labels = r.labels
          BY <2>5, <3>6, <4>3 DEF StoredLabels
        <5>2. e = "none"
          BY <3>3, <4>2, <4>3, <5>1 DEF ManifestOf, Yields
        <5> QED
          BY <4>1, <4>2, <4>3, <5>2
      <4>4. CASE r.order # "manifest"
        <5>1. labels = <<>> /\ ~r.allowUnlisted
          BY <3>6, <4>2, <4>4, RequestTypes DEF StoredLabels
        <5> QED
          BY <4>1, <4>2, <4>4, <5>1
      <4> QED
        BY <4>3, <4>4
    <3> HIDE DEF p1, p2, p3, p4
    <3> QED
      BY <3>5, <3>6 DEF Yields, IsResult
  <2> QED
    BY <1>2, <2>1, <2>2, <2>3, <2>4, <2>5
<1> QED
  BY <1>3, <1>4

-----------------------------------------------------------------------------
(* Page ranges.                                                            *)

LEMMA BoundResult ==
  ASSUME NEW bound \in Bound
  PROVE  Yields(BoundError(bound), bound # NotDigits /\ bound # OddDigit)
<1> DEFINE p1 == bound # NotDigits
           p2 == bound # OddDigit
<1>1. IsCode("INVALID_PAGE_RANGE") /\ IsCode("UNEXPECTED_WORKER_ERROR")
  BY DEF IsCode, Success
<1>2. BoundError(bound) = FirstError(<< <<p1, "INVALID_PAGE_RANGE">>,
                                        <<p2, "UNEXPECTED_WORKER_ERROR">> >>)
  BY DEF BoundError
<1>3. p1 \in BOOLEAN /\ p2 \in BOOLEAN
  OBVIOUS
<1>4. Yields(BoundError(bound), p1 /\ p2)
  <2> HIDE DEF p1, p2
  <2> QED
    BY <1>1, <1>2, <1>3, ErrorOfTwo
<1> QED
  BY <1>4 DEF Yields

\* A part that can be satisfied is an interval of pages the document has.
LEMMA SatisfiableInterval ==
  ASSUME NEW part \in Part, part # BlankPart, NEW n \in Nat \ {0}
  PROVE  /\ Satisfiable(part, n) <=>
              /\ {part.from, part.to} \cap {NotDigits, OddDigit} = {}
              /\ 1 <= PartStart(part) /\ PartStart(part) <= PartEnd(part, n)
              /\ PartEnd(part, n) <= n
         /\ Satisfiable(part, n) =>
              /\ PartStart(part) \in 1 .. n /\ PartEnd(part, n) \in 1 .. n
              /\ \A p \in 1 .. n : Names(part, p) <=> p \in PartStart(part) .. PartEnd(part, n)
<1>1. /\ part.dash \in BOOLEAN /\ part.from \in Bound /\ part.to \in Bound
      /\ part.dash \/ part.from = part.to
      /\ part = [dash |-> part.dash, from |-> part.from, to |-> part.to]
  BY DEF Part
<1>2. ~part.dash => part.from # Blank
  BY <1>1 DEF BlankPart, Page
<1>3. ASSUME {part.from, part.to} \cap {NotDigits, OddDigit} = {},
             1 <= PartStart(part), PartStart(part) <= PartEnd(part, n), PartEnd(part, n) <= n
      PROVE  /\ Satisfiable(part, n) /\ PartStart(part) \in 1 .. n /\ PartEnd(part, n) \in 1 .. n
             /\ \A p \in 1 .. n : Names(part, p) <=> p \in PartStart(part) .. PartEnd(part, n)
  <2>1. /\ part.from \in 1 .. n \cup {Blank} /\ part.to \in 1 .. n \cup {Blank}
        /\ PartStart(part) \in 1 .. n /\ PartEnd(part, n) \in 1 .. n
    BY <1>1, <1>3 DEF Bound, PartStart, PartEnd, PageBound, Blank, NotDigits, OddDigit
  <2>2. \A p \in 1 .. n : Names(part, p) <=> p \in PartStart(part) .. PartEnd(part, n)
    <3> SUFFICES ASSUME NEW p \in 1 .. n
                 PROVE  Names(part, p) <=> p \in PartStart(part) .. PartEnd(part, n)
      OBVIOUS
    <3>1. CASE part.dash
      BY <2>1, <3>1 DEF Names, PartStart, PartEnd, PageBound, Blank
    <3>2. CASE ~part.dash
      BY <1>1, <1>2, <2>1, <3>2 DEF Names, PartStart, PartEnd, PageBound, Blank
    <3> QED
      BY <3>1, <3>2
  <2>3. PartStart(part) \in PartStart(part) .. PartEnd(part, n)
    BY <1>3, <2>1
  <2>4. \E p \in 1 .. n : Names(part, p)
    BY <2>1, <2>2, <2>3
  <2> QED
    BY <2>1, <2>2, <2>4 DEF Satisfiable
<1>4. ASSUME Satisfiable(part, n)
      PROVE  /\ {part.from, part.to} \cap {NotDigits, OddDigit} = {}
             /\ 1 <= PartStart(part) /\ PartStart(part) <= PartEnd(part, n)
             /\ PartEnd(part, n) <= n
  <2>1. part.from \in 1 .. n \cup {Blank} /\ part.to \in 1 .. n \cup {Blank}
    BY <1>4 DEF Satisfiable
  <2>2. PICK p \in 1 .. n : Names(part, p)
    BY <1>4 DEF Satisfiable
  <2>3. PartStart(part) \in 1 .. n /\ PartEnd(part, n) \in 1 .. n
    BY <2>1 DEF PartStart, PartEnd, PageBound, Blank
  <2>4. PartStart(part) <= p /\ p <= PartEnd(part, n)
    BY <1>1, <1>2, <2>1, <2>2 DEF Names, PartStart, PartEnd, PageBound, Blank
  <2>5. {part.from, part.to} \cap {NotDigits, OddDigit} = {}
    BY <2>1 DEF Blank, NotDigits, OddDigit
  <2> QED
    BY <2>3, <2>4, <2>5
<1> QED
  BY <1>3, <1>4

LEMMA PartResult ==
  ASSUME NEW part \in Part, NEW n \in Nat \ {0}
  PROVE  Yields(PartError(part, n), part = BlankPart \/ Satisfiable(part, n))
<1>1. CASE part = BlankPart
  BY <1>1 DEF PartError, Yields
<1>2. CASE part # BlankPart
  <2> DEFINE b1 == BoundError(part.from)
             b2 == BoundError(part.to)
             p1 == b1 = "none"
             p2 == b2 = "none"
             within == /\ 1 <= PartStart(part) /\ PartStart(part) <= PartEnd(part, n)
                       /\ PartEnd(part, n) <= n
             p3 == (p1 /\ p2) => within
  <2>1. Yields(b1, part.from # NotDigits /\ part.from # OddDigit)
    BY BoundResult DEF Part
  <2>2. Yields(b2, part.to # NotDigits /\ part.to # OddDigit)
    BY BoundResult DEF Part
  <2>3. PartError(part, n) = FirstError(<< <<p1, b1>>, <<p2, b2>>, <<p3, "INVALID_PAGE_RANGE">> >>)
    BY <1>2 DEF PartError
  <2>4. (p1 \/ IsCode(b1)) /\ (p2 \/ IsCode(b2)) /\ IsCode("INVALID_PAGE_RANGE")
    BY <2>1, <2>2 DEF Yields, IsCode, Success
  <2>5. p1 \in BOOLEAN /\ p2 \in BOOLEAN /\ p3 \in BOOLEAN
    OBVIOUS
  <2>6. Yields(PartError(part, n), p1 /\ p2 /\ p3)
    <3> HIDE DEF p1, p2, p3, b1, b2
    <3> QED
      BY SMTT(60), <2>3, <2>4, <2>5, ErrorOfThree
  <2>7. (p1 /\ p2) <=> {part.from, part.to} \cap {NotDigits, OddDigit} = {}
    BY <2>1, <2>2 DEF Yields, IsCode
  <2>8. Satisfiable(part, n) <=>
           {part.from, part.to} \cap {NotDigits, OddDigit} = {} /\ within
    BY <1>2, SatisfiableInterval
  <2> HIDE DEF p1, p2, within
  <2> QED
    BY <1>2, <2>6, <2>7, <2>8 DEF Yields
<1> QED
  BY <1>1, <1>2

\* What RangesSatisfiable says of one range.
RangeGood(range, n) ==
  /\ \A i \in 1 .. Len(range) : range[i] = BlankPart \/ Satisfiable(range[i], n)
  /\ \E i \in 1 .. Len(range) : range[i] # BlankPart

LEMMA RangeResult ==
  ASSUME NEW range \in Seq(Part), NEW n \in Nat \ {0}
  PROVE  Yields(RangeError(range, n), RangeGood(range, n))
<1> DEFINE m == Len(range)
           e(i) == PartError(range[i], n)
           each == [i \in DOMAIN range |-> <<e(i) = "none", e(i)>>]
           q == \E i \in DOMAIN range : range[i] # BlankPart
           last == <<q, "INVALID_PAGE_RANGE">>
           all == \A i \in 1 .. m : e(i) = "none"
           S == {last} \cup {<<e(i) = "none", e(i)>> : i \in 1 .. m}
<1>1. q \in BOOLEAN /\ all \in BOOLEAN /\ IsCode("INVALID_PAGE_RANGE")
  BY DEF IsCode, Success
<1>2. DOMAIN range = 1 .. m /\ m \in Nat
  BY LenProperties
<1>3. \A i \in 1 .. m : Yields(e(i), range[i] = BlankPart \/ Satisfiable(range[i], n))
  <2> SUFFICES ASSUME NEW i \in 1 .. m
               PROVE  Yields(e(i), range[i] = BlankPart \/ Satisfiable(range[i], n))
    OBVIOUS
  <2>1. range[i] \in Part
    BY ElementOfSeq
  <2> QED
    BY <2>1, PartResult
<1>4. each \in [1 .. m -> S] /\ \A i \in 1 .. m : each[i][1] <=> e(i) = "none"
  BY <1>2
<1>5. \A i \in 1 .. m : ~each[i][1] => IsCode(each[i][2])
  BY <1>2, <1>3 DEF Yields
<1>6. Checks(S, each, all)
  <2> HIDE DEF each, S
  <2>1. Checks(S, each, \A i \in 1 .. m : each[i][1])
    BY <1>2, <1>4, <1>5, ChecksEach
  <2> QED
    BY <1>4, <2>1 DEF Checks
<1>7. Checks(S, <<last>>, q)
  <2>1. last \in S
    OBVIOUS
  <2> HIDE DEF S, q
  <2> QED
    BY <1>1, <2>1, ChecksOne
<1>8. Yields(FirstError(each \o <<last>>), all /\ q)
  <2> HIDE DEF each, S, q, all, last
  <2>1. Checks(S, each \o <<last>>, all /\ q)
    BY <1>1, <1>6, <1>7, ChecksConcat
  <2> QED
    BY <1>1, <2>1, ChecksYield
<1>9. RangeError(range, n) = FirstError(each \o <<last>>)
  BY DEF RangeError
<1>10. RangeGood(range, n) <=> all /\ q
  BY <1>2, <1>3 DEF RangeGood, Yields, IsCode
<1> HIDE DEF each, q, all, last
<1> QED
  BY <1>8, <1>9, <1>10 DEF Yields

LEMMA RangesResult ==
  ASSUME NEW ranges \in Seq(Seq(Part)), NEW n \in Nat \ {0}
  PROVE  /\ Yields(PageRangesError(ranges, n), RangesSatisfiable(ranges, n))
         /\ RangesSatisfiable(ranges, n) => \A i \in 1 .. Len(ranges) : RangeGood(ranges[i], n)
<1> DEFINE m == Len(ranges)
           e(i) == RangeError(ranges[i], n)
           each == [i \in DOMAIN ranges |-> <<e(i) = "none", e(i)>>]
           q == ranges # <<>>
           first == <<q, "MISSING_PAGE_RANGE">>
           all == \A i \in 1 .. m : e(i) = "none"
           S == {first} \cup {<<e(i) = "none", e(i)>> : i \in 1 .. m}
<1>1. q \in BOOLEAN /\ all \in BOOLEAN /\ IsCode("MISSING_PAGE_RANGE")
  BY DEF IsCode, Success
<1>2. DOMAIN ranges = 1 .. m /\ m \in Nat
  BY LenProperties
<1>3. \A i \in 1 .. m : ranges[i] \in Seq(Part)
  BY ElementOfSeq
<1>4. \A i \in 1 .. m : Yields(e(i), RangeGood(ranges[i], n))
  BY <1>3, RangeResult
<1>5. each \in [1 .. m -> S] /\ \A i \in 1 .. m : each[i][1] <=> e(i) = "none"
  BY <1>2
<1>6. \A i \in 1 .. m : ~each[i][1] => IsCode(each[i][2])
  BY <1>2, <1>4 DEF Yields
<1>7. Checks(S, each, all)
  <2> HIDE DEF each, S
  <2>1. Checks(S, each, \A i \in 1 .. m : each[i][1])
    BY <1>2, <1>5, <1>6, ChecksEach
  <2> QED
    BY <1>5, <2>1 DEF Checks
<1>8. Checks(S, <<first>>, q)
  <2>1. first \in S
    OBVIOUS
  <2> HIDE DEF S, q
  <2> QED
    BY <1>1, <2>1, ChecksOne
<1>9. Yields(FirstError(<<first>> \o each), q /\ all)
  <2> HIDE DEF each, S, q, all, first
  <2>1. Checks(S, <<first>> \o each, q /\ all)
    BY <1>1, <1>7, <1>8, ChecksConcat
  <2> QED
    BY <1>1, <2>1, ChecksYield
<1>10. PageRangesError(ranges, n) = FirstError(<<first>> \o each)
  BY DEF PageRangesError
<1>11. ASSUME NEW k \in 1 .. m
       PROVE  RangeGood(ranges[k], n) <=>
                LET written == ToSet(ranges[k]) \ {BlankPart}
                IN  written # {} /\ \A part \in written : Satisfiable(part, n)
  <2>1. DOMAIN ranges[k] = 1 .. Len(ranges[k])
    BY <1>3, LenProperties
  <2> QED
    BY <2>1 DEF RangeGood, ToSet
<1>12. RangesSatisfiable(ranges, n) <=> q /\ \A i \in 1 .. m : RangeGood(ranges[i], n)
  BY <1>2, <1>11 DEF RangesSatisfiable
<1>13. all <=> \A i \in 1 .. m : RangeGood(ranges[i], n)
  BY <1>4 DEF Yields, IsCode
<1> HIDE DEF each, q, all, first
<1> QED
  BY <1>9, <1>10, <1>12, <1>13 DEF Yields

-----------------------------------------------------------------------------
(* The pages of a range.                                                   *)

\* A part has each page it names once, a blank part none.
LEMMA PartPagesOnce ==
  ASSUME NEW part \in Part, NEW n \in Nat \ {0}, part = BlankPart \/ Satisfiable(part, n)
  PROVE  /\ PartPages(part, n) \in Seq(1 .. n)
         /\ \A i, j \in 1 .. Len(PartPages(part, n)) :
              PartPages(part, n)[i] = PartPages(part, n)[j] => i = j
         /\ \A p \in 1 .. n :
              (\E i \in 1 .. Len(PartPages(part, n)) : PartPages(part, n)[i] = p)
                <=> part # BlankPart /\ Names(part, p)
<1>1. CASE part = BlankPart
  BY <1>1 DEF PartPages
<1>2. CASE part # BlankPart
  <2> DEFINE a == PartStart(part)
             b == PartEnd(part, n)
             pages == PartPages(part, n)
  <2>1. /\ a \in 1 .. n /\ b \in 1 .. n /\ a <= b
        /\ \A p \in 1 .. n : Names(part, p) <=> p \in a .. b
    BY <1>2, SatisfiableInterval
  <2>2. pages = [i \in 1 .. b - a + 1 |-> a + i - 1]
    BY <1>2 DEF PartPages
  <2> HIDE DEF a, b, pages
  <2>3. b - a + 1 \in Nat /\ \A i \in 1 .. b - a + 1 : a + i - 1 \in 1 .. n
    BY <2>1
  <2>4. pages \in Seq(1 .. n) /\ Len(pages) = b - a + 1
    <3>1. pages \in [1 .. b - a + 1 -> 1 .. n]
      BY <2>2, <2>3
    <3> QED
      BY <2>3, <3>1
  <2>5. \A i \in 1 .. Len(pages) : pages[i] = a + i - 1
    BY <2>2, <2>4
  <2>6. \A i, j \in 1 .. Len(pages) : pages[i] = pages[j] => i = j
    BY <2>1, <2>3, <2>4, <2>5
  <2>7. ASSUME NEW p \in 1 .. n
        PROVE  (\E i \in 1 .. Len(pages) : pages[i] = p) <=> Names(part, p)
    <3>1. ASSUME NEW i \in 1 .. Len(pages), pages[i] = p PROVE p \in a .. b
      BY <2>1, <2>4, <2>5, <3>1
    <3>2. ASSUME p \in a .. b PROVE \E i \in 1 .. Len(pages) : pages[i] = p
      <4>1. p - a + 1 \in 1 .. Len(pages) /\ a + (p - a + 1) - 1 = p
        BY <2>1, <2>4, <3>2
      <4> QED
        BY <2>5, <4>1
    <3> QED
      BY <2>1, <3>1, <3>2
  <2> QED
    BY <1>2, <2>4, <2>6, <2>7 DEF pages
<1> QED
  BY <1>1, <1>2

\* A range has a page as often as it has parts that name the page.
LEMMA RangePagesOnce ==
  ASSUME NEW range \in Seq(Part), NEW n \in Nat \ {0}, RangeGood(range, n)
  PROVE  /\ RangePages(range, n) \in Seq(1 .. n) /\ Len(RangePages(range, n)) \in Nat \ {0}
         /\ \A p \in 1 .. n :
              Cardinality({a \in 1 .. Len(RangePages(range, n)) : RangePages(range, n)[a] = p})
                = Cardinality({i \in DOMAIN range : range[i] # BlankPart /\ Names(range[i], p)})
<1> DEFINE m == Len(range)
           seqs == [i \in 1 .. m |-> PartPages(range[i], n)]
           F == FlattenSeq(seqs)
           T == Seq(1 .. n)
<1>1. DOMAIN range = 1 .. m /\ m \in Nat
  BY LenProperties
<1>2. \A i \in 1 .. m : range[i] \in Part /\ (range[i] = BlankPart \/ Satisfiable(range[i], n))
  <2>1. \A i \in 1 .. m : range[i] \in Part
    BY ElementOfSeq
  <2> QED
    BY <2>1 DEF RangeGood
<1>3. \A i \in 1 .. m :
        /\ PartPages(range[i], n) \in T
        /\ \A j, k \in 1 .. Len(PartPages(range[i], n)) :
             PartPages(range[i], n)[j] = PartPages(range[i], n)[k] => j = k
        /\ \A p \in 1 .. n :
             (\E j \in 1 .. Len(PartPages(range[i], n)) : PartPages(range[i], n)[j] = p)
               <=> range[i] # BlankPart /\ Names(range[i], p)
  BY <1>2, PartPagesOnce
<1>4. RangePages(range, n) = F
  BY <1>1 DEF RangePages
<1>5. \A i \in 1 .. m : seqs[i] = PartPages(range[i], n)
  OBVIOUS
<1>6. seqs \in Seq(T) /\ Len(seqs) = m
  <2>1. seqs \in [1 .. m -> T]
    BY <1>3
  <2> HIDE DEF seqs, T
  <2> QED
    BY <1>1, <2>1
<1> HIDE DEF F, seqs
<1>7. F \in T /\ Len(F) \in Nat
  BY <1>6, FlattenPlaces DEF F
<1>8. \A p \in 1 .. n :
        Cardinality({a \in 1 .. Len(F) : F[a] = p})
          = Cardinality({i \in DOMAIN range : range[i] # BlankPart /\ Names(range[i], p)})
  <2> SUFFICES ASSUME NEW p \in 1 .. n
               PROVE  Cardinality({a \in 1 .. Len(F) : F[a] = p})
                        = Cardinality({i \in DOMAIN range : range[i] # BlankPart /\ Names(range[i], p)})
    OBVIOUS
  <2>1. AtMostOnce(p, seqs)
    BY <1>3, <1>5, <1>6 DEF AtMostOnce
  <2>2. Cardinality({a \in 1 .. Len(F) : F[a] = p})
          = Cardinality({k \in 1 .. Len(seqs) : \E i \in 1 .. Len(seqs[k]) : seqs[k][i] = p})
    <3>1. seqs \in Seq(Seq(1 .. n))
      BY <1>6
    <3>2. Cardinality(PlacesOf(p, FlattenSeq(seqs))) = Cardinality(Having(p, seqs))
      BY <2>1, <3>1, FlattenCounts
    <3> QED
      BY <3>2, Zenon DEF F, PlacesOf, Having
  <2>3. {k \in 1 .. Len(seqs) : \E i \in 1 .. Len(seqs[k]) : seqs[k][i] = p}
          = {i \in DOMAIN range : range[i] # BlankPart /\ Names(range[i], p)}
    <3>1. \A k \in 1 .. m : (\E i \in 1 .. Len(seqs[k]) : seqs[k][i] = p)
                              <=> range[k] # BlankPart /\ Names(range[k], p)
      <4> SUFFICES ASSUME NEW k \in 1 .. m
                   PROVE  (\E i \in 1 .. Len(seqs[k]) : seqs[k][i] = p)
                            <=> range[k] # BlankPart /\ Names(range[k], p)
        OBVIOUS
      <4>1. seqs[k] = PartPages(range[k], n)
        BY <1>5
      <4>2. (\E j \in 1 .. Len(PartPages(range[k], n)) : PartPages(range[k], n)[j] = p)
              <=> range[k] # BlankPart /\ Names(range[k], p)
        BY <1>3
      <4> QED
        BY <4>1, <4>2, Zenon
    <3> QED
      BY <1>1, <1>6, <3>1
  <2> QED
    BY <2>2, <2>3
<1>9. Len(F) > 0
  <2>1. PICK i \in 1 .. m : range[i] # BlankPart
    BY DEF RangeGood
  <2>2. PICK p \in 1 .. n : Names(range[i], p)
    BY <1>2, <2>1 DEF Satisfiable
  <2>3. PICK at : PlacedBy(seqs, at, F)
    BY <1>6, FlattenPlaces DEF F
  <2>4. PICK j \in 1 .. Len(seqs[i]) : seqs[i][j] = p
    <3>1. seqs[i] = PartPages(range[i], n)
      BY <1>5
    <3>2. (\E j \in 1 .. Len(PartPages(range[i], n)) : PartPages(range[i], n)[j] = p)
            <=> range[i] # BlankPart /\ Names(range[i], p)
      BY <1>3
    <3> QED
      BY <2>1, <2>2, <3>1, <3>2, Zenon
  <2>5. at[i][j] \in 1 .. Len(F)
    BY <1>6, <2>3, <2>4 DEF PlacedBy
  <2> QED
    BY <1>7, <2>5
<1>10. F \in Seq(1 .. n) /\ Len(F) \in Nat \ {0}
  BY <1>7, <1>9
<1> QED
  BY <1>4, <1>8, <1>10, Zenon

-----------------------------------------------------------------------------
(* Putting inputs one after another.                                       *)

\* held[i] is what is left of input i.
Stacked(n, held) == n \in Nat /\ held \in [1 .. n -> Seq(Pages)]

\* ... which is pages of it, from the first on.
Holds(n, held) ==
  /\ Stacked(n, held)
  /\ \A i \in 1 .. n : \A p \in 1 .. Len(held[i]) : held[i][p] = <<i, p>>

Permutation(n, s) ==
  /\ s \in [1 .. n -> 1 .. n]
  /\ \A i \in 1 .. n : \E k \in 1 .. n : s[k] = i

\* F has the pages of the inputs one after another, in the order s.
Gathers(n, held, s, at, F) ==
  /\ Len(F) \in Nat
  /\ \A k \in 1 .. n : \A p \in 1 .. Len(held[s[k]]) :
       at[k][p] \in 1 .. Len(F) /\ F[at[k][p]] = <<s[k], p>>
  /\ \A a \in 1 .. Len(F) : \E k \in 1 .. n : \E p \in 1 .. Len(held[s[k]]) : a = at[k][p]
  /\ \A j, k \in 1 .. n : \A p \in 1 .. Len(held[s[j]]) : \A q \in 1 .. Len(held[s[k]]) :
       j < k => at[j][p] < at[k][q]

Gathered(n, held, s) == FlattenSeq([k \in 1 .. n |-> held[s[k]]])

LEMMA GatheredPages ==
  ASSUME NEW n, NEW held, NEW s, Holds(n, held), s \in [1 .. n -> 1 .. n]
  PROVE  /\ Gathered(n, held, s) \in Seq(Pages)
         /\ \E at : Gathers(n, held, s, at, Gathered(n, held, s))
<1> DEFINE seqs == [k \in 1 .. n |-> held[s[k]]]
           F == FlattenSeq(seqs)
<1>1. seqs \in Seq(Seq(Pages)) /\ Len(seqs) = n
  <2>1. n \in Nat /\ \A k \in 1 .. n : held[s[k]] \in Seq(Pages)
    BY DEF Holds, Stacked
  <2> DEFINE T == Seq(Pages)
  <2>2. seqs \in [1 .. n -> T]
    BY <2>1
  <2> HIDE DEF T, seqs
  <2>3. seqs \in Seq(T) /\ Len(seqs) = n
    BY <2>1, <2>2
  <2> QED
    BY <2>3 DEF T
<1>2. \A k \in 1 .. n : seqs[k] = held[s[k]] /\ s[k] \in 1 .. n
  OBVIOUS
<1>3. Gathered(n, held, s) = F
  BY DEF Gathered
<1> HIDE DEF seqs, F
<1>4. F \in Seq(Pages) /\ Len(F) \in Nat /\ \E at : PlacedBy(seqs, at, F)
  BY <1>1, FlattenPlaces DEF F
<1>5. PICK at : PlacedBy(seqs, at, F)
  BY <1>4
<1>6. \A k \in 1 .. n : \A p \in 1 .. Len(held[s[k]]) :
        at[k][p] \in 1 .. Len(F) /\ F[at[k][p]] = <<s[k], p>>
  <2> SUFFICES ASSUME NEW k \in 1 .. n, NEW p \in 1 .. Len(held[s[k]])
               PROVE  at[k][p] \in 1 .. Len(F) /\ F[at[k][p]] = <<s[k], p>>
    OBVIOUS
  <2>1. p \in 1 .. Len(seqs[k]) /\ seqs[k][p] = <<s[k], p>>
    BY <1>2 DEF Holds
  <2>2. at[k][p] \in 1 .. Len(F) /\ F[at[k][p]] = seqs[k][p]
    BY <1>1, <1>5, <2>1 DEF PlacedBy
  <2> QED
    BY <2>1, <2>2
<1>7. ASSUME NEW a \in 1 .. Len(F)
      PROVE  \E k \in 1 .. n : \E p \in 1 .. Len(held[s[k]]) : a = at[k][p]
  <2>1. PICK k \in 1 .. n : \E p \in 1 .. Len(seqs[k]) : a = at[k][p]
    BY <1>1, <1>5 DEF PlacedBy
  <2> QED
    BY <1>2, <2>1
<1>8. ASSUME NEW j \in 1 .. n, NEW k \in 1 .. n, NEW p \in 1 .. Len(held[s[j]]),
             NEW q \in 1 .. Len(held[s[k]]), j < k
      PROVE  at[j][p] < at[k][q]
  <2>1. p \in 1 .. Len(seqs[j]) /\ q \in 1 .. Len(seqs[k])
    BY <1>2
  <2> QED
    BY <1>1, <1>5, <1>8, <2>1 DEF PlacedBy
<1>9. Gathers(n, held, s, at, F)
  BY <1>4, <1>6, <1>7, <1>8 DEF Gathers
<1> QED
  BY <1>3, <1>4, <1>9

LEMMA PermutationApart ==
  ASSUME NEW n \in Nat, NEW s, Permutation(n, s)
  PROVE  \A j, k \in 1 .. n : s[j] = s[k] => j = k
<1>1. s \in Surjection(1 .. n, 1 .. n)
  BY DEF Permutation, Surjection
<1>2. IsFiniteSet(1 .. n)
  BY FS_Interval
<1>3. s \in Injection(1 .. n, 1 .. n)
  BY <1>1, <1>2, FS_SurjSameCardinalityImpliesInj
<1> QED
  BY <1>3 DEF Injection, IsInjective

\* The pages that are left.
Left(n, held) == {x \in (1 .. n) \X Nat : x[2] \in 1 .. Len(held[x[1]])}

LEMMA GatheredCounts ==
  ASSUME NEW n, NEW held, NEW s, Stacked(n, held), Permutation(n, s)
  PROVE  /\ Gathered(n, held, s) \in Seq(Pages)
         /\ IsFiniteSet(Left(n, held))
         /\ Cardinality(Left(n, held)) = Len(Gathered(n, held, s))
<1> DEFINE seqs == [k \in 1 .. n |-> held[s[k]]]
           F == FlattenSeq(seqs)
           T == Seq(Pages)
<1>1. /\ n \in Nat
      /\ \A k \in 1 .. n : s[k] \in 1 .. n /\ held[s[k]] \in T /\ Len(held[s[k]]) \in Nat
  BY LenProperties DEF Stacked, Permutation
<1>2. seqs \in Seq(T) /\ Len(seqs) = n
  <2>1. seqs \in [1 .. n -> T]
    BY <1>1
  <2> HIDE DEF T, seqs
  <2> QED
    BY <1>1, <2>1
<1>3. \A k \in 1 .. n : seqs[k] = held[s[k]]
  OBVIOUS
<1>4. Gathered(n, held, s) = F
  BY DEF Gathered
<1> HIDE DEF seqs, F
<1>5. F \in Seq(Pages) /\ Len(F) \in Nat /\ \E at : PlacedBy(seqs, at, F)
  BY <1>2, FlattenPlaces DEF F
<1>6. PICK at : PlacedBy(seqs, at, F)
  BY <1>5
<1>7. /\ \A k \in 1 .. n : \A p \in 1 .. Len(held[s[k]]) : at[k][p] \in 1 .. Len(F)
      /\ \A a \in 1 .. Len(F) : \E k \in 1 .. n : \E p \in 1 .. Len(held[s[k]]) : a = at[k][p]
      /\ \A j, k \in 1 .. n : \A p \in 1 .. Len(held[s[j]]) : \A q \in 1 .. Len(held[s[k]]) :
           at[j][p] = at[k][q] => j = k /\ p = q
  <2>1. ASSUME NEW k \in 1 .. n, NEW p \in 1 .. Len(held[s[k]]) PROVE at[k][p] \in 1 .. Len(F)
    BY <1>2, <1>3, <1>6 DEF PlacedBy
  <2>2. ASSUME NEW a \in 1 .. Len(F)
        PROVE  \E k \in 1 .. n : \E p \in 1 .. Len(held[s[k]]) : a = at[k][p]
    <3>1. PICK k \in 1 .. n : \E p \in 1 .. Len(seqs[k]) : a = at[k][p]
      BY <1>2, <1>6 DEF PlacedBy
    <3> QED
      BY <1>3, <3>1
  <2>3. ASSUME NEW j \in 1 .. n, NEW k \in 1 .. n, NEW p \in 1 .. Len(held[s[j]]),
               NEW q \in 1 .. Len(held[s[k]]), at[j][p] = at[k][q]
        PROVE  j = k /\ p = q
    <3>1. p \in 1 .. Len(seqs[j]) /\ q \in 1 .. Len(seqs[k])
      BY <1>3
    <3> QED
      BY <1>2, <1>6, <2>3, <3>1 DEF PlacedBy
  <2> QED
    BY <2>1, <2>2, <2>3
<1>8. \A j, k \in 1 .. n : s[j] = s[k] => j = k
  BY <1>1, PermutationApart
<1> DEFINE Puts(x, a) == \E k \in 1 .. n : s[k] = x[1] /\ a = at[k][x[2]]
           h == [a \in 1 .. Len(F) |-> CHOOSE x \in Left(n, held) : Puts(x, a)]
<1>9. ASSUME NEW a \in 1 .. Len(F) PROVE h[a] \in Left(n, held) /\ Puts(h[a], a)
  <2>0. PICK k \in 1 .. n : \E p \in 1 .. Len(held[s[k]]) : a = at[k][p]
    BY <1>7
  <2>1. PICK p \in 1 .. Len(held[s[k]]) : a = at[k][p]
    BY <2>0
  <2> DEFINE x == <<s[k], p>>
  <2>2. x[1] = s[k] /\ x[2] = p /\ x \in (1 .. n) \X Nat
    BY <1>1
  <2> HIDE DEF x
  <2>3. x \in Left(n, held) /\ Puts(x, a)
    BY <2>1, <2>2 DEF Left
  <2> HIDE DEF Puts
  <2> QED
    BY <2>3
<1>10. ASSUME NEW x \in Left(n, held), NEW a, NEW b, Puts(x, a), Puts(x, b) PROVE a = b
  BY <1>8, <1>10
<1>11. ASSUME NEW x \in Left(n, held), NEW y \in Left(n, held), NEW a, Puts(x, a), Puts(y, a)
       PROVE  x = y
  <2>1. /\ x = <<x[1], x[2]>> /\ x[2] \in 1 .. Len(held[x[1]])
        /\ y = <<y[1], y[2]>> /\ y[2] \in 1 .. Len(held[y[1]])
    BY DEF Left
  <2>2. PICK j \in 1 .. n : s[j] = x[1] /\ a = at[j][x[2]]
    BY <1>11
  <2>3. PICK k \in 1 .. n : s[k] = y[1] /\ a = at[k][y[2]]
    BY <1>11
  <2>4. j = k /\ x[2] = y[2]
    <3>1. x[2] \in 1 .. Len(held[s[j]]) /\ y[2] \in 1 .. Len(held[s[k]])
      BY <2>1, <2>2, <2>3
    <3>2. at[j][x[2]] = at[k][y[2]]
      BY <2>2, <2>3
    <3>3. \A p \in 1 .. Len(held[s[j]]) : \A q \in 1 .. Len(held[s[k]]) :
            at[j][p] = at[k][q] => j = k /\ p = q
      BY <1>7
    <3> QED
      BY <3>1, <3>2, <3>3, Zenon
  <2> QED
    BY <2>1, <2>2, <2>3, <2>4
<1>12. ASSUME NEW x \in Left(n, held) PROVE \E a \in 1 .. Len(F) : Puts(x, a)
  <2>1. x[1] \in 1 .. n /\ x[2] \in 1 .. Len(held[x[1]])
    BY DEF Left
  <2>2. PICK k \in 1 .. n : s[k] = x[1]
    BY <2>1 DEF Permutation
  <2>3. at[k][x[2]] \in 1 .. Len(F)
    BY <1>7, <2>1, <2>2
  <2> QED
    BY <2>2, <2>3
<1> HIDE DEF Puts
<1>13. h \in [1 .. Len(F) -> Left(n, held)]
  BY <1>9
<1> HIDE DEF h
<1>14. \A a, b \in 1 .. Len(F) : h[a] = h[b] => a = b
  BY <1>9, <1>10
<1>15. \A x \in Left(n, held) : \E a \in 1 .. Len(F) : h[a] = x
  BY <1>9, <1>11, <1>12
<1>16. IsFiniteSet(1 .. Len(F)) /\ Cardinality(1 .. Len(F)) = Len(F)
  <2> DEFINE z == Len(F)
  <2>1. z \in Nat
    BY <1>5
  <2> HIDE DEF z
  <2>2. IsFiniteSet(1 .. z) /\ Cardinality(1 .. z) = z
    BY <2>1, FS_Interval
  <2> QED
    BY <2>2 DEF z
<1>17. IsFiniteSet(Left(n, held)) /\ Cardinality(Left(n, held)) = Cardinality(1 .. Len(F))
  BY <1>13, <1>14, <1>15, <1>16, BijectionCounts
<1> QED
  BY <1>4, <1>5, <1>16, <1>17

\* When each input is whole in "all" and as it is there or shorter in "held", the
\* pages put together, in whatever orders, are as many only if nothing is missing.
LEMMA NoPageMissing ==
  ASSUME NEW n, NEW held, NEW all, NEW s, NEW t, Stacked(n, held), Stacked(n, all),
         Permutation(n, s), Permutation(n, t),
         \A i \in 1 .. n : held[i] = all[i] \/ Len(held[i]) < Len(all[i])
  PROVE  /\ Len(Gathered(n, held, s)) <= Len(Gathered(n, all, t))
         /\ Len(Gathered(n, held, s)) = Len(Gathered(n, all, t)) => held = all
         /\ held = all => Len(Gathered(n, held, s)) = Len(Gathered(n, all, t))
<1>1. /\ IsFiniteSet(Left(n, held)) /\ Cardinality(Left(n, held)) = Len(Gathered(n, held, s))
      /\ IsFiniteSet(Left(n, all)) /\ Cardinality(Left(n, all)) = Len(Gathered(n, all, t))
  BY GatheredCounts
<1>2. \A i \in 1 .. n : Len(held[i]) \in Nat /\ Len(all[i]) \in Nat
  BY LenProperties DEF Stacked
<1>3. Left(n, held) \subseteq Left(n, all)
  BY <1>2 DEF Left
<1>4. ASSUME Left(n, all) = Left(n, held), NEW i \in 1 .. n PROVE held[i] = all[i]
  <2>1. Len(all[i]) <= Len(held[i])
    <3>1. CASE Len(all[i]) = 0
      BY <1>2, <3>1
    <3>2. CASE Len(all[i]) > 0
      <4>1. <<i, Len(all[i])>> \in Left(n, all)
        BY <1>2, <3>2 DEF Left
      <4>2. <<i, Len(all[i])>> \in Left(n, held)
        BY <1>4, <4>1
      <4> QED
        BY <1>2, <4>2 DEF Left
    <3> QED
      BY <1>2, <3>1, <3>2
  <2> QED
    BY <1>2, <2>1
<1>5. Left(n, all) = Left(n, held) => held = all
  BY <1>4 DEF Stacked
<1> QED
  BY <1>1, <1>3, <1>5, FS_Subset

-----------------------------------------------------------------------------
(* sorted().                                                               *)

\* p comes before q in the order of their keys.
Precedes(key, p, q) == key[p] < key[q] \/ (key[p] = key[q] /\ p < q)

Lower(n, key, p) == {q \in 1 .. n : Precedes(key, q, p)}

LEMMA LowerCounts ==
  ASSUME NEW n \in Nat, NEW key \in [1 .. n -> Nat]
  PROVE  \A p \in 1 .. n : /\ Cardinality(Lower(n, key, p)) \in 0 .. n - 1
                           /\ \A q \in 1 .. n : Precedes(key, p, q) =>
                                Cardinality(Lower(n, key, p)) < Cardinality(Lower(n, key, q))
<1> SUFFICES ASSUME NEW p \in 1 .. n
             PROVE  /\ Cardinality(Lower(n, key, p)) \in 0 .. n - 1
                    /\ \A q \in 1 .. n : Precedes(key, p, q) =>
                         Cardinality(Lower(n, key, p)) < Cardinality(Lower(n, key, q))
  OBVIOUS
<1>1. IsFiniteSet(1 .. n) /\ Cardinality(1 .. n) = n
  BY FS_Interval
<1>2. \A q \in 1 .. n : /\ Lower(n, key, q) \in SUBSET (1 .. n)
                        /\ IsFiniteSet(Lower(n, key, q)) /\ Cardinality(Lower(n, key, q)) \in Nat
  <2>1. \A q \in 1 .. n : Lower(n, key, q) \in SUBSET (1 .. n)
    BY DEF Lower
  <2>2. \A q \in 1 .. n : IsFiniteSet(Lower(n, key, q))
    BY <1>1, <2>1, FS_Subset
  <2> QED
    BY <2>1, <2>2, FS_CardinalityType
<1>3. Lower(n, key, p) \in SUBSET ((1 .. n) \ {p})
  BY DEF Lower, Precedes
<1>4. IsFiniteSet((1 .. n) \ {p}) /\ Cardinality((1 .. n) \ {p}) = n - 1
  BY <1>1, FS_RemoveElement
<1>5. Cardinality(Lower(n, key, p)) <= n - 1
  BY <1>3, <1>4, FS_Subset
<1>6. ASSUME NEW q \in 1 .. n, Precedes(key, p, q)
      PROVE  Cardinality(Lower(n, key, p)) < Cardinality(Lower(n, key, q))
  <2>1. Lower(n, key, p) \in SUBSET Lower(n, key, q)
    <3> SUFFICES ASSUME NEW r \in 1 .. n, Precedes(key, r, p) PROVE Precedes(key, r, q)
      BY DEF Lower
    <3>1. key[p] \in Nat /\ key[q] \in Nat /\ key[r] \in Nat
      OBVIOUS
    <3> QED
      BY <1>6, <3>1 DEF Precedes
  <2>2. p \in Lower(n, key, q) /\ p \notin Lower(n, key, p)
    BY <1>6 DEF Lower, Precedes
  <2>3. /\ Cardinality(Lower(n, key, p)) <= Cardinality(Lower(n, key, q))
        /\ Cardinality(Lower(n, key, q)) # Cardinality(Lower(n, key, p))
    BY <1>2, <2>1, <2>2, FS_Subset
  <2> QED
    BY <1>2, <2>3
<1> QED
  BY <1>2, <1>5, <1>6

LEMMA SortedPlaces ==
  ASSUME NEW n \in Nat, NEW key \in [1 .. n -> Nat]
  PROVE  /\ Permutation(n, SortedBy(key)) /\ DOMAIN SortedBy(key) = 1 .. n
         /\ \A j, k \in 1 .. n : j < k => Precedes(key, SortedBy(key)[j], SortedBy(key)[k])
<1> DEFINE s == SortedBy(key)
           rank(p) == Cardinality(Lower(n, key, p))
           r == [p \in 1 .. n |-> rank(p) + 1]
<1>1. \A p \in 1 .. n : rank(p) \in 0 .. n - 1
  BY LowerCounts
<1>2. \A p, q \in 1 .. n : Precedes(key, p, q) => rank(p) < rank(q)
  BY LowerCounts
<1>3. \A p, q \in 1 .. n : Precedes(key, p, q) \/ p = q \/ Precedes(key, q, p)
  <2> SUFFICES ASSUME NEW p \in 1 .. n, NEW q \in 1 .. n
               PROVE  Precedes(key, p, q) \/ p = q \/ Precedes(key, q, p)
    OBVIOUS
  <2>1. key[p] \in Nat /\ key[q] \in Nat
    OBVIOUS
  <2> QED
    BY <2>1 DEF Precedes
<1>4. s = [k \in 1 .. n |-> CHOOSE p \in 1 .. n : rank(p) = k - 1]
  <2>1. SortedBy(key) = [k \in DOMAIN key |->
                           CHOOSE p \in DOMAIN key :
                             Cardinality({q \in DOMAIN key : Precedes(key, q, p)}) = k - 1]
    BY Zenon DEF SortedBy, Precedes
  <2>2. DOMAIN key = 1 .. n
    OBVIOUS
  <2> QED
    BY <2>1, <2>2, Zenon DEF Lower
<1> HIDE DEF rank, s
<1>5. \A p, q \in 1 .. n : rank(p) = rank(q) => p = q
  <2> SUFFICES ASSUME NEW p \in 1 .. n, NEW q \in 1 .. n, rank(p) = rank(q) PROVE p = q
    OBVIOUS
  <2>1. rank(p) \in Nat /\ ~(rank(p) < rank(q)) /\ ~(rank(q) < rank(p))
    <3>1. rank(p) \in 0 .. n - 1
      BY <1>1
    <3> QED
      BY <3>1
  <2> QED
    BY <1>2, <1>3, <2>1, Zenon
<1>6. r \in [1 .. n -> 1 .. n] /\ \A p, q \in 1 .. n : r[p] = r[q] => p = q
  <2>1. \A p \in 1 .. n : r[p] = rank(p) + 1 /\ rank(p) + 1 \in 1 .. n
    BY <1>1
  <2> QED
    <3> HIDE DEF r
    <3>1. \A p, q \in 1 .. n : r[p] = r[q] => rank(p) = rank(q)
      BY <1>1, <2>1
    <3>2. \A p, q \in 1 .. n : r[p] = r[q] => p = q
      BY <1>5, <3>1
    <3>3. r \in [1 .. n -> 1 .. n]
      BY <2>1 DEF r
    <3> QED
      BY <3>2, <3>3
<1>7. r \in Injection(1 .. n, 1 .. n)
  BY <1>6, Fun_IsInj
<1>8. r \in Surjection(1 .. n, 1 .. n)
  <2>1. IsFiniteSet(1 .. n)
    BY FS_Interval
  <2> QED
    BY <1>7, <2>1, FS_Injection
<1>9. \A k \in 1 .. n : \E p \in 1 .. n : rank(p) = k - 1
  <2> SUFFICES ASSUME NEW k \in 1 .. n PROVE \E p \in 1 .. n : rank(p) = k - 1
    OBVIOUS
  <2>1. PICK p \in 1 .. n : r[p] = k
    BY <1>8 DEF Surjection
  <2>2. r[p] = rank(p) + 1 /\ rank(p) \in 0 .. n - 1
    BY <1>1
  <2> HIDE DEF r
  <2>3. rank(p) = k - 1
    BY <2>1, <2>2
  <2> QED
    BY <2>3
<1>10. \A k \in 1 .. n : s[k] \in 1 .. n /\ rank(s[k]) = k - 1
  BY <1>4, <1>9
<1>11. s \in [1 .. n -> 1 .. n]
  BY <1>4, <1>10
<1>12. ASSUME NEW i \in 1 .. n PROVE \E k \in 1 .. n : s[k] = i
  <2> DEFINE k == rank(i) + 1
  <2>1. k \in 1 .. n /\ k - 1 = rank(i)
    <3>1. PICK x \in 0 .. n - 1 : x = rank(i)
      BY <1>1, Zenon
    <3>2. x + 1 \in 1 .. n /\ x + 1 - 1 = x
      OBVIOUS
    <3> QED
      BY <3>1, <3>2
  <2>2. s[k] \in 1 .. n /\ rank(s[k]) = k - 1
    BY <1>10, <2>1
  <2>3. s[k] = i
    BY <1>5, <2>1, <2>2
  <2> QED
    BY <2>1, <2>3
<1>13. ASSUME NEW j \in 1 .. n, NEW k \in 1 .. n, j < k PROVE Precedes(key, s[j], s[k])
  <2>1. rank(s[j]) < rank(s[k]) /\ s[j] \in 1 .. n /\ s[k] \in 1 .. n
    BY <1>10, <1>13
  <2>2. rank(s[j]) \in 0 .. n - 1 /\ rank(s[k]) \in 0 .. n - 1
    BY <1>1, <2>1
  <2>3. s[j] # s[k] /\ ~Precedes(key, s[k], s[j])
    <3> DEFINE a == rank(s[j])
               b == rank(s[k])
    <3>0. a \in 0 .. n - 1 /\ b \in 0 .. n - 1 /\ a < b
      BY <2>1, <2>2
    <3>1. ~(rank(s[k]) < rank(s[j])) /\ rank(s[j]) # rank(s[k])
      <4> HIDE DEF a, b
      <4>1. ~(b < a) /\ a # b
        BY <3>0
      <4> QED
        BY <4>1, Zenon DEF a, b
    <3>2. Precedes(key, s[k], s[j]) => rank(s[k]) < rank(s[j])
      BY <1>2, <2>1
    <3> QED
      BY <3>1, <3>2, Zenon
  <2> QED
    BY <1>3, <2>1, <2>3
<1> QED
  BY <1>4, <1>11, <1>12, <1>13 DEF Permutation, s

-----------------------------------------------------------------------------
(* The inductive invariant.                                                *)

\* The work on the inputs has begun, or the result has passed.
Begun == stage \in {"ocr", "validate"} \/ outcome \in Success
Ended == stage = "validate" \/ outcome \in Success

IsCut(part, whole) == part = whole \/ Len(part) < Len(whole)

\* A request is what it was; one that was admitted is as a check found it.
Admitted ==
  /\ request \in Requests
  /\ stage \notin {"submitted", "refused"} =>
       RequestGood(request) /\ stored = StoredLabels(request)

\* Tools may have lost pages of an input that went through OCR; it is as long as
\* the original only if it has the same pages, and whole while no tool has lied.
FilesFit ==
  /\ \A i \in 1 .. Len(files) :
       /\ IsCut(files[i].pages, OriginalPages(i))
       /\ i \notin ocred => files[i] = Whole(OriginalPages(i), request.documents[i].text)
       /\ honest => files[i].pages = OriginalPages(i) /\ files[i].openable /\ files[i].sized
  /\ ocred # {} => request.operation \in {"ocr", "merge", "prepare_packet"}
  /\ Begun => Len(files) = InputCount

\* The OCR loop has let no input with little text pass.
TextSeen ==
  /\ stage \in {"submitted", "inspect"} => looked = 0
  /\ Begun /\ IsPacket => \A i \in 1 .. looked : files[i].text # "little" \/ i \in ocred

\* The pages output k is made from.
Held == [i \in 1 .. InputCount |-> files[i].pages]
Originals == [i \in 1 .. InputCount |-> OriginalPages(i)]
Wanted(k) == RangePages(request.ranges[k], request.documents[1].pages)
MadeFrom(k) ==
  IF request.operation = "split" THEN [j \in 1 .. Len(Wanted(k)) |-> <<1, Wanted(k)[j]>>]
  ELSE IF request.operation \in MultiInput
  THEN Gathered(InputCount, Held, PacketSequence) ELSE files[1].pages

\* An output has the pages it is made from, or fewer, and has them all while no
\* tool has lied.
OutputFits(k) ==
  /\ IsCut(made[k].pdf.pages, MadeFrom(k))
  /\ request.operation = "split" => made[k].claimed = Len(MadeFrom(k))
  /\ honest => /\ made[k].pdf.pages = MadeFrom(k) /\ made[k].claimed = Len(MadeFrom(k))
               /\ made[k].pdf.openable /\ made[k].pdf.sized

MadeFits ==
  Ended =>
    /\ looked = InputCount /\ report = PacketReport
    /\ Len(made) = IF request.operation = "split" THEN Len(request.ranges) ELSE 1
    /\ request.operation = "split" =>
         RangesSatisfiable(request.ranges, request.documents[1].pages)
    /\ \A k \in 1 .. Len(made) : OutputFits(k)

\* Nothing is reported of a packet that has not been put together.
Unreported == stage \in {"submitted", "inspect", "ocr"} => report = NoReport

\* Success is said of a result that was validated, as it still is.
Validated ==
  outcome \in Success =>
    stage = "over" /\ ValidationError = "none" /\ outcome = SuccessOutcome(report.warned)

PdfInv ==
  /\ TypeOK /\ Admitted /\ FilesFit /\ TextSeen /\ MadeFits /\ Unreported /\ Validated
  /\ HonestWorkSucceeds

-----------------------------------------------------------------------------
(* Lemmas about the operators of the run.                                  *)

\* A PDF without one of its pages is shorter.
LEMMA PageRemoved ==
  ASSUME NEW pages \in Seq(Pages), NEW q \in 1 .. Len(pages)
  PROVE  RemoveAt(pages, q) \in Seq(Pages) /\ Len(RemoveAt(pages, q)) = Len(pages) - 1
<1> DEFINE before == SubSeq(pages, 1, q - 1)
           after == SubSeq(pages, q + 1, Len(pages))
<1>1. Len(pages) \in Nat
  BY LenProperties
<1>2. before \in Seq(Pages) /\ Len(before) = q - 1
  <2>1. CASE q = 1
    BY <2>1, SubSeqProperties
  <2>2. CASE q > 1
    BY <1>1, <2>2, SubSeqProperties
  <2> QED
    BY <1>1, <2>1, <2>2
<1>3. after \in Seq(Pages) /\ Len(after) = Len(pages) - q
  <2>1. CASE q = Len(pages)
    BY <1>1, <2>1, SubSeqProperties
  <2>2. CASE q < Len(pages)
    BY <1>1, <2>2, SubSeqProperties
  <2> QED
    BY <1>1, <2>1, <2>2
<1>4. RemoveAt(pages, q) = before \o after
  BY DEF RemoveAt
<1> HIDE DEF before, after
<1>5. before \o after \in Seq(Pages) /\ Len(before \o after) = Len(before) + Len(after)
  BY <1>2, <1>3, ConcatProperties
<1> QED
  BY <1>1, <1>2, <1>3, <1>4, <1>5

LEMMA ProductsAreCut ==
  ASSUME NEW whole \in Pdf, NEW pdf \in Products(whole)
  PROVE  /\ pdf \in Pdf /\ pdf.text = whole.text
         /\ IsCut(pdf.pages, whole.pages)
<1>1. /\ whole.pages \in Seq(Pages) /\ whole.text \in TextKinds
      /\ whole.openable \in BOOLEAN /\ whole.sized \in BOOLEAN
      /\ whole = [pages |-> whole.pages, text |-> whole.text,
                  openable |-> whole.openable, sized |-> whole.sized]
  BY DEF Pdf
<1>2. Len(whole.pages) \in Nat
  BY <1>1, LenProperties
<1>3. CASE \E q \in 1 .. Len(whole.pages) : pdf = [whole EXCEPT !.pages = RemoveAt(whole.pages, q)]
  <2>1. PICK q \in 1 .. Len(whole.pages) : pdf = [whole EXCEPT !.pages = RemoveAt(whole.pages, q)]
    BY <1>3
  <2> DEFINE short == RemoveAt(whole.pages, q)
  <2>2. short \in Seq(Pages) /\ Len(short) = Len(whole.pages) - 1
    BY <1>1, PageRemoved
  <2> HIDE DEF short
  <2>3. pdf = [whole EXCEPT !.pages = short]
    BY <2>1 DEF short
  <2>4. pdf.pages = short /\ pdf.text = whole.text /\ pdf \in Pdf
    BY <1>1, <2>2, <2>3 DEF Pdf
  <2> QED
    BY <1>2, <2>2, <2>4 DEF IsCut
<1>4. CASE \/ pdf = whole
           \/ pdf = [whole EXCEPT !.openable = FALSE]
           \/ pdf = [whole EXCEPT !.sized = FALSE]
  <2>1. pdf.pages = whole.pages /\ pdf.text = whole.text /\ pdf \in Pdf
    BY <1>1, <1>4 DEF Pdf
  <2> QED
    BY <2>1 DEF IsCut
<1> QED
  BY <1>3, <1>4 DEF Products, Damaged

LEMMA CutIsWhole ==
  ASSUME NEW S, NEW part \in Seq(S), NEW whole \in Seq(S), IsCut(part, whole)
  PROVE  Len(part) = Len(whole) => part = whole
BY LenProperties DEF IsCut

LEMMA RankType ==
  ASSUME NEW manifest \in Seq(AnySection), NEW label
  PROVE  /\ Rank(label, manifest) \in 1 .. Len(manifest) + 1
         /\ label \in Listed(manifest) =>
              /\ Rank(label, manifest) \in 1 .. Len(manifest)
              /\ manifest[Rank(label, manifest)].label = label
         /\ label \notin Listed(manifest) => Rank(label, manifest) = Len(manifest) + 1
<1>1. DOMAIN manifest = 1 .. Len(manifest) /\ Len(manifest) \in Nat
  BY LenProperties
<1>2. CASE label \in Listed(manifest)
  <2>1. \E i \in DOMAIN manifest : manifest[i].label = label
    BY <1>2 DEF Listed
  <2>2. Rank(label, manifest) = CHOOSE i \in DOMAIN manifest : manifest[i].label = label
    BY <1>2 DEF Rank
  <2>3. Rank(label, manifest) \in DOMAIN manifest /\ manifest[Rank(label, manifest)].label = label
    BY <2>1, <2>2
  <2> QED
    BY <1>1, <1>2, <2>3
<1>3. CASE label \notin Listed(manifest)
  BY <1>1, <1>3 DEF Rank
<1> QED
  BY <1>2, <1>3

\* The keys by which a packet in manifest order and one in filename order sort.
Ranks == [p \in 1 .. InputCount |-> Rank(request.labels[p], request.manifest)]
FileNames == [i \in 1 .. InputCount |-> request.documents[i].name]

LEMMA PacketSequencePermutes ==
  ASSUME Admitted, stage \notin {"submitted", "refused"}
  PROVE  /\ InputCount \in Nat /\ DOMAIN PacketSequence = 1 .. InputCount
         /\ Permutation(InputCount, PacketSequence)
         /\ IsPacket /\ request.order = "manifest" =>
              \A j, k \in 1 .. InputCount :
                j < k => Precedes(Ranks, PacketSequence[j], PacketSequence[k])
         /\ IsPacket /\ request.order = "filename" =>
              \A j, k \in 1 .. InputCount :
                j < k => Precedes(FileNames, PacketSequence[j], PacketSequence[k])
         /\ ~IsPacket \/ request.order \notin {"manifest", "filename"} =>
              PacketSequence = [i \in 1 .. InputCount |-> i]
<1> DEFINE n == InputCount
<1>1. /\ request \in Requests /\ stored = StoredLabels(request)
      /\ n \in Nat /\ request.labels \in Seq(Labels \cup {NoLabel}) /\ Len(request.labels) = n
      /\ request.manifest \in Seq(AnySection)
      /\ \A i \in 1 .. n : request.documents[i] \in Document
  BY RequestTypes DEF Admitted, InputCount
<1> HIDE DEF n
<1>2. CASE IsPacket /\ request.order = "manifest"
  <2>1. PacketSequence = OrderedPositions(request.labels, request.manifest)
    BY <1>1, <1>2 DEF PacketSequence, StoredLabels, IsPacket
  <2>2. DOMAIN request.labels = 1 .. n
    BY <1>1, LenProperties
  <2>3. PacketSequence = SortedBy(Ranks)
    BY <2>1, <2>2 DEF OrderedPositions, Ranks, n
  <2>4. Ranks \in [1 .. n -> Nat]
    <3>1. \A p \in 1 .. n : Rank(request.labels[p], request.manifest) \in Nat
      BY <1>1, RankType, LenProperties
    <3> QED
      BY <3>1 DEF Ranks, n
  <2>5. /\ Permutation(n, PacketSequence) /\ DOMAIN PacketSequence = 1 .. n
        /\ \A j, k \in 1 .. n : j < k => Precedes(Ranks, PacketSequence[j], PacketSequence[k])
    BY <1>1, <2>3, <2>4, SortedPlaces
  <2> QED
    BY <1>1, <1>2, <2>5 DEF n
<1>3. CASE IsPacket /\ request.order = "filename"
  <2>1. PacketSequence = SortedBy(FileNames)
    BY <1>3 DEF PacketSequence, FileNames
  <2>2. FileNames \in [1 .. n -> Nat]
    BY <1>1 DEF FileNames, Document, n
  <2>3. /\ Permutation(n, PacketSequence) /\ DOMAIN PacketSequence = 1 .. n
        /\ \A j, k \in 1 .. n : j < k => Precedes(FileNames, PacketSequence[j], PacketSequence[k])
    BY <1>1, <2>1, <2>2, SortedPlaces
  <2> QED
    BY <1>1, <1>3, <2>3 DEF n
<1>4. CASE ~IsPacket \/ request.order \notin {"manifest", "filename"}
  <2>1. PacketSequence = [i \in 1 .. n |-> i]
    BY <1>4 DEF PacketSequence, n
  <2>2. Permutation(n, PacketSequence)
    BY <1>1, <2>1 DEF Permutation
  <2> QED
    BY <1>1, <1>4, <2>1, <2>2 DEF n
<1> QED
  BY <1>2, <1>3, <1>4

LEMMA OriginalsHold ==
  ASSUME request \in Requests
  PROVE  /\ InputCount \in Nat /\ InputCount >= 1 /\ Holds(InputCount, Originals)
         /\ \A i \in 1 .. InputCount :
              /\ OriginalPages(i) \in Seq(Pages) /\ Originals[i] = OriginalPages(i)
              /\ Len(OriginalPages(i)) = request.documents[i].pages
              /\ request.documents[i].pages \in Nat \ {0}
              /\ \A p \in 1 .. request.documents[i].pages : OriginalPages(i)[p] = <<i, p>>
         /\ Permutation(InputCount, [i \in 1 .. InputCount |-> i])
         /\ InputPages = Len(Gathered(InputCount, Originals, [i \in 1 .. InputCount |-> i]))
<1> DEFINE n == InputCount
<1>1. n \in Nat /\ n >= 1 /\ \A i \in 1 .. n : request.documents[i].pages \in Nat \ {0}
  BY RequestTypes DEF InputCount
<1> HIDE DEF n
<1>2. \A i \in 1 .. n :
        /\ OriginalPages(i) \in Seq(Pages) /\ Len(OriginalPages(i)) = request.documents[i].pages
        /\ \A p \in 1 .. request.documents[i].pages : OriginalPages(i)[p] = <<i, p>>
  <2> SUFFICES ASSUME NEW i \in 1 .. n
               PROVE  /\ OriginalPages(i) \in Seq(Pages)
                      /\ Len(OriginalPages(i)) = request.documents[i].pages
                      /\ \A p \in 1 .. request.documents[i].pages : OriginalPages(i)[p] = <<i, p>>
    OBVIOUS
  <2> DEFINE m == request.documents[i].pages
  <2>1. m \in Nat /\ i \in Nat \ {0}
    BY <1>1
  <2> HIDE DEF m
  <2>2. OriginalPages(i) = [p \in 1 .. m |-> <<i, p>>]
    BY DEF OriginalPages, m
  <2>3. \A p \in 1 .. m : <<i, p>> \in Pages
    BY <2>1 DEF Pages
  <2>4. OriginalPages(i) \in [1 .. m -> Pages]
    BY <2>2, <2>3
  <2>5. OriginalPages(i) \in Seq(Pages) /\ Len(OriginalPages(i)) = m
    <3> HIDE DEF OriginalPages
    <3> QED
      BY <2>1, <2>4
  <2>6. \A p \in 1 .. m : OriginalPages(i)[p] = <<i, p>>
    BY <2>2
  <2> QED
    BY <2>5, <2>6 DEF m
<1>3. \A i \in 1 .. n : Originals[i] = OriginalPages(i)
  BY DEF Originals, n
<1>4. Holds(n, Originals)
  <2>1. Originals \in [1 .. n -> Seq(Pages)]
    BY <1>2, <1>3 DEF Originals, n
  <2> QED
    BY <1>1, <1>2, <1>3, <2>1 DEF Holds, Stacked
<1>5. Permutation(n, [i \in 1 .. n |-> i])
  BY <1>1 DEF Permutation
<1>6. Gathered(n, Originals, [i \in 1 .. n |-> i]) = FlattenSeq([i \in 1 .. n |-> OriginalPages(i)])
  <2>1. [k \in 1 .. n |-> Originals[[i \in 1 .. n |-> i][k]]] = [i \in 1 .. n |-> OriginalPages(i)]
    BY <1>3
  <2> QED
    BY <2>1 DEF Gathered
<1> QED
  BY <1>1, <1>2, <1>3, <1>4, <1>5, <1>6 DEF InputPages, n

-----------------------------------------------------------------------------
(* What the validation of a result lets pass.                              *)

OutputGood(k) ==
  made[k].pdf.openable /\ MadePages(k) > 0 /\ MadePages(k) = made[k].claimed

LEMMA OutputResult ==
  ASSUME TypeOK, NEW k \in 1 .. Len(made)
  PROVE  Yields(OutputError(k), OutputGood(k))
<1> DEFINE p1 == made[k].pdf.openable
           p2 == MadePages(k) > 0
           p3 == MadePages(k) = made[k].claimed
<1>1. made[k].pdf.openable \in BOOLEAN
  <2>1. made[k] \in [pdf : Pdf, claimed : Nat]
    BY ElementOfSeq DEF TypeOK
  <2> QED
    BY <2>1 DEF Pdf
<1>2. p1 \in BOOLEAN /\ p2 \in BOOLEAN /\ p3 \in BOOLEAN
  BY <1>1
<1>3. IsCode("PDF_OPEN_FAILED") /\ IsCode("EMPTY_PDF") /\ IsCode("PAGE_COUNT_MISMATCH")
  BY DEF IsCode, Success
<1>4. OutputError(k) = FirstError(<< <<p1, "PDF_OPEN_FAILED">>, <<p2, "EMPTY_PDF">>,
                                     <<p3, "PAGE_COUNT_MISMATCH">> >>)
  BY DEF OutputError
<1>5. Yields(OutputError(k), p1 /\ p2 /\ p3)
  <2> HIDE DEF p1, p2, p3
  <2> QED
    BY SMTT(60), <1>2, <1>3, <1>4, ErrorOfThree
<1> QED
  BY <1>5 DEF OutputGood, Yields

OperationGood ==
  /\ request.operation # "split" => MadePages(1) = InputPages
  /\ IsPacket => /\ IsPermutation(report.sequence)
                 /\ request.order = "manifest" =>
                      /\ report.sections # <<>>
                      /\ \A i \in DOMAIN report.sections : report.sections[i].satisfied
  /\ request.operation = "compress" => made[1].pdf.sized
  /\ request.operation = "split" => \A k \in DOMAIN made : made[k].claimed = MadePages(k)

LEMMA OperationResult ==
  ASSUME TypeOK, request.operation \in Operations, Len(made) = 1 \/ request.operation # "compress"
  PROVE  Yields(OperationError, OperationGood)
<1> DEFINE pages == MadePages(1) = InputPages
           p2 == IsPermutation(report.sequence)
           p3 == request.order = "manifest" =>
                   /\ report.sections # <<>>
                   /\ \A i \in DOMAIN report.sections : report.sections[i].satisfied
           sized == made[1].pdf.sized
           claims == \A k \in DOMAIN made : made[k].claimed = MadePages(k)
<1>1. /\ IsCode("MERGE_PAGE_COUNT_MISMATCH") /\ IsCode("PACKET_PAGE_COUNT_MISMATCH")
      /\ IsCode("PACKET_SEQUENCE_VALIDATION_FAILED") /\ IsCode("PACKET_MANIFEST_VALIDATION_FAILED")
      /\ IsCode("PAGE_COUNT_CHANGED") /\ IsCode("DIMENSIONS_CHANGED")
      /\ IsCode("SPLIT_PAGE_COUNT_MISMATCH") /\ IsCode("EXTRACT_TEXT_PAGE_COUNT_MISMATCH")
  BY DEF IsCode, Success
<1>2. pages \in BOOLEAN /\ p2 \in BOOLEAN /\ p3 \in BOOLEAN /\ claims \in BOOLEAN
  BY DEF IsPermutation
<1>3. request.operation \in {"merge", "prepare_packet", "split", "ocr", "compress", "extract_text"}
  BY DEF Operations, MultiInput
<1>4. CASE request.operation = "merge"
  <2>1. OperationError = FirstError(<< <<pages, "MERGE_PAGE_COUNT_MISMATCH">> >>)
    BY <1>4 DEF OperationError
  <2> HIDE DEF pages
  <2>2. Yields(OperationError, pages)
    BY <1>1, <1>2, <2>1, ErrorOfOne
  <2> QED
    BY <1>4, <2>2 DEF pages, Yields, OperationGood, IsPacket
<1>5. CASE request.operation = "prepare_packet"
  <2>1. OperationError = FirstError(<< <<pages, "PACKET_PAGE_COUNT_MISMATCH">>,
                                       <<p2, "PACKET_SEQUENCE_VALIDATION_FAILED">>,
                                       <<p3, "PACKET_MANIFEST_VALIDATION_FAILED">> >>)
    BY <1>5 DEF OperationError, PacketError
  <2>2. Yields(OperationError, pages /\ p2 /\ p3)
    <3> HIDE DEF pages, p2, p3
    <3> QED
      BY SMTT(60), <1>1, <1>2, <2>1, ErrorOfThree
  <2> QED
    BY <1>5, <2>2 DEF Yields, OperationGood, IsPacket
<1>6. CASE request.operation = "ocr"
  <2>1. OperationError = FirstError(<< <<pages, "PAGE_COUNT_CHANGED">> >>)
    BY <1>6 DEF OperationError
  <2> HIDE DEF pages
  <2>2. Yields(OperationError, pages)
    BY <1>1, <1>2, <2>1, ErrorOfOne
  <2> QED
    BY <1>6, <2>2 DEF pages, Yields, OperationGood, IsPacket
<1>7. CASE request.operation = "compress"
  <2>1. OperationError = FirstError(<< <<pages, "PAGE_COUNT_CHANGED">>, <<sized, "DIMENSIONS_CHANGED">> >>)
    BY <1>7 DEF OperationError
  <2>2. sized \in BOOLEAN
    <3>1. made[1] \in [pdf : Pdf, claimed : Nat]
      <4>1. 1 \in 1 .. Len(made) /\ made \in Seq([pdf : Pdf, claimed : Nat])
        <5>1. Len(made) = 1
          BY <1>7
        <5> QED
          BY <5>1 DEF TypeOK
      <4> QED
        BY <4>1, ElementOfSeq
    <3> QED
      BY <3>1 DEF Pdf
  <2> HIDE DEF pages, sized
  <2>3. Yields(OperationError, pages /\ sized)
    BY <1>1, <1>2, <2>1, <2>2, ErrorOfTwo
  <2> QED
    BY <1>7, <2>3 DEF pages, sized, Yields, OperationGood, IsPacket
<1>8. CASE request.operation = "split"
  <2>1. OperationError = FirstError(<< <<claims, "SPLIT_PAGE_COUNT_MISMATCH">> >>)
    BY <1>8 DEF OperationError
  <2> HIDE DEF claims
  <2>2. Yields(OperationError, claims)
    BY <1>1, <1>2, <2>1, ErrorOfOne
  <2> QED
    BY <1>8, <2>2 DEF claims, Yields, OperationGood, IsPacket
<1>9. CASE request.operation = "extract_text"
  <2>1. OperationError = FirstError(<< <<pages, "EXTRACT_TEXT_PAGE_COUNT_MISMATCH">> >>)
    BY <1>9 DEF OperationError
  <2> HIDE DEF pages
  <2>2. Yields(OperationError, pages)
    BY <1>1, <1>2, <2>1, ErrorOfOne
  <2> QED
    BY <1>9, <2>2 DEF pages, Yields, OperationGood, IsPacket
<1> QED
  BY <1>3, <1>4, <1>5, <1>6, <1>7, <1>8, <1>9

LEMMA ValidationResult ==
  ASSUME TypeOK, request.operation \in Operations, Len(made) = 1 \/ request.operation # "compress"
  PROVE  Yields(ValidationError,
                /\ request.operation = "extract_text" \/ \A k \in 1 .. Len(made) : OutputGood(k)
                /\ OperationGood)
<1> DEFINE m == Len(made)
           e(k) == OutputError(k)
           each == [k \in DOMAIN made |-> <<e(k) = "none", e(k)>>]
           one == IF request.operation = "extract_text" THEN <<>> ELSE each
           q == OperationError = "none"
           last == <<q, OperationError>>
           all == \A k \in 1 .. m : e(k) = "none"
           skip == request.operation = "extract_text"
           S == {last} \cup {<<e(k) = "none", e(k)>> : k \in 1 .. m}
<1>1. q \in BOOLEAN /\ all \in BOOLEAN /\ skip \in BOOLEAN /\ (skip \/ all) \in BOOLEAN
  OBVIOUS
<1>2. DOMAIN made = 1 .. m /\ m \in Nat
  BY LenProperties DEF TypeOK
<1>3. \A k \in 1 .. m : Yields(e(k), OutputGood(k))
  BY OutputResult
<1>4. Yields(OperationError, OperationGood)
  BY OperationResult
<1>5. each \in [1 .. m -> S] /\ \A k \in 1 .. m : each[k][1] <=> e(k) = "none"
  BY <1>2
<1>6. \A k \in 1 .. m : ~each[k][1] => IsCode(each[k][2])
  BY <1>2, <1>3 DEF Yields
<1>7. Checks(S, each, all)
  <2> HIDE DEF each, S
  <2>1. Checks(S, each, \A k \in 1 .. m : each[k][1])
    BY <1>2, <1>5, <1>6, ChecksEach
  <2> QED
    BY <1>5, <2>1 DEF Checks
<1>8. Checks(S, one, skip \/ all)
  <2>1. CASE skip
    <3>1. one = <<>> /\ one \in Seq(S) /\ Len(one) = 0
      BY <2>1
    <3> QED
      BY <2>1, <3>1 DEF Checks
  <2>2. CASE ~skip
    BY <1>7, <2>2 DEF Checks
  <2> QED
    BY <2>1, <2>2
<1>9. Checks(S, <<last>>, q)
  <2>1. last \in S /\ (q \/ IsCode(OperationError))
    BY <1>4 DEF Yields
  <2> HIDE DEF S, q
  <2> QED
    BY <1>1, <2>1, ChecksOne
<1>10. Yields(FirstError(one \o <<last>>), (skip \/ all) /\ q)
  <2> HIDE DEF one, S, q, all, last, skip
  <2>1. Checks(S, one \o <<last>>, (skip \/ all) /\ q)
    BY <1>1, <1>8, <1>9, ChecksConcat
  <2> QED
    BY <1>1, <2>1, ChecksYield
<1>11. ValidationError = FirstError(one \o <<last>>)
  BY DEF ValidationError
<1>12. /\ all <=> \A k \in 1 .. m : OutputGood(k)
       /\ q <=> OperationGood
  BY <1>3, <1>4 DEF Yields, IsCode
<1> HIDE DEF one, each, q, all, last
<1> QED
  BY <1>10, <1>11, <1>12 DEF Yields

-----------------------------------------------------------------------------
(* Steps that leave the files alone.                                       *)

LEMMA SameRequest ==
  ASSUME UNCHANGED request
  PROVE  /\ InputCount' = InputCount /\ IsPacket' = IsPacket
         /\ \A i : OriginalPages(i)' = OriginalPages(i)
         /\ Originals' = Originals /\ InputPages' = InputPages
BY DEF InputCount, IsPacket, OriginalPages, Originals, InputPages

LEMMA FilesKept ==
  ASSUME FilesFit, UNCHANGED <<request, files, ocred>>, honest' => honest,
         Begun' => Len(files) = InputCount
  PROVE  FilesFit'
<1>1. \A i : OriginalPages(i)' = OriginalPages(i)
  BY SameRequest
<1>2. InputCount' = InputCount
  BY SameRequest
<1> QED
  BY <1>1, <1>2 DEF FilesFit, IsCut, Whole

LEMMA TextKept ==
  ASSUME TextSeen, UNCHANGED <<request, files, ocred, looked>>, Begun' => Begun,
         stage' \in {"submitted", "inspect"} => stage \in {"submitted", "inspect"}
  PROVE  TextSeen'
BY DEF TextSeen, IsPacket

\* A step that ends the work with an error, or has not come to its end.
LEMMA NotEnded ==
  ASSUME stage' # "validate", outcome' \notin Success
  PROVE  MadeFits' /\ Validated' /\ (stage' # "ocr" => ~Begun')
BY DEF MadeFits, Validated, Ended, Begun

LEMMA AdmittedKept ==
  ASSUME Admitted, UNCHANGED <<request, stored>>, stage \notin {"submitted", "refused"}
  PROVE  Admitted'
BY DEF Admitted

LEMMA UnreportedKept ==
  ASSUME Unreported, UNCHANGED report, stage \in {"submitted", "inspect", "ocr"}
  PROVE  Unreported'
BY DEF Unreported

LEMMA PdfInit == Init => PdfInv
<1> SUFFICES ASSUME Init PROVE PdfInv
  OBVIOUS
<1>1. request \in Requests /\ InputCount \in Nat
  BY RequestTypes DEF Init, InputCount
<1>2. /\ stored = <<>> /\ stage = "submitted" /\ files = <<>> /\ ocred = {} /\ looked = 0
      /\ made = <<>> /\ report = NoReport /\ honest = TRUE /\ outcome = "none"
  BY DEF Init
<1>3. TypeOK
  BY <1>1, <1>2 DEF TypeOK, NoReport
<1>4. Admitted
  BY <1>1, <1>2 DEF Admitted
<1>5. ~Begun /\ ~Ended /\ outcome \notin Success
  BY <1>2 DEF Begun, Ended, Success
<1>6. FilesFit /\ TextSeen
  BY <1>2, <1>5 DEF FilesFit, TextSeen
<1>7. MadeFits /\ Unreported /\ Validated /\ HonestWorkSucceeds
  BY <1>2, <1>5 DEF MadeFits, Unreported, Validated, HonestWorkSucceeds
<1> QED
  BY <1>3, <1>4, <1>6, <1>7 DEF PdfInv

LEMMA RefuseKeepsInv ==
  ASSUME PdfInv, Refuse
  PROVE  PdfInv'
<1>1. /\ TypeOK /\ Admitted /\ FilesFit /\ TextSeen /\ Unreported /\ stage = "submitted" /\ stage' = "refused"
      /\ outcome' = RequestError(request) /\ outcome' # "none"
      /\ UNCHANGED <<request, stored, files, ocred, looked, made, report, honest>>
  BY DEF PdfInv, Refuse
<1>0. Unreported'
  BY <1>1, UnreportedKept
<1>2. outcome' \notin Success
  BY <1>1, RequestResult DEF Admitted, IsResult, IsCode
<1>3. MadeFits' /\ Validated' /\ ~Begun'
  BY <1>1, <1>2, NotEnded
<1>4. TypeOK'
  BY <1>1 DEF TypeOK, InputCount
<1>5. Admitted'
  BY <1>1 DEF Admitted
<1>6. FilesFit' /\ TextSeen'
  BY <1>1, <1>3, FilesKept, TextKept
<1>7. HonestWorkSucceeds'
  BY <1>1 DEF HonestWorkSucceeds
<1> QED
  BY <1>0, <1>3, <1>4, <1>5, <1>6, <1>7 DEF PdfInv

LEMMA AdmitKeepsInv ==
  ASSUME PdfInv, Admit
  PROVE  PdfInv'
<1>1. /\ TypeOK /\ Admitted /\ FilesFit /\ TextSeen /\ Unreported /\ stage = "submitted" /\ stage' = "inspect"
      /\ outcome' = outcome /\ RequestError(request) = "none" /\ stored' = StoredLabels(request)
      /\ UNCHANGED <<request, files, ocred, looked, made, report, honest>>
  BY DEF PdfInv, Admit, Keep
<1>0. Unreported'
  BY <1>1, UnreportedKept
<1>2. outcome' = "none" /\ outcome' \notin Success
  BY <1>1 DEF TypeOK, Success
<1>3. MadeFits' /\ Validated' /\ ~Begun'
  BY <1>1, <1>2, NotEnded
<1>4. request \in Requests /\ RequestGood(request)
  BY <1>1, RequestResult DEF Admitted
<1>5. StoredLabels(request) \in Seq(Labels \cup {NoLabel})
  BY <1>4, RequestTypes DEF StoredLabels
<1>6. TypeOK'
  BY <1>1, <1>2, <1>5 DEF TypeOK, InputCount
<1>7. Admitted'
  BY <1>1, <1>4 DEF Admitted
<1>8. FilesFit' /\ TextSeen'
  BY <1>1, <1>3, FilesKept, TextKept
<1>9. HonestWorkSucceeds'
  BY <1>1 DEF HonestWorkSucceeds
<1> QED
  BY <1>0, <1>3, <1>6, <1>7, <1>8, <1>9 DEF PdfInv

LEMMA StartOperationKeepsInv ==
  ASSUME PdfInv, StartOperation
  PROVE  PdfInv'
<1>1. /\ TypeOK /\ Admitted /\ FilesFit /\ TextSeen /\ Unreported /\ stage = "inspect" /\ Len(files) = InputCount
      /\ UNCHANGED <<request, stored, files, ocred, looked, made, report, honest>>
  BY DEF PdfInv, StartOperation
<1>0. Unreported'
  BY <1>1, UnreportedKept
<1>2. request \in Requests /\ RequestGood(request) /\ stored = StoredLabels(request)
  BY <1>1 DEF Admitted
<1>3. RunError(request, stored) = "none"
  BY <1>2, RunResult
<1>4. stage' = "ocr" /\ outcome' = outcome
  BY <1>3 DEF StartOperation, Keep
<1>5. outcome' = "none" /\ outcome' \notin Success
  BY <1>1, <1>4 DEF TypeOK, Success
<1>6. MadeFits' /\ Validated'
  BY <1>4, <1>5, NotEnded
<1>7. TypeOK'
  BY <1>1, <1>4, <1>5 DEF TypeOK, InputCount
<1>8. Admitted'
  BY <1>1, AdmittedKept
<1>9. FilesFit'
  BY <1>1, FilesKept
<1>10. looked = 0
  BY <1>1 DEF TextSeen
<1>11. TextSeen'
  BY <1>1, <1>10 DEF TextSeen
<1>12. HonestWorkSucceeds'
  BY <1>4 DEF HonestWorkSucceeds
<1> QED
  BY <1>0, <1>6, <1>7, <1>8, <1>9, <1>11, <1>12 DEF PdfInv

-----------------------------------------------------------------------------
(* Steps of the inspection and of the OCR loop.                            *)

LEMMA InspectInputKeepsInv ==
  ASSUME PdfInv, InspectInput
  PROVE  PdfInv'
<1> DEFINE i == Len(files) + 1
           document == request.documents[i]
<1>1. /\ TypeOK /\ Admitted /\ FilesFit /\ TextSeen /\ Unreported /\ stage = "inspect"
      /\ Len(files) < InputCount /\ HonestWorkSucceeds
      /\ UNCHANGED <<request, stored, ocred, looked, made, report, honest>>
  BY DEF PdfInv, InspectInput
<1>0. Unreported'
  BY <1>1, UnreportedKept
<1>2. request \in Requests /\ InputCount \in Nat /\ Len(files) \in Nat
  BY <1>1, RequestTypes, LenProperties DEF Admitted, TypeOK, InputCount
<1>3. i \in 1 .. InputCount
  BY <1>1, <1>2
<1>4. document \in Document /\ MaxPages \in Nat
  BY <1>2, <1>3, RequestTypes DEF InputCount
<1>5. outcome = "none" /\ InputCount' = InputCount
  BY <1>1 DEF TypeOK, InputCount
<1>6. Admitted'
  BY <1>1, AdmittedKept
<1>7. CASE InputError(document) # "none"
  <2>1. outcome' = InputError(document) /\ stage' = "over" /\ UNCHANGED files
    BY <1>7 DEF InspectInput, Fail
  <2>2. ~(document.pdf /\ document.pages <= MaxPages) /\ outcome' # "none" /\ outcome' \notin Success
    BY <1>4, <1>7, <2>1, InputResult DEF Yields, IsCode
  <2>3. MadeFits' /\ Validated' /\ ~Begun'
    BY <2>1, <2>2, NotEnded
  <2>4. TypeOK'
    BY <1>1, <1>5, <2>1, <2>2 DEF TypeOK
  <2>5. FilesFit' /\ TextSeen'
    BY <1>1, <2>1, <2>3, FilesKept, TextKept
  <2>6. HonestWorkSucceeds'
    <3>1. ~ \A j \in 1 .. InputCount :
              request.documents[j].pdf /\ request.documents[j].pages <= MaxPages
      BY <1>3, <2>2
    <3> QED
      BY <1>1, <1>5, <3>1 DEF HonestWorkSucceeds
  <2> QED
    BY <1>0, <1>6, <2>3, <2>4, <2>5, <2>6 DEF PdfInv
<1>8. CASE InputError(document) = "none"
  <2> DEFINE pdf == Whole(OriginalPages(i), document.text)
  <2>1. outcome' = outcome /\ stage' = stage /\ files' = Append(files, pdf)
    BY <1>8 DEF InspectInput, Keep
  <2>2. outcome' \notin Success /\ stage' = "inspect"
    BY <1>1, <1>5, <2>1 DEF Success
  <2>3. MadeFits' /\ Validated' /\ ~Begun'
    BY <2>2, NotEnded
  <2>4. OriginalPages(i) \in Seq(Pages) /\ Len(OriginalPages(i)) \in Nat
    BY <1>2, <1>3, OriginalsHold, LenProperties
  <2>5. pdf \in Pdf
    BY <1>4, <2>4 DEF Whole, Pdf, Document
  <2> HIDE DEF pdf
  <2>6. /\ files' \in Seq(Pdf) /\ Len(files') = i
        /\ \A j \in 1 .. Len(files) : files'[j] = files[j]
        /\ files'[i] = pdf
    BY <1>1, <2>1, <2>5, AppendProperties DEF TypeOK
  <2>7. TypeOK'
    BY <1>1, <1>3, <1>5, <2>1, <2>6 DEF TypeOK
  <2>8. FilesFit'
    <3>1. \A j : OriginalPages(j)' = OriginalPages(j)
      BY <1>1, SameRequest
    <3>2. \A j \in 1 .. i : j \in 1 .. Len(files) \/ j = i
      BY <1>2
    <3>3. ASSUME NEW j \in 1 .. i
          PROVE  /\ IsCut(files'[j].pages, OriginalPages(j))
                 /\ j \notin ocred => files'[j] = Whole(OriginalPages(j), request.documents[j].text)
                 /\ honest => files'[j].pages = OriginalPages(j) /\ files'[j].openable /\ files'[j].sized
      <4>1. CASE j \in 1 .. Len(files)
        BY <1>1, <2>6, <4>1 DEF FilesFit
      <4>2. CASE j = i
        BY <2>4, <2>6, <4>2 DEF pdf, Whole, IsCut
      <4> QED
        BY <3>2, <4>1, <4>2
    <3> HIDE DEF i
    <3> QED
      BY <1>1, <2>3, <2>6, <3>1, <3>3 DEF FilesFit, IsCut, Whole
  <2>9. TextSeen' /\ HonestWorkSucceeds'
    BY <1>1, <2>2, <2>3 DEF TextSeen, HonestWorkSucceeds
  <2> QED
    BY <1>0, <1>6, <2>3, <2>7, <2>8, <2>9 DEF PdfInv
<1> QED
  BY <1>7, <1>8

LEMMA PassInputKeepsInv ==
  ASSUME PdfInv, PassInput
  PROVE  PdfInv'
<1>1. /\ TypeOK /\ Admitted /\ FilesFit /\ TextSeen /\ Unreported /\ stage = "ocr"
      /\ looked < InputCount /\ ~NeedsOcr(looked + 1) /\ looked' = looked + 1
      /\ UNCHANGED <<request, stored, stage, files, ocred, made, report, honest, outcome>>
  BY DEF PdfInv, PassInput
<1>0. Unreported'
  BY <1>1, UnreportedKept
<1>2. InputCount \in Nat /\ looked \in 0 .. InputCount /\ InputCount' = InputCount
  BY <1>1, RequestTypes DEF Admitted, TypeOK, InputCount
<1>3. outcome = "none" /\ outcome' \notin Success
  BY <1>1 DEF TypeOK, Success
<1>4. MadeFits' /\ Validated'
  BY <1>1, <1>3, NotEnded
<1>5. TypeOK'
  BY <1>1, <1>2 DEF TypeOK
<1>6. Admitted'
  BY <1>1, AdmittedKept
<1>7. FilesFit'
  BY <1>1, FilesKept DEF Begun, FilesFit
<1>8. TextSeen'
  <2>1. IsPacket => files[looked + 1].text # "little"
    BY <1>1 DEF NeedsOcr
  <2>2. \A i \in 1 .. looked + 1 : i \in 1 .. looked \/ i = looked + 1
    BY <1>2
  <2> QED
    BY <1>1, <2>1, <2>2 DEF TextSeen, Begun, IsPacket
<1>9. HonestWorkSucceeds'
  BY <1>1 DEF HonestWorkSucceeds
<1> QED
  BY <1>0, <1>4, <1>5, <1>6, <1>7, <1>8, <1>9 DEF PdfInv

LEMMA CutOfCut ==
  ASSUME NEW a, NEW b, NEW c, Len(a) \in Nat, Len(b) \in Nat, Len(c) \in Nat,
         IsCut(a, b), IsCut(b, c)
  PROVE  IsCut(a, c)
BY DEF IsCut

LEMMA OcrInputKeepsInv ==
  ASSUME PdfInv, OcrInput
  PROVE  PdfInv'
<1> DEFINE i == looked + 1
           promised == Whole(files[i].pages, "every")
           unread == {[promised EXCEPT !.text = kind] :
                        kind \in {k \in {"some", "little"} : "unread" \in Faults}}
<1>1. /\ TypeOK /\ Admitted /\ FilesFit /\ TextSeen /\ Unreported /\ stage = "ocr"
      /\ looked < InputCount /\ NeedsOcr(i)
      /\ UNCHANGED <<request, stored, made, report>>
  BY DEF PdfInv, OcrInput
<1>0. Unreported'
  BY <1>1, UnreportedKept
<1>2. /\ request \in Requests /\ InputCount \in Nat /\ looked \in 0 .. InputCount
      /\ InputCount' = InputCount /\ i \in 1 .. InputCount /\ Len(files) = InputCount
      /\ outcome = "none" /\ files \in Seq(Pdf)
  BY <1>1, RequestTypes DEF Admitted, TypeOK, InputCount, FilesFit, Begun
<1>3. request.operation \in {"ocr", "merge", "prepare_packet"}
  BY <1>1 DEF NeedsOcr, IsPacket
<1>4. Admitted'
  BY <1>1, AdmittedKept
<1>5. CASE request.language = "+"
  <2>1. outcome' = "INVALID_OCR_LANGUAGE" /\ stage' = "over" /\ UNCHANGED <<files, ocred, looked, honest>>
    BY <1>5 DEF OcrInput, Fail
  <2>2. outcome' # "none" /\ outcome' \notin Success
    BY <2>1 DEF Success
  <2>3. MadeFits' /\ Validated' /\ ~Begun'
    BY <2>1, <2>2, NotEnded
  <2>4. TypeOK'
    BY <1>1, <1>2, <2>1, <2>2 DEF TypeOK
  <2>5. FilesFit' /\ TextSeen'
    BY <1>1, <2>1, <2>3, FilesKept, TextKept
  <2>6. HonestWorkSucceeds'
    BY <1>1, <1>5 DEF HonestWorkSucceeds
  <2> QED
    BY <1>0, <1>4, <2>3, <2>4, <2>5, <2>6 DEF PdfInv
<1>6. CASE request.language # "+"
  <2>1. PICK pdf \in Products(promised) \cup unread :
          /\ files' = [files EXCEPT ![i] = pdf] /\ ocred' = ocred \cup {i}
          /\ honest' = (honest /\ pdf = promised)
          /\ IF IsPacket /\ ~pdf.openable
             THEN Fail("PDF_OPEN_FAILED") /\ UNCHANGED looked
             ELSE Keep(stage) /\ looked' = i
    BY <1>6 DEF OcrInput
  <2>2. files[i] \in Pdf /\ files[i].pages \in Seq(Pages) /\ Len(files[i].pages) \in Nat
    <3>1. files[i] \in Pdf
      BY <1>2, ElementOfSeq
    <3> QED
      BY <3>1, LenProperties DEF Pdf
  <2>3. promised \in Pdf /\ promised.pages = files[i].pages /\ promised.openable /\ promised.sized
    BY <2>2 DEF Whole, Pdf, TextKinds
  <2>4. pdf \in Pdf /\ IsCut(pdf.pages, files[i].pages)
    <3>1. CASE pdf \in Products(promised)
      <4> HIDE DEF promised
      <4> QED
        BY <2>3, <3>1, ProductsAreCut
    <3>2. CASE pdf \in unread
      <4>1. PICK kind \in TextKinds : pdf = [promised EXCEPT !.text = kind]
        BY <3>2 DEF TextKinds
      <4> HIDE DEF promised
      <4>2. pdf \in Pdf /\ pdf.pages = files[i].pages
        BY <2>3, <4>1 DEF Pdf
      <4> QED
        BY <2>2, <4>2 DEF IsCut
    <3> QED
      BY <3>1, <3>2
  <2> HIDE DEF promised, unread
  <2>5. /\ files' \in Seq(Pdf) /\ Len(files') = Len(files) /\ files'[i] = pdf
        /\ \A j \in 1 .. Len(files) : j # i => files'[j] = files[j]
    BY <1>2, <2>1, <2>4, ExceptSeq
  <2>6. /\ outcome' \notin Success /\ stage' \in {"ocr", "over"}
        /\ looked' \in {looked, i} /\ (outcome' = "none") = (stage' = "ocr")
        /\ stage' = "over" => ~honest'
    BY <1>1, <1>2, <2>1, <2>3 DEF Fail, Keep, Success
  <2>7. MadeFits' /\ Validated'
    BY <2>6, NotEnded
  <2>8. TypeOK'
    <3>1. /\ looked' \in 0 .. InputCount /\ ocred' \subseteq 1 .. InputCount
          /\ report.warned \subseteq ocred'
      <4>1. looked' \in 0 .. InputCount
        BY <1>2, <2>6
      <4>2. ocred \subseteq 1 .. InputCount /\ report.warned \subseteq ocred
        BY <1>1 DEF TypeOK
      <4> QED
        BY <1>2, <2>1, <4>1, <4>2
    <3>2. honest' \in BOOLEAN
      BY <1>1, <2>1 DEF TypeOK
    <3> QED
      BY <1>1, <1>2, <2>5, <2>6, <3>1, <3>2 DEF TypeOK
  <2>9. FilesFit'
    <3>1. \A j : OriginalPages(j)' = OriginalPages(j)
      BY <1>1, SameRequest
    <3>2. ASSUME NEW j \in 1 .. Len(files)
          PROVE  /\ IsCut(files'[j].pages, OriginalPages(j))
                 /\ j \notin ocred' => files'[j] = Whole(OriginalPages(j), request.documents[j].text)
                 /\ honest' => files'[j].pages = OriginalPages(j) /\ files'[j].openable /\ files'[j].sized
      <4>1. CASE j # i
        BY <1>1, <2>1, <2>5, <4>1 DEF FilesFit
      <4>2. CASE j = i
        <5>1. IsCut(pdf.pages, OriginalPages(i))
          <6>1. IsCut(files[i].pages, OriginalPages(i))
            BY <1>1, <1>2 DEF FilesFit
          <6>2. Len(pdf.pages) \in Nat /\ Len(OriginalPages(i)) \in Nat
            BY <1>2, <2>4, OriginalsHold, LenProperties DEF Pdf
          <6> QED
            BY <2>2, <2>4, <6>1, <6>2, CutOfCut
        <5>2. i \in ocred'
          BY <2>1
        <5>3. honest' => pdf.pages = OriginalPages(i) /\ pdf.openable /\ pdf.sized
          BY <1>1, <1>2, <2>1, <2>3 DEF FilesFit
        <5> QED
          BY <2>5, <4>2, <5>1, <5>2, <5>3
      <4> QED
        BY <4>1, <4>2
    <3> QED
      BY <1>1, <1>2, <1>3, <2>5, <3>1, <3>2 DEF FilesFit, IsCut, Whole
  <2>10. TextSeen'
    <3>1. \A j \in 1 .. looked' : j \in 1 .. looked \/ j = i
      BY <1>2, <2>6
    <3>2. \A j \in 1 .. looked : j \in 1 .. Len(files) /\ j # i
      BY <1>2
    <3> QED
      BY <1>1, <2>1, <2>5, <2>6, <3>1, <3>2 DEF TextSeen, Begun, IsPacket
  <2>11. HonestWorkSucceeds'
    BY <2>6 DEF HonestWorkSucceeds
  <2> QED
    BY <1>0, <1>4, <2>7, <2>8, <2>9, <2>10, <2>11 DEF PdfInv
<1> QED
  BY <1>5, <1>6

-----------------------------------------------------------------------------
(* What an output is made from.                                            *)

\* The files the operation reads: what is left of each input.
LEMMA HeldHolds ==
  ASSUME TypeOK, Admitted, FilesFit, Begun
  PROVE  /\ Stacked(InputCount, Held) /\ InputCount \in Nat /\ InputCount >= 1
         /\ \A i \in 1 .. InputCount :
              /\ Held[i] = files[i].pages /\ files[i] \in Pdf /\ Held[i] \in Seq(Pages)
              /\ IsCut(Held[i], Originals[i]) /\ Len(Held[i]) <= Len(Originals[i])
              /\ Len(Held[i]) \in Nat
         /\ honest => Held = Originals
<1> DEFINE n == InputCount
<1>1. request \in Requests /\ Len(files) = n /\ files \in Seq(Pdf)
  BY DEF Admitted, FilesFit, TypeOK
<1>2. /\ n \in Nat /\ n >= 1
      /\ \A i \in 1 .. n : /\ OriginalPages(i) \in Seq(Pages) /\ Originals[i] = OriginalPages(i)
                           /\ Len(OriginalPages(i)) = request.documents[i].pages
                           /\ \A p \in 1 .. request.documents[i].pages : OriginalPages(i)[p] = <<i, p>>
  BY <1>1, OriginalsHold
<1>3. \A i \in 1 .. n : files[i] \in Pdf
  BY <1>1, ElementOfSeq
<1>4. \A i \in 1 .. n : files[i].pages \in Seq(Pages)
  BY <1>3 DEF Pdf
<1>5. \A i \in 1 .. n : Held[i] = files[i].pages
  BY DEF Held
<1>6. \A i \in 1 .. n : IsCut(files[i].pages, OriginalPages(i))
  BY <1>1 DEF FilesFit
<1>7. ASSUME NEW i \in 1 .. n
      PROVE  IsCut(Held[i], Originals[i]) /\ Len(Held[i]) <= Len(Originals[i])
  <2>1. IsCut(Held[i], Originals[i])
    BY <1>2, <1>5, <1>6
  <2>2. Len(Held[i]) \in Nat /\ Len(Originals[i]) \in Nat
    BY <1>2, <1>4, <1>5, LenProperties
  <2> QED
    BY <2>1, <2>2 DEF IsCut
<1>8. Stacked(n, Held)
  BY <1>2, <1>4 DEF Held, Stacked
<1>9. ASSUME honest PROVE Held = Originals
  <2>1. \A i \in 1 .. n : files[i].pages = OriginalPages(i)
    BY <1>1, <1>9 DEF FilesFit
  <2> QED
    BY <2>1 DEF Held, Originals
<1>10. \A i \in 1 .. n : Len(Held[i]) \in Nat
  BY <1>4, <1>5, LenProperties
<1> QED
  BY <1>2, <1>3, <1>4, <1>5, <1>7, <1>8, <1>9, <1>10

\* The pages expected of a result that keeps them all.
LEMMA InputPagesCount ==
  ASSUME request \in Requests
  PROVE  /\ InputPages \in Nat /\ InputPages > 0
         /\ InputCount = 1 => InputPages = request.documents[1].pages
<1> DEFINE n == InputCount
           id == [i \in 1 .. n |-> i]
           F == Gathered(n, Originals, id)
<1>1. /\ n \in Nat /\ n >= 1 /\ Holds(n, Originals) /\ Permutation(n, id)
      /\ InputPages = Len(F)
      /\ \A i \in 1 .. n : /\ OriginalPages(i) \in Seq(Pages) /\ Originals[i] = OriginalPages(i)
                           /\ Len(OriginalPages(i)) = request.documents[i].pages
                           /\ request.documents[i].pages \in Nat \ {0}
  BY OriginalsHold
<1>2. F \in Seq(Pages) /\ \E at : Gathers(n, Originals, id, at, F)
  BY <1>1, GatheredPages DEF Permutation
<1>3. PICK at : Gathers(n, Originals, id, at, F)
  BY <1>2
<1>4. Len(F) \in Nat /\ Len(F) > 0
  <2>1. 1 \in 1 .. n
    BY <1>1
  <2> DEFINE k == 1
  <2>2. k \in 1 .. n /\ id[k] = 1 /\ 1 \in 1 .. Len(Originals[id[k]])
    <3>1. id[1] = 1
      BY <2>1
    <3>2. Originals[1] = OriginalPages(1) /\ Len(OriginalPages(1)) \in Nat \ {0}
      BY <1>1, <2>1
    <3> HIDE DEF id
    <3>3. 1 \in 1 .. Len(Originals[1])
      BY <3>2
    <3> QED
      BY <2>1, <3>1, <3>3
  <2>3. at[k][1] \in 1 .. Len(F) /\ Len(F) \in Nat
    BY <1>3, <2>2 DEF Gathers
  <2> QED
    BY <2>3
<1>5. ASSUME n = 1 PROVE InputPages = request.documents[1].pages
  <2>1. [i \in 1 .. n |-> OriginalPages(i)] = [i \in 1 .. 1 |-> OriginalPages(1)]
    BY <1>5
  <2> DEFINE o == OriginalPages(1)
  <2>2. FlattenSeq([i \in 1 .. 1 |-> o]) = o
    <3>1. o \in Seq(Pages)
      BY <1>1
    <3> HIDE DEF o
    <3> QED
      BY <3>1, FlattenOne
  <2>3. InputPages = Len(OriginalPages(1))
    BY <2>1, <2>2 DEF InputPages
  <2> QED
    BY <1>1, <1>5, <2>3
<1> QED
  BY <1>1, <1>4, <1>5

\* An output that is no part of a split has as many pages as the inputs only
\* when no page of an input is missing.
LEMMA MadeFromPages ==
  ASSUME TypeOK, Admitted, FilesFit, Begun, stage \notin {"submitted", "refused"},
         request.operation # "split"
  PROVE  \A k : /\ MadeFrom(k) \in Seq(Pages) /\ Len(MadeFrom(k)) \in Nat
                /\ Len(MadeFrom(k)) <= InputPages
                /\ Len(MadeFrom(k)) = InputPages <=> Held = Originals
                /\ request.operation \notin MultiInput =>
                     InputCount = 1 /\ MadeFrom(k) = Held[1] /\ files[1] \in Pdf
<1> DEFINE n == InputCount
           id == [i \in 1 .. n |-> i]
<1>1. request \in Requests /\ RequestGood(request)
  BY DEF Admitted
<1>2. /\ Stacked(n, Held) /\ n \in Nat /\ n >= 1 /\ Stacked(n, Originals) /\ Permutation(n, id)
      /\ Permutation(n, PacketSequence) /\ InputPages = Len(Gathered(n, Originals, id))
      /\ \A i \in 1 .. n : /\ Held[i] = files[i].pages /\ files[i] \in Pdf
                           /\ Held[i] \in Seq(Pages) /\ Len(Held[i]) <= Len(Originals[i])
                           /\ Len(Held[i]) \in Nat /\ Len(Originals[i]) \in Nat
  <2>1. \A i \in 1 .. n : Len(Originals[i]) \in Nat
    BY <1>1, OriginalsHold
  <2> QED
    BY <1>1, <2>1, HeldHolds, OriginalsHold, PacketSequencePermutes DEF Holds
<1> HIDE DEF n, id
<1>3. CASE request.operation \in MultiInput
  <2> DEFINE F == Gathered(n, Held, PacketSequence)
  <2>1. \A k : MadeFrom(k) = F
    BY <1>3 DEF MadeFrom, n
  <2>2. F \in Seq(Pages)
    BY <1>2, GatheredCounts
  <2>3. Len(F) \in Nat
    BY <2>2, LenProperties
  <2>4. /\ Len(F) <= InputPages /\ (Len(F) = InputPages <=> Held = Originals)
    <3>1. \A i \in 1 .. n : Held[i] = Originals[i] \/ Len(Held[i]) < Len(Originals[i])
      BY <1>1, HeldHolds DEF n, IsCut
    <3> QED
      BY <1>2, <3>1, NoPageMissing
  <2> HIDE DEF F
  <2> QED
    BY <1>3, <2>1, <2>2, <2>3, <2>4
<1>4. CASE request.operation \notin MultiInput
  <2>1. n = 1
    BY <1>1, <1>4 DEF RequestGood, n, InputCount
  <2>2. \A k : MadeFrom(k) = Held[1]
    BY <1>2, <1>4, <2>1 DEF MadeFrom
  <2>3. InputPages = Len(Originals[1])
    <3>1. InputPages = request.documents[1].pages
      BY <1>1, <2>1, InputPagesCount DEF n
    <3>2. Len(Originals[1]) = request.documents[1].pages
      BY <1>1, <2>1, OriginalsHold DEF n
    <3> QED
      BY <3>1, <3>2
  <2>4. ASSUME Len(Held[1]) = Len(Originals[1]) PROVE Held = Originals
    <3>1. IsCut(Held[1], Originals[1]) /\ Originals[1] \in Seq(Pages) /\ Held[1] \in Seq(Pages)
      BY <1>1, <2>1, HeldHolds, OriginalsHold DEF n
    <3>2. Held[1] = Originals[1]
      BY <2>4, <3>1, CutIsWhole
    <3> QED
      BY <2>1, <3>2 DEF Held, Originals, n
  <2> QED
    BY <1>2, <1>4, <2>1, <2>2, <2>3, <2>4 DEF n
<1> QED
  BY <1>3, <1>4

\* A part of a split has the pages its range selects.
LEMMA SplitPages ==
  ASSUME request \in Requests, request.operation = "split",
         RangesSatisfiable(request.ranges, request.documents[1].pages),
         NEW k \in 1 .. Len(request.ranges)
  PROVE  /\ Wanted(k) \in Seq(1 .. request.documents[1].pages)
         /\ Len(Wanted(k)) \in Nat \ {0}
         /\ MadeFrom(k) \in Seq(Pages) /\ Len(MadeFrom(k)) = Len(Wanted(k))
         /\ \A j \in 1 .. Len(Wanted(k)) : MadeFrom(k)[j] = <<1, Wanted(k)[j]>>
         /\ \A p \in 1 .. request.documents[1].pages :
              Cardinality({a \in 1 .. Len(Wanted(k)) : Wanted(k)[a] = p})
                = Cardinality({i \in DOMAIN request.ranges[k] :
                                 request.ranges[k][i] # BlankPart /\ Names(request.ranges[k][i], p)})
<1> DEFINE n == request.documents[1].pages
           range == request.ranges[k]
           w == Wanted(k)
<1>1. n \in Nat \ {0} /\ request.ranges \in Seq(Seq(Part))
  BY RequestTypes
<1>2. range \in Seq(Part)
  BY <1>1, ElementOfSeq
<1>3. RangeGood(range, n)
  BY <1>1, RangesResult
<1>4. w = RangePages(range, n)
  BY DEF Wanted
<1>5. /\ w \in Seq(1 .. n) /\ Len(w) \in Nat \ {0}
      /\ \A p \in 1 .. n :
           Cardinality({a \in 1 .. Len(w) : w[a] = p})
             = Cardinality({i \in DOMAIN range : range[i] # BlankPart /\ Names(range[i], p)})
  <2> HIDE DEF n, range, w
  <2> QED
    <3> DEFINE r == RangePages(range, n)
    <3>1. /\ r \in Seq(1 .. n) /\ Len(r) \in Nat \ {0}
          /\ \A p \in 1 .. n :
               Cardinality({a \in 1 .. Len(r) : r[a] = p})
                 = Cardinality({i \in DOMAIN range : range[i] # BlankPart /\ Names(range[i], p)})
      BY <1>1, <1>2, <1>3, RangePagesOnce, Zenon
    <3>2. w = r
      BY <1>4
    <3> HIDE DEF r
    <3> QED
      BY <3>1, <3>2, Zenon
<1>6. MadeFrom(k) = [j \in 1 .. Len(w) |-> <<1, w[j]>>]
  BY DEF MadeFrom
<1> HIDE DEF n, range, w
<1>7. \A j \in 1 .. Len(w) : <<1, w[j]>> \in Pages
  <2>1. \A j \in 1 .. Len(w) : w[j] \in 1 .. n
    BY <1>5, ElementOfSeq
  <2> QED
    BY <1>1, <2>1 DEF Pages
<1>8. MadeFrom(k) \in Seq(Pages) /\ Len(MadeFrom(k)) = Len(w)
  <2>1. MadeFrom(k) \in [1 .. Len(w) -> Pages]
    BY <1>6, <1>7
  <2> HIDE DEF MadeFrom, Pages
  <2> QED
    BY <1>5, <2>1
<1>9. \A j \in 1 .. Len(w) : MadeFrom(k)[j] = <<1, w[j]>>
  BY <1>6
<1> QED
  BY <1>5, <1>8, <1>9 DEF n, range, w

\* A packet's report says what the validation wants to read in it.
LEMMA PacketReportGood ==
  ASSUME Admitted, stage \notin {"submitted", "refused"}, IsPacket
  PROVE  /\ IsPermutation(PacketReport.sequence)
         /\ request.order = "manifest" =>
              /\ PacketReport.sections # <<>>
              /\ \A i \in DOMAIN PacketReport.sections : PacketReport.sections[i].satisfied
<1> DEFINE n == InputCount
           s == PacketSequence
<1>1. /\ n \in Nat /\ DOMAIN s = 1 .. n /\ Permutation(n, s)
      /\ request \in Requests /\ RequestGood(request) /\ stored = StoredLabels(request)
  BY PacketSequencePermutes DEF Admitted
<1>2. /\ PacketReport.sequence = s
      /\ request.order = "manifest" =>
           PacketReport.sections = ManifestValidation(request.manifest, stored)
  BY DEF PacketReport
<1> HIDE DEF n, s
<1>3. IsPermutation(s)
  <2>1. s \in [1 .. n -> 1 .. n] /\ \A i \in 1 .. n : \E k \in 1 .. n : s[k] = i
    BY <1>1 DEF Permutation
  <2>2. s \in Seq(1 .. n) /\ Len(s) = n
    BY <1>1, <2>1
  <2>3. ToSet(s) = {s[i] : i \in 1 .. n}
    BY <1>1 DEF ToSet
  <2>4. ToSet(s) = 1 .. n
    BY <2>1, <2>3
  <2> QED
    BY <2>2, <2>4 DEF IsPermutation, n
<1>4. ASSUME request.order = "manifest"
      PROVE  /\ PacketReport.sections # <<>>
             /\ \A i \in DOMAIN PacketReport.sections : PacketReport.sections[i].satisfied
  <2> DEFINE m == request.manifest
  <2>1. stored = request.labels
    BY <1>1, <1>4 DEF StoredLabels, IsPacket
  <2>2. ManifestOf(request)
    <3>1. OptionError(request) = "none" /\ request.operation = "prepare_packet"
      BY <1>1 DEF RequestGood, IsPacket
    <3>2. PacketOptionError(request) = "none"
      BY <1>1, <3>1, OptionResult
    <3> QED
      BY <1>1, <1>4, <3>2, PacketOptionResult DEF Yields, IsCode
  <2>3. /\ Len(m) \in 1 .. MaxSections
        /\ \A i \in DOMAIN m : Satisfied(m[i], stored)
    BY <2>1, <2>2 DEF ManifestOf, ManifestGood
  <2>4. m \in Seq(AnySection) /\ MaxSections \in Nat
    BY <1>1, RequestTypes, ManifestAssumption
  <2>5. DOMAIN m = 1 .. Len(m) /\ 1 \in DOMAIN m
    BY <2>3, <2>4, LenProperties
  <2> DEFINE v == ManifestValidation(m, stored)
  <2>6. DOMAIN v = DOMAIN m /\ \A i \in DOMAIN m : v[i].satisfied = Satisfied(m[i], stored)
    BY DEF ManifestValidation
  <2> HIDE DEF v, m
  <2>7. v # <<>> /\ \A i \in DOMAIN v : v[i].satisfied
    BY <2>3, <2>5, <2>6
  <2> QED
    BY <1>2, <1>4, <2>7 DEF v, m
<1> QED
  BY <1>2, <1>3, <1>4

\* The validation finds nothing wrong with the result of tools that did their work.
LEMMA HonestResultPasses ==
  ASSUME TypeOK, Admitted, FilesFit, MadeFits, stage = "validate", honest
  PROVE  ValidationError = "none"
<1>1. /\ request \in Requests /\ request.operation \in Operations
      /\ Begun /\ Ended /\ stage \notin {"submitted", "refused"}
      /\ report = PacketReport
      /\ Len(made) = IF request.operation = "split" THEN Len(request.ranges) ELSE 1
      /\ made \in Seq([pdf : Pdf, claimed : Nat])
  BY RequestTypes DEF Admitted, Begun, Ended, MadeFits, TypeOK
<1>2. \A k \in 1 .. Len(made) :
        /\ made[k].pdf.pages = MadeFrom(k) /\ made[k].claimed = Len(MadeFrom(k))
        /\ made[k].pdf.openable /\ made[k].pdf.sized
  BY <1>1 DEF MadeFits, OutputFits
<1>3. \A k \in 1 .. Len(made) : Len(MadeFrom(k)) > 0
  <2>1. CASE request.operation = "split"
    BY <1>1, <2>1, SplitPages DEF MadeFits
  <2>2. CASE request.operation # "split"
    BY <1>1, <2>2, MadeFromPages, HeldHolds, InputPagesCount
  <2> QED
    BY <2>1, <2>2
<1>4. \A k \in 1 .. Len(made) : OutputGood(k)
  BY <1>2, <1>3 DEF OutputGood, MadePages
<1>5. OperationGood
  <2>1. request.operation # "split" => MadePages(1) = InputPages
    BY <1>1, <1>2, MadeFromPages, HeldHolds DEF MadePages
  <2>2. IsPacket => /\ IsPermutation(report.sequence)
                    /\ request.order = "manifest" =>
                         /\ report.sections # <<>>
                         /\ \A i \in DOMAIN report.sections : report.sections[i].satisfied
    BY <1>1, PacketReportGood
  <2>3. request.operation = "compress" => made[1].pdf.sized
    BY <1>1, <1>2
  <2>4. DOMAIN made = 1 .. Len(made)
    BY <1>1, LenProperties
  <2>5. \A k \in DOMAIN made : made[k].claimed = MadePages(k)
    BY <1>2, <2>4 DEF MadePages
  <2> QED
    BY <2>1, <2>2, <2>3, <2>5 DEF OperationGood
<1> QED
  BY <1>1, <1>4, <1>5, ValidationResult DEF Yields

-----------------------------------------------------------------------------
(* Steps that end the work, or come to a result.                           *)

\* An error ends the work and leaves everything else as it was.
LEMMA ErrorKeepsInv ==
  ASSUME PdfInv, stage \in {"inspect", "ocr", "validate"}, stage' = "over", IsCode(outcome'),
         UNCHANGED <<request, stored, files, ocred, looked, made, report>>,
         honest' \in BOOLEAN, honest' => honest, HonestWorkSucceeds'
  PROVE  PdfInv'
<1>1. /\ TypeOK /\ Admitted /\ FilesFit /\ TextSeen
      /\ outcome' # "none" /\ outcome' \notin Success
  BY DEF PdfInv, IsCode
<1>2. MadeFits' /\ Validated' /\ ~Begun'
  BY <1>1, NotEnded
<1>3. TypeOK'
  BY <1>1 DEF TypeOK, InputCount
<1>4. Admitted'
  BY <1>1, AdmittedKept
<1>5. FilesFit' /\ TextSeen'
  BY <1>1, <1>2, FilesKept, TextKept
<1>6. Unreported'
  BY DEF Unreported
<1> QED
  BY <1>2, <1>3, <1>4, <1>5, <1>6 DEF PdfInv

LEMMA ToolFailsKeepsInv ==
  ASSUME PdfInv, ToolFails
  PROVE  PdfInv'
<1>1. /\ outcome' \in ToolErrors /\ stage' = "over" /\ honest' = FALSE
      /\ UNCHANGED <<request, stored, files, ocred, looked, made, report>>
  BY DEF ToolFails, Fail
<1>2. stage \in {"inspect", "ocr", "validate"}
  BY <1>1 DEF ToolErrors
<1>3. request.operation \in Operations
  BY RequestTypes DEF PdfInv, Admitted
<1>4. \A op \in Operations : \A code \in OperationToolErrors[op] : IsCode(code)
  BY DEF Operations, MultiInput, OperationToolErrors, IsCode, Success
<1>5. IsCode(outcome')
  BY <1>1, <1>3, <1>4 DEF ToolErrors, IsCode, Success
<1>6. HonestWorkSucceeds'
  BY <1>1 DEF HonestWorkSucceeds
<1> QED
  BY <1>1, <1>2, <1>5, <1>6, ErrorKeepsInv

LEMMA SameReport ==
  ASSUME UNCHANGED <<request, stored, files, ocred>>
  PROVE  /\ PacketSequence' = PacketSequence /\ PacketReport' = PacketReport
         /\ Held' = Held /\ \A k : MadeFrom(k)' = MadeFrom(k)
<1>1. PacketSequence' = PacketSequence
  BY DEF PacketSequence, IsPacket, InputCount
<1>2. PacketReport' = PacketReport
  BY <1>1 DEF PacketReport, IsPacket, LowTextAfterOcr
<1>3. Held' = Held
  BY DEF Held, InputCount
<1>4. \A k : MadeFrom(k)' = MadeFrom(k)
  BY <1>1, <1>3 DEF MadeFrom, Wanted, InputCount
<1> QED
  BY <1>1, <1>2, <1>3, <1>4

\* An operation has made outputs that fit, and says so in its report.
LEMMA ProduceKeepsInv ==
  ASSUME PdfInv, stage = "ocr", looked = InputCount, stage' = "validate", outcome' = outcome,
         UNCHANGED <<request, stored, files, ocred, looked>>,
         honest' \in BOOLEAN, honest' => honest, report' = PacketReport,
         made' \in Seq([pdf : Pdf, claimed : Nat]),
         Len(made') = IF request.operation = "split" THEN Len(request.ranges) ELSE 1,
         request.operation = "split" =>
           RangesSatisfiable(request.ranges, request.documents[1].pages),
         \A k \in 1 .. Len(made') :
           /\ IsCut(made'[k].pdf.pages, MadeFrom(k))
           /\ request.operation = "split" => made'[k].claimed = Len(MadeFrom(k))
           /\ honest' => /\ made'[k].pdf.pages = MadeFrom(k)
                         /\ made'[k].claimed = Len(MadeFrom(k))
                         /\ made'[k].pdf.openable /\ made'[k].pdf.sized
  PROVE  PdfInv'
<1>1. /\ TypeOK /\ Admitted /\ FilesFit /\ TextSeen /\ outcome = "none"
  BY DEF PdfInv, TypeOK
<1>2. /\ PacketReport' = PacketReport /\ InputCount' = InputCount
      /\ \A k : MadeFrom(k)' = MadeFrom(k)
  BY SameReport, SameRequest
<1>3. Begun /\ Begun'
  BY DEF Begun
<1>4. report'.warned \subseteq ocred
  BY DEF PacketReport, NoReport, LowTextAfterOcr
<1>5. TypeOK'
  BY <1>1, <1>2, <1>4 DEF TypeOK
<1>6. Admitted'
  BY <1>1, AdmittedKept
<1>7. FilesFit'
  BY <1>1, <1>3, FilesKept DEF FilesFit
<1>8. TextSeen'
  BY <1>1, <1>3, TextKept
<1>9. MadeFits'
  <2>1. ASSUME NEW k \in 1 .. Len(made') PROVE OutputFits(k)'
    <3>1. MadeFrom(k)' = MadeFrom(k)
      BY <1>2
    <3> QED
      BY <3>1 DEF OutputFits, IsCut
  <2> QED
    BY <1>2, <2>1 DEF MadeFits
<1>10. Unreported' /\ Validated' /\ HonestWorkSucceeds'
  BY <1>1 DEF Unreported, Validated, HonestWorkSucceeds, Success
<1> QED
  BY <1>5, <1>6, <1>7, <1>8, <1>9, <1>10 DEF PdfInv

LEMMA ValidateResultKeepsInv ==
  ASSUME PdfInv, ValidateResult
  PROVE  PdfInv'
<1>1. /\ stage = "validate" /\ stage' = "over"
      /\ outcome' = IF ValidationError # "none" THEN ValidationError
                    ELSE SuccessOutcome(report.warned)
      /\ UNCHANGED <<request, stored, files, ocred, looked, made, report, honest>>
  BY DEF ValidateResult, Fail
<1>2. /\ TypeOK /\ Admitted /\ FilesFit /\ TextSeen /\ MadeFits
      /\ request.operation \in Operations /\ honest \in BOOLEAN
  BY RequestTypes DEF PdfInv, Admitted, TypeOK
<1>3. CASE ValidationError # "none"
  <2>1. ~honest
    BY <1>1, <1>2, <1>3, HonestResultPasses
  <2>2. Len(made) = 1 \/ request.operation # "compress"
    BY <1>1, <1>2 DEF MadeFits, Ended
  <2>3. IsCode(outcome')
    BY <1>1, <1>2, <1>3, <2>2, ValidationResult DEF Yields
  <2>4. HonestWorkSucceeds'
    BY <1>1, <2>1 DEF HonestWorkSucceeds
  <2> QED
    BY <1>1, <1>2, <2>3, <2>4, ErrorKeepsInv
<1>4. CASE ValidationError = "none"
  <2>1. outcome' = SuccessOutcome(report.warned) /\ outcome' \in Success /\ outcome' # "none"
    BY <1>1, <1>4 DEF SuccessOutcome, Success
  <2>2. Begun /\ Ended
    BY <1>1 DEF Begun, Ended
  <2>3. TypeOK'
    BY <1>1, <1>2, <2>1 DEF TypeOK, InputCount
  <2>4. Admitted'
    BY <1>1, <1>2, AdmittedKept
  <2>5. FilesFit'
    BY <1>1, <1>2, <2>2, FilesKept DEF FilesFit
  <2>6. TextSeen'
    BY <1>1, <1>2, <2>2, TextKept
  <2>7. MadeFits'
    <3>1. /\ PacketReport' = PacketReport /\ InputCount' = InputCount
          /\ \A k : MadeFrom(k)' = MadeFrom(k)
      BY <1>1, SameReport, SameRequest
    <3>2. ASSUME NEW k \in 1 .. Len(made) PROVE OutputFits(k)'
      <4>1. MadeFrom(k)' = MadeFrom(k) /\ OutputFits(k)
        BY <1>2, <2>2, <3>1 DEF MadeFits
      <4> QED
        BY <1>1, <4>1 DEF OutputFits, IsCut
    <3> QED
      BY <1>1, <1>2, <2>2, <3>1, <3>2 DEF MadeFits
  <2>8. Unreported' /\ HonestWorkSucceeds'
    BY <1>1, <2>1 DEF Unreported, HonestWorkSucceeds
  <2>9. ValidationError' = ValidationError
    BY <1>1 DEF ValidationError, OutputError, OperationError, PacketError, IsPermutation,
                MadePages, InputPages, InputCount, OriginalPages
  <2>10. Validated'
    BY <1>1, <1>4, <2>1, <2>9 DEF Validated
  <2> QED
    BY <2>3, <2>4, <2>5, <2>6, <2>7, <2>8, <2>10 DEF PdfInv
<1> QED
  BY <1>3, <1>4

\* What is known when the inputs have been looked at and an operation of one
\* input is to begin.
LEMMA OneInput ==
  ASSUME PdfInv, stage = "ocr", looked = InputCount,
         request.operation \notin MultiInput \cup {"split"}
  PROVE  /\ report = PacketReport /\ honest \in BOOLEAN
         /\ files[1] \in Pdf /\ Len(files[1].pages) \in Nat
         /\ \A k : MadeFrom(k) = files[1].pages
         /\ honest => files[1].openable /\ files[1].sized /\ files[1].pages = OriginalPages(1)
         /\ Len(OriginalPages(1)) = request.documents[1].pages /\ request.documents[1].pages \in Nat
<1>1. /\ TypeOK /\ Admitted /\ FilesFit /\ Begun /\ stage \notin {"submitted", "refused"}
      /\ report = NoReport /\ request \in Requests /\ honest \in BOOLEAN
  BY DEF PdfInv, Begun, Unreported, Admitted, TypeOK
<1>2. InputCount = 1 /\ files[1] \in Pdf /\ \A k : MadeFrom(k) = Held[1]
  BY <1>1, MadeFromPages
<1>3. Held[1] = files[1].pages /\ Len(Held[1]) \in Nat
  BY <1>1, <1>2, HeldHolds
<1>4. PacketReport = NoReport
  BY DEF PacketReport, IsPacket, MultiInput
<1>5. honest => files[1].openable /\ files[1].sized /\ files[1].pages = OriginalPages(1)
  BY <1>1, <1>2 DEF FilesFit
<1>6. Len(OriginalPages(1)) = request.documents[1].pages /\ request.documents[1].pages \in Nat
  BY <1>1, <1>2, OriginalsHold
<1> QED
  BY <1>1, <1>2, <1>3, <1>4, <1>5, <1>6

\* An output of one file fits.
LEMMA OneOutput ==
  ASSUME PdfInv, stage = "ocr", looked = InputCount,
         request.operation \notin MultiInput \cup {"split"},
         NEW pdf \in Pdf, NEW count \in Nat, made' = <<Claiming(pdf, count)>>,
         IsCut(pdf.pages, files[1].pages),
         stage' = "validate", outcome' = outcome,
         UNCHANGED <<request, stored, files, ocred, looked, report>>,
         honest' \in BOOLEAN, honest' => honest,
         honest' => pdf = files[1] /\ count = Len(files[1].pages)
  PROVE  PdfInv'
<1>1. made' \in Seq([pdf : Pdf, claimed : Nat]) /\ Len(made') = 1 /\ made'[1] = Claiming(pdf, count)
  <2>1. Claiming(pdf, count) \in [pdf : Pdf, claimed : Nat]
    BY DEF Claiming
  <2> HIDE DEF Claiming, Pdf
  <2> QED
    BY <2>1
<1>2. made'[1].pdf = pdf /\ made'[1].claimed = count
  BY <1>1 DEF Claiming
<1>3. /\ report = PacketReport /\ \A k : MadeFrom(k) = files[1].pages
      /\ honest => files[1].openable /\ files[1].sized
  BY OneInput
<1>4. \A k \in 1 .. Len(made') : k = 1
  BY <1>1
<1>5. \A k \in 1 .. Len(made') :
        /\ IsCut(made'[k].pdf.pages, MadeFrom(k))
        /\ request.operation = "split" => made'[k].claimed = Len(MadeFrom(k))
        /\ honest' => /\ made'[k].pdf.pages = MadeFrom(k)
                      /\ made'[k].claimed = Len(MadeFrom(k))
                      /\ made'[k].pdf.openable /\ made'[k].pdf.sized
  BY <1>2, <1>3, <1>4
<1> QED
  BY <1>1, <1>3, <1>5, ProduceKeepsInv

LEMMA CompressInputKeepsInv ==
  ASSUME PdfInv, CompressInput
  PROVE  PdfInv'
<1>1. /\ stage = "ocr" /\ looked = InputCount /\ request.operation = "compress"
      /\ UNCHANGED <<request, stored, files, ocred, looked, report>>
  BY DEF CompressInput
<1> DEFINE count == Len(files[1].pages)
<1>2. PICK pdf \in Products(files[1]) :
        Produce(<<Claiming(pdf, count)>>, <<Claiming(files[1], count)>>)
  BY DEF CompressInput
<1>3. files[1] \in Pdf /\ count \in Nat /\ honest \in BOOLEAN
  BY <1>1, OneInput DEF MultiInput
<1>4. pdf \in Pdf /\ IsCut(pdf.pages, files[1].pages)
  BY <1>3, ProductsAreCut
<1> HIDE DEF count
<1>5. /\ made' = <<Claiming(pdf, count)>> /\ stage' = "validate" /\ outcome' = outcome
      /\ honest' = (honest /\ <<Claiming(pdf, count)>> = <<Claiming(files[1], count)>>)
  BY <1>2 DEF Produce, Keep
<1>6. honest' => honest /\ pdf = files[1]
  BY <1>5 DEF Claiming
<1> QED
  BY <1>1, <1>3, <1>4, <1>5, <1>6, OneOutput DEF MultiInput, count

LEMMA OfferOcrKeepsInv ==
  ASSUME PdfInv, OfferOcr
  PROVE  PdfInv'
<1>1. /\ stage = "ocr" /\ looked = InputCount /\ request.operation = "ocr"
      /\ UNCHANGED <<request, stored, files, ocred, looked, report, honest>>
      /\ made' = <<Claiming(files[1], request.documents[1].pages)>>
      /\ stage' = "validate" /\ outcome' = outcome
  BY DEF OfferOcr, Keep
<1>2. /\ files[1] \in Pdf /\ Len(files[1].pages) \in Nat /\ honest \in BOOLEAN
      /\ request.documents[1].pages \in Nat
      /\ honest => request.documents[1].pages = Len(files[1].pages)
  BY <1>1, OneInput DEF MultiInput
<1>3. IsCut(files[1].pages, files[1].pages)
  BY <1>2 DEF IsCut
<1> QED
  BY <1>1, <1>2, <1>3, OneOutput DEF MultiInput

LEMMA ExtractTextKeepsInv ==
  ASSUME PdfInv, ExtractText
  PROVE  PdfInv'
<1>1. /\ stage = "ocr" /\ looked = InputCount /\ request.operation = "extract_text"
      /\ UNCHANGED <<request, stored, files, ocred, looked, report>>
  BY DEF ExtractText
<1>2. PICK pdf \in Products(files[1]) :
        Produce(<<Claiming(pdf, Len(pdf.pages))>>, <<Claiming(files[1], Len(files[1].pages))>>)
  BY DEF ExtractText
<1>3. files[1] \in Pdf /\ honest \in BOOLEAN
  BY <1>1, OneInput DEF MultiInput
<1>4. pdf \in Pdf /\ IsCut(pdf.pages, files[1].pages)
  BY <1>3, ProductsAreCut
<1>5. Len(pdf.pages) \in Nat
  BY <1>4, LenProperties DEF Pdf
<1>6. /\ made' = <<Claiming(pdf, Len(pdf.pages))>> /\ stage' = "validate" /\ outcome' = outcome
      /\ honest' = (honest /\ <<Claiming(pdf, Len(pdf.pages))>>
                                = <<Claiming(files[1], Len(files[1].pages))>>)
  BY <1>2 DEF Produce, Keep
<1>7. honest' => honest /\ pdf = files[1]
  BY <1>6 DEF Claiming
<1> QED
  BY <1>1, <1>3, <1>4, <1>5, <1>6, <1>7, OneOutput DEF MultiInput

LEMMA MergeInputsKeepsInv ==
  ASSUME PdfInv, MergeInputs
  PROVE  PdfInv'
<1> DEFINE pages == FlattenSeq([k \in DOMAIN PacketSequence |-> files[PacketSequence[k]].pages])
           promised == Whole(pages, "every")
<1>1. /\ stage = "ocr" /\ looked = InputCount /\ request.operation \in MultiInput
      /\ UNCHANGED <<request, stored, files, ocred, looked>>
      /\ TypeOK /\ Admitted /\ FilesFit /\ Begun /\ stage \notin {"submitted", "refused"}
      /\ honest \in BOOLEAN
  BY DEF MergeInputs, PdfInv, Begun, TypeOK
<1>2. CASE \E i \in DOMAIN files : ~files[i].openable
  <2>1. outcome' = "PDF_OPEN_FAILED" /\ stage' = "over" /\ UNCHANGED <<made, report, honest>>
    BY <1>2 DEF MergeInputs, Fail
  <2>2. ~honest
    <3>1. DOMAIN files = 1 .. Len(files)
      BY <1>1, LenProperties DEF TypeOK
    <3> QED
      BY <1>1, <1>2, <3>1 DEF FilesFit
  <2>3. IsCode(outcome') /\ HonestWorkSucceeds'
    BY <2>1, <2>2 DEF IsCode, Success, HonestWorkSucceeds
  <2> QED
    BY <1>1, <2>1, <2>3, ErrorKeepsInv
<1>3. CASE ~ \E i \in DOMAIN files : ~files[i].openable
  <2>1. /\ report' = PacketReport
        /\ \E pdf \in Products(promised) :
             Produce(<<Claiming(pdf, Len(pages))>>, <<Claiming(promised, Len(pages))>>)
    BY <1>3 DEF MergeInputs
  <2>2. /\ request.operation # "split" /\ \A k : MadeFrom(k) = pages
    <3>1. /\ DOMAIN PacketSequence = 1 .. InputCount
          /\ \A k \in 1 .. InputCount : PacketSequence[k] \in 1 .. InputCount
      BY <1>1, PacketSequencePermutes DEF Permutation
    <3>2. \A i \in 1 .. InputCount : Held[i] = files[i].pages
      BY DEF Held
    <3>3. [k \in DOMAIN PacketSequence |-> files[PacketSequence[k]].pages]
            = [k \in 1 .. InputCount |-> Held[PacketSequence[k]]]
      BY <3>1, <3>2
    <3>4. pages = Gathered(InputCount, Held, PacketSequence)
      BY <3>3, Zenon DEF Gathered
    <3> QED
      BY <1>1, <3>4 DEF MadeFrom, MultiInput
  <2>3. pages \in Seq(Pages) /\ Len(pages) \in Nat
    BY <1>1, <2>2, MadeFromPages
  <2> HIDE DEF pages
  <2>4. promised \in Pdf /\ promised.pages = pages /\ promised.openable /\ promised.sized
    BY <2>3 DEF Whole, Pdf, TextKinds
  <2> HIDE DEF promised
  <2>5. PICK pdf \in Products(promised) :
          Produce(<<Claiming(pdf, Len(pages))>>, <<Claiming(promised, Len(pages))>>)
    BY <2>1
  <2>6. pdf \in Pdf /\ IsCut(pdf.pages, pages)
    BY <2>4, ProductsAreCut
  <2>7. /\ made' = <<Claiming(pdf, Len(pages))>> /\ stage' = "validate" /\ outcome' = outcome
        /\ honest' = (honest /\ <<Claiming(pdf, Len(pages))>> = <<Claiming(promised, Len(pages))>>)
    BY <2>5 DEF Produce, Keep
  <2>8. honest' => honest /\ pdf = promised
    BY <2>7 DEF Claiming
  <2>9. Claiming(pdf, Len(pages)) \in [pdf : Pdf, claimed : Nat]
    BY <2>3, <2>6 DEF Claiming
  <2>10. /\ made' \in Seq([pdf : Pdf, claimed : Nat]) /\ Len(made') = 1
         /\ made'[1] = Claiming(pdf, Len(pages))
    <3> HIDE DEF Claiming, Pdf
    <3> QED
      BY <2>7, <2>9
  <2>11. made'[1].pdf = pdf /\ made'[1].claimed = Len(pages)
    BY <2>10 DEF Claiming
  <2>12. \A k \in 1 .. Len(made') : k = 1
    BY <2>10
  <2>13. \A k \in 1 .. Len(made') :
           /\ IsCut(made'[k].pdf.pages, MadeFrom(k))
           /\ request.operation = "split" => made'[k].claimed = Len(MadeFrom(k))
           /\ honest' => /\ made'[k].pdf.pages = MadeFrom(k)
                         /\ made'[k].claimed = Len(MadeFrom(k))
                         /\ made'[k].pdf.openable /\ made'[k].pdf.sized
    BY <2>2, <2>4, <2>6, <2>8, <2>11, <2>12
  <2>14. honest' \in BOOLEAN
    BY <1>1, <2>7
  <2> QED
    BY <1>1, <2>1, <2>2, <2>7, <2>8, <2>10, <2>13, <2>14, ProduceKeepsInv
<1> QED
  BY <1>2, <1>3

LEMMA SplitInputKeepsInv ==
  ASSUME PdfInv, SplitInput
  PROVE  PdfInv'
<1> DEFINE count == Len(files[1].pages)
           error == PageRangesError(request.ranges, count)
           n == request.documents[1].pages
<1>1. /\ stage = "ocr" /\ looked = InputCount /\ request.operation = "split"
      /\ UNCHANGED <<request, stored, files, ocred, looked, report>>
      /\ TypeOK /\ Admitted /\ FilesFit /\ Begun /\ report = NoReport
      /\ honest \in BOOLEAN /\ request \in Requests
  BY DEF SplitInput, PdfInv, Begun, TypeOK, Unreported, Admitted
<1>2. n \in Nat \ {0} /\ request.ranges \in Seq(Seq(Part)) /\ 1 \in 1 .. InputCount
  BY <1>1, RequestTypes DEF InputCount
<1>3. files[1].pages = OriginalPages(1) /\ count = n
  <2>1. ocred = {}
    BY <1>1 DEF FilesFit, MultiInput
  <2>2. files[1] = Whole(OriginalPages(1), request.documents[1].text)
    BY <1>1, <1>2, <2>1 DEF FilesFit
  <2>3. files[1].pages = OriginalPages(1)
    BY <2>2 DEF Whole
  <2> QED
    BY <1>1, <1>2, <2>3, OriginalsHold
<1>4. /\ Yields(error, RangesSatisfiable(request.ranges, n))
  BY <1>2, <1>3, RangesResult
<1>5. CASE error # "none"
  <2>1. outcome' = error /\ stage' = "over" /\ UNCHANGED <<made, honest>>
    BY <1>5 DEF SplitInput, Fail
  <2>2. IsCode(error) /\ ~RangesSatisfiable(request.ranges, n)
    BY <1>4, <1>5 DEF Yields
  <2>3. HonestWorkSucceeds'
    BY <1>1, <2>2 DEF HonestWorkSucceeds
  <2> HIDE DEF error, n
  <2> QED
    BY <1>1, <2>1, <2>2, <2>3, ErrorKeepsInv
<1>6. CASE error = "none"
  <2> DEFINE wanted == SelectedPages(request.ranges, count)
             part(k) == Whole([j \in DOMAIN wanted[k] |-> files[1].pages[wanted[k][j]]], "every")
             parts == [k \in DOMAIN wanted |-> part(k)]
             claiming(pdfs) == [k \in DOMAIN wanted |-> Claiming(pdfs[k], Len(wanted[k]))]
             m == Len(request.ranges)
             T == [pdf : Pdf, claimed : Nat]
  <2>1. RangesSatisfiable(request.ranges, n)
    BY <1>4, <1>6 DEF Yields, IsCode
  <2>2. \E pdfs \in [DOMAIN wanted -> UNION {Products(parts[k]) : k \in DOMAIN wanted}] :
          /\ \A k \in DOMAIN wanted : pdfs[k] \in Products(parts[k])
          /\ Produce(claiming(pdfs), claiming(parts))
    BY <1>6 DEF SplitInput
  <2>3. DOMAIN request.ranges = 1 .. m /\ m \in Nat
    BY <1>2, LenProperties
  <2>4. DOMAIN wanted = 1 .. m /\ \A k \in 1 .. m : wanted[k] = Wanted(k)
    BY <1>3, <2>3 DEF SelectedPages, Wanted
  <2> HIDE DEF wanted
  <2>5. ASSUME NEW k \in 1 .. m
        PROVE  /\ part(k) = Whole(MadeFrom(k), "every") /\ part(k) \in Pdf
               /\ MadeFrom(k) \in Seq(Pages) /\ Len(MadeFrom(k)) \in Nat
               /\ Len(wanted[k]) = Len(MadeFrom(k))
    <3>1. /\ Wanted(k) \in Seq(1 .. n) /\ Len(Wanted(k)) \in Nat
          /\ MadeFrom(k) \in Seq(Pages) /\ Len(MadeFrom(k)) = Len(Wanted(k))
          /\ MadeFrom(k) = [j \in 1 .. Len(Wanted(k)) |-> <<1, Wanted(k)[j]>>]
      BY <1>1, <2>1, SplitPages DEF MadeFrom
    <3>2. DOMAIN Wanted(k) = 1 .. Len(Wanted(k)) /\ \A j \in 1 .. Len(Wanted(k)) : Wanted(k)[j] \in 1 .. n
      BY <3>1, LenProperties, ElementOfSeq
    <3>3. \A p \in 1 .. n : files[1].pages[p] = <<1, p>>
      BY <1>1, <1>2, <1>3, OriginalsHold
    <3>4. [j \in DOMAIN Wanted(k) |-> files[1].pages[Wanted(k)[j]]] = MadeFrom(k)
      BY <3>1, <3>2, <3>3
    <3>5. part(k) = Whole(MadeFrom(k), "every")
      BY <2>4, <3>4, Zenon
    <3>6. Whole(MadeFrom(k), "every") \in Pdf
      BY <3>1 DEF Whole, Pdf, TextKinds
    <3> QED
      BY <2>4, <3>1, <3>5, <3>6
  <2>6. \A k \in 1 .. m : parts[k] = part(k)
    BY <2>4
  <2> HIDE DEF part, parts
  <2>7. PICK pdfs : /\ \A k \in 1 .. m : pdfs[k] \in Products(part(k))
                    /\ Produce(claiming(pdfs), claiming(parts))
    BY <2>2, <2>4, <2>6
  <2>8. /\ made' = claiming(pdfs) /\ stage' = "validate" /\ outcome' = outcome
        /\ honest' = (honest /\ claiming(pdfs) = claiming(parts))
    BY <2>7 DEF Produce, Keep
  <2>9. /\ made' = [k \in 1 .. m |-> Claiming(pdfs[k], Len(MadeFrom(k)))]
        /\ claiming(parts) = [k \in 1 .. m |-> Claiming(part(k), Len(MadeFrom(k)))]
    BY <2>4, <2>5, <2>6, <2>8
  <2> HIDE DEF claiming
  <2>10. ASSUME NEW k \in 1 .. m
         PROVE  /\ part(k).pages = MadeFrom(k) /\ part(k).openable /\ part(k).sized
                /\ pdfs[k] \in Pdf /\ IsCut(pdfs[k].pages, MadeFrom(k))
    <3>1. part(k).pages = MadeFrom(k) /\ part(k).openable /\ part(k).sized
      BY <2>5 DEF Whole
    <3> QED
      BY <2>5, <2>7, <3>1, ProductsAreCut
  <2>11. \A k \in 1 .. m : /\ made'[k] \in T /\ made'[k].claimed = Len(MadeFrom(k))
                          /\ made'[k].pdf = pdfs[k]
    BY <2>5, <2>9, <2>10 DEF Claiming
  <2>12. made' \in Seq(T) /\ Len(made') = m
    <3>1. made' \in [1 .. m -> T]
      <4> HIDE DEF T
      <4> QED
        BY <2>9, <2>11
    <3> HIDE DEF T
    <3> QED
      BY <2>3, <3>1
  <2>13. ASSUME NEW k \in 1 .. m
         PROVE  /\ IsCut(made'[k].pdf.pages, MadeFrom(k))
                /\ honest' => /\ made'[k].pdf.pages = MadeFrom(k)
                              /\ made'[k].pdf.openable /\ made'[k].pdf.sized
    <3>1. honest' => made'[k] = Claiming(part(k), Len(MadeFrom(k)))
      BY <2>8, <2>9
    <3>2. honest' => made'[k].pdf = part(k)
      BY <3>1 DEF Claiming
    <3> QED
      BY <2>10, <2>11, <3>2
  <2>14. report = PacketReport
    BY <1>1 DEF PacketReport, IsPacket
  <2>15. honest' \in BOOLEAN /\ (honest' => honest)
    BY <1>1, <2>8
  <2> QED
    BY <1>1, <2>1, <2>8, <2>11, <2>12, <2>13, <2>14, <2>15, ProduceKeepsInv
<1> QED
  BY <1>5, <1>6

-----------------------------------------------------------------------------
(* The invariant, and what it says of every run.                           *)

LEMMA PdfStep == PdfInv /\ [Next]_vars => PdfInv'
<1> SUFFICES ASSUME PdfInv, [Next]_vars PROVE PdfInv'
  OBVIOUS
<1>1. CASE Refuse
  BY <1>1, RefuseKeepsInv
<1>2. CASE Admit
  BY <1>2, AdmitKeepsInv
<1>3. CASE InspectInput
  BY <1>3, InspectInputKeepsInv
<1>4. CASE StartOperation
  BY <1>4, StartOperationKeepsInv
<1>5. CASE OcrInput
  BY <1>5, OcrInputKeepsInv
<1>6. CASE PassInput
  BY <1>6, PassInputKeepsInv
<1>7. CASE MergeInputs
  BY <1>7, MergeInputsKeepsInv
<1>8. CASE SplitInput
  BY <1>8, SplitInputKeepsInv
<1>9. CASE CompressInput
  BY <1>9, CompressInputKeepsInv
<1>10. CASE OfferOcr
  BY <1>10, OfferOcrKeepsInv
<1>11. CASE ExtractText
  BY <1>11, ExtractTextKeepsInv
<1>12. CASE ToolFails
  BY <1>12, ToolFailsKeepsInv
<1>13. CASE ValidateResult
  BY <1>13, ValidateResultKeepsInv
<1>14. CASE UNCHANGED vars
  <2>1. /\ PacketReport' = PacketReport /\ InputCount' = InputCount
        /\ \A k : MadeFrom(k)' = MadeFrom(k)
        /\ \A i : OriginalPages(i)' = OriginalPages(i)
    BY <1>14, SameReport, SameRequest DEF vars
  <2>2. TypeOK' /\ Admitted' /\ TextSeen' /\ Unreported' /\ HonestWorkSucceeds'
    BY <1>14 DEF vars, PdfInv, TypeOK, Admitted, TextSeen, Unreported, HonestWorkSucceeds,
                 InputCount, IsPacket, Begun
  <2>3. FilesFit'
    BY <1>14, <2>1, FilesKept DEF vars, PdfInv, FilesFit, Begun
  <2>4. MadeFits'
    <3>1. ASSUME NEW k \in 1 .. Len(made), OutputFits(k) PROVE OutputFits(k)'
      <4>1. MadeFrom(k)' = MadeFrom(k)
        BY <2>1
      <4> QED
        BY <1>14, <3>1, <4>1 DEF vars, OutputFits, IsCut
    <3> QED
      BY <1>14, <2>1, <3>1 DEF vars, PdfInv, MadeFits, Ended
  <2>5. Validated'
    BY <1>14 DEF vars, PdfInv, Validated, ValidationError, OutputError, OperationError,
                 PacketError, IsPermutation, MadePages, InputPages, InputCount, OriginalPages
  <2> QED
    BY <2>2, <2>3, <2>4, <2>5 DEF PdfInv
<1> QED
  BY <1>1, <1>2, <1>3, <1>4, <1>5, <1>6, <1>7, <1>8, <1>9, <1>10, <1>11, <1>12, <1>13, <1>14
     DEF Next

\* What is held and made is always what the request and the tools left of it.
THEOREM PdfInvHolds == Spec => []PdfInv
BY PdfInit, PdfStep, PTL DEF Spec

\* The variables keep their types: no more inputs are held than the request
\* names, warnings are about inputs that went through OCR, and an outcome is
\* set exactly when the request is over.
THEOREM PdfTyped == Spec => []TypeOK
<1>1. PdfInv => TypeOK
  BY DEF PdfInv
<1> QED
  BY <1>1, PdfInvHolds, PTL

\* Admission, the run and the validation of the result agree: an admitted
\* request on documents within the limits, with tools that do their work, is
\* never refused by a later check.
THEOREM AdmittedWorkSucceeds == Spec => []HonestWorkSucceeds
<1>1. PdfInv => HonestWorkSucceeds
  BY DEF PdfInv
<1> QED
  BY <1>1, PdfInvHolds, PTL

\* A packet that succeeded names exactly the inputs with little text on average.
THEOREM ScansAreReported == Spec => []NoSilentScan
<1>1. PdfInv => NoSilentScan
  <2> SUFFICES ASSUME PdfInv, IsPacket, outcome \in Success
               PROVE  LET unread == {i \in 1 .. InputCount : files[i].text = "little"}
                      IN  report.warned = unread /\ (outcome = "succeeded") = (unread = {})
    BY DEF NoSilentScan
  <2>1. /\ Begun /\ Ended /\ TypeOK
        /\ TextSeen /\ MadeFits /\ outcome = SuccessOutcome(report.warned)
    BY DEF Begun, Ended, PdfInv, Validated
  <2>2. report.warned = {i \in ocred : files[i].text = "little"}
    BY <2>1 DEF MadeFits, PacketReport, LowTextAfterOcr
  <2>3. ocred \subseteq 1 .. InputCount /\ \A i \in 1 .. InputCount : files[i].text # "little" \/ i \in ocred
    BY <2>1 DEF TypeOK, TextSeen, MadeFits
  <2>4. report.warned = {i \in 1 .. InputCount : files[i].text = "little"}
    BY <2>2, <2>3
  <2>5. (outcome = "succeeded") = (report.warned = {})
    BY <2>1 DEF SuccessOutcome
  <2> QED
    BY <2>4, <2>5
<1> QED
  BY <1>1, PdfInvHolds, PTL

-----------------------------------------------------------------------------
(* The pages of a successful result.                                       *)

LEMMA SuccessFacts ==
  ASSUME PdfInv, outcome \in Success
  PROVE  /\ Begun /\ Ended /\ TypeOK /\ Admitted /\ FilesFit /\ stage = "over"
         /\ request \in Requests /\ RequestGood(request) /\ stored = StoredLabels(request)
         /\ report = PacketReport
         /\ Len(made) = IF request.operation = "split" THEN Len(request.ranges) ELSE 1
         /\ request.operation = "split" =>
              RangesSatisfiable(request.ranges, request.documents[1].pages)
         /\ DOMAIN made = 1 .. Len(made)
         /\ \A k \in 1 .. Len(made) :
              /\ made[k].pdf.pages \in Seq(Pages) /\ OutputFits(k)
              /\ request.operation # "extract_text" => OutputGood(k)
         /\ OperationGood
<1>1. /\ Begun /\ Ended /\ TypeOK /\ Admitted /\ FilesFit /\ MadeFits
      /\ stage = "over" /\ ValidationError = "none"
  BY DEF PdfInv, Validated, Begun, Ended
<1>2. /\ request \in Requests /\ RequestGood(request) /\ stored = StoredLabels(request)
      /\ request.operation \in Operations
  BY <1>1, RequestTypes DEF Admitted
<1>3. /\ report = PacketReport
      /\ Len(made) = IF request.operation = "split" THEN Len(request.ranges) ELSE 1
      /\ request.operation = "split" =>
           RangesSatisfiable(request.ranges, request.documents[1].pages)
      /\ \A k \in 1 .. Len(made) : OutputFits(k)
  BY <1>1 DEF MadeFits
<1>4. /\ request.operation = "extract_text" \/ \A k \in 1 .. Len(made) : OutputGood(k)
      /\ OperationGood
  <2>1. Len(made) = 1 \/ request.operation # "compress"
    BY <1>3
  <2> QED
    BY <1>1, <1>2, <2>1, ValidationResult DEF Yields, IsCode
<1>5. DOMAIN made = 1 .. Len(made) /\ made \in Seq([pdf : Pdf, claimed : Nat])
  BY <1>1, LenProperties DEF TypeOK
<1>6. \A k \in 1 .. Len(made) : made[k].pdf.pages \in Seq(Pages)
  <2>1. \A k \in 1 .. Len(made) : made[k] \in [pdf : Pdf, claimed : Nat]
    BY <1>5, ElementOfSeq
  <2> QED
    BY <2>1 DEF Pdf
<1> QED
  BY <1>1, <1>2, <1>3, <1>4, <1>5, <1>6

\* The output of a job that is no split has all pages of all inputs.
LEMMA SuccessPages ==
  ASSUME PdfInv, outcome \in Success, request.operation # "split"
  PROVE  Held = Originals /\ made[1].pdf.pages = MadeFrom(1)
<1>1. /\ Begun /\ TypeOK /\ Admitted /\ FilesFit /\ stage \notin {"submitted", "refused"}
      /\ made[1].pdf.pages \in Seq(Pages) /\ IsCut(made[1].pdf.pages, MadeFrom(1))
      /\ MadePages(1) = InputPages /\ request \in Requests
  BY SuccessFacts DEF OperationGood, OutputFits
<1>2. /\ MadeFrom(1) \in Seq(Pages) /\ Len(MadeFrom(1)) \in Nat /\ Len(MadeFrom(1)) <= InputPages
      /\ Len(MadeFrom(1)) = InputPages <=> Held = Originals
  BY <1>1, MadeFromPages
<1>3. InputPages \in Nat
  BY <1>1, InputPagesCount
<1>4. Len(made[1].pdf.pages) = Len(MadeFrom(1)) /\ Len(MadeFrom(1)) = InputPages
  BY <1>1, <1>2, <1>3 DEF IsCut, MadePages
<1> QED
  BY <1>1, <1>2, <1>4, CutIsWhole

\* A job that succeeded has lost no page, though its tools may have.
THEOREM SuccessKeepsEveryPage == Spec => []SuccessIsWhole
<1>1. PdfInv => SuccessIsWhole
  <2> DEFINE n == InputCount
             id == [i \in 1 .. n |-> i]
             sequence == IF IsPacket THEN report.sequence ELSE id
  <2> SUFFICES ASSUME PdfInv, outcome \in Success, request.operation # "split"
               PROVE  /\ Len(made) = 1 /\ made[1].pdf.pages = InputsInOrder(sequence)
                      /\ ToSet(sequence) = 1 .. n
                      /\ request.operation = "compress" => made[1].pdf.sized
    BY DEF SuccessIsWhole
  <2>1. /\ Begun /\ TypeOK /\ Admitted /\ FilesFit /\ stage \notin {"submitted", "refused"}
        /\ Len(made) = 1 /\ report = PacketReport /\ OperationGood /\ request \in Requests
        /\ RequestGood(request)
    BY SuccessFacts
  <2>2. Held = Originals /\ made[1].pdf.pages = MadeFrom(1)
    BY SuccessPages
  <2>3. sequence = PacketSequence
    <3>1. CASE IsPacket
      BY <2>1, <3>1 DEF PacketReport
    <3>2. CASE ~IsPacket
      BY <2>1, <3>2, PacketSequencePermutes
    <3> QED
      BY <3>1, <3>2
  <2>4. /\ n \in Nat /\ DOMAIN sequence = 1 .. n /\ Permutation(n, sequence)
    BY <2>1, <2>3, PacketSequencePermutes
  <2> HIDE DEF sequence, n
  <2>5. ToSet(sequence) = 1 .. n
    <3>1. ToSet(sequence) = {sequence[i] : i \in 1 .. n}
      BY <2>4 DEF ToSet
    <3> QED
      BY <2>4, <3>1 DEF Permutation
  <2>6. made[1].pdf.pages = InputsInOrder(sequence)
    <3>1. CASE request.operation \in MultiInput
      <4>1. MadeFrom(1) = Gathered(n, Originals, sequence)
        BY <2>2, <2>3, <3>1 DEF MadeFrom, MultiInput, n
      <4>2. \A k \in 1 .. n : Originals[sequence[k]] = OriginalPages(sequence[k])
        BY <2>4 DEF Permutation, Originals, n
      <4>3. [k \in 1 .. n |-> Originals[sequence[k]]]
              = [k \in DOMAIN sequence |-> OriginalPages(sequence[k])]
        BY <2>4, <4>2
      <4> QED
        BY <2>2, <4>1, <4>3, Zenon DEF Gathered, InputsInOrder
    <3>2. CASE request.operation \notin MultiInput
      <4>1. n = 1 /\ MadeFrom(1) = Held[1]
        BY <2>1, <3>2, MadeFromPages DEF n
      <4>2. MadeFrom(1) = OriginalPages(1) /\ OriginalPages(1) \in Seq(Pages)
        BY <2>1, <2>2, <4>1, OriginalsHold DEF n
      <4>3. \A k \in 1 .. 1 : sequence[k] = 1
        BY <2>4, <4>1 DEF Permutation
      <4> DEFINE o == OriginalPages(1)
      <4>4. [k \in DOMAIN sequence |-> OriginalPages(sequence[k])] = [k \in 1 .. 1 |-> o]
        BY <2>4, <4>1, <4>3
      <4>5. FlattenSeq([k \in 1 .. 1 |-> o]) = o
        <5>1. o \in Seq(Pages)
          BY <4>2
        <5> HIDE DEF o
        <5> QED
          BY <5>1, FlattenOne
      <4> QED
        BY <2>2, <4>2, <4>4, <4>5 DEF InputsInOrder
    <3> QED
      BY <3>1, <3>2
  <2> QED
    BY <2>1, <2>5, <2>6 DEF OperationGood
<1> QED
  BY <1>1, PdfInvHolds, PTL

\* A split that succeeded has the pages its ranges name, each as often as
\* there are parts that name it.
THEOREM SplitAsWritten == Spec => []RangesAsWritten
<1>1. PdfInv => RangesAsWritten
  <2> DEFINE n == request.documents[1].pages
             named(k, p) == {j \in DOMAIN request.ranges[k] :
                               request.ranges[k][j] # BlankPart /\ Names(request.ranges[k][j], p)}
             found(k, p) == {j \in DOMAIN made[k].pdf.pages : made[k].pdf.pages[j] = <<1, p>>}
  <2> SUFFICES ASSUME PdfInv, outcome \in Success, request.operation = "split"
               PROVE  /\ RangesSatisfiable(request.ranges, n)
                      /\ Len(made) = Len(request.ranges)
                      /\ \A k \in DOMAIN made :
                           /\ \A p \in 1 .. n : Cardinality(found(k, p)) = Cardinality(named(k, p))
                           /\ ToSet(made[k].pdf.pages) \subseteq {<<1, p>> : p \in 1 .. n}
    BY Zenon DEF RangesAsWritten
  <2>1. /\ RangesSatisfiable(request.ranges, n) /\ Len(made) = Len(request.ranges)
        /\ request \in Requests /\ DOMAIN made = 1 .. Len(made)
    BY SuccessFacts
  <2>2. ASSUME NEW k \in 1 .. Len(made)
        PROVE  /\ \A p \in 1 .. n : Cardinality(found(k, p)) = Cardinality(named(k, p))
               /\ ToSet(made[k].pdf.pages) \subseteq {<<1, p>> : p \in 1 .. n}
    <3> DEFINE pages == made[k].pdf.pages
               w == Wanted(k)
    <3>1. /\ w \in Seq(1 .. n) /\ Len(w) \in Nat \ {0}
          /\ MadeFrom(k) \in Seq(Pages) /\ Len(MadeFrom(k)) = Len(w)
          /\ \A j \in 1 .. Len(w) : MadeFrom(k)[j] = <<1, w[j]>>
      BY <2>1, SplitPages
    <3>2. \A p \in 1 .. n : Cardinality({a \in 1 .. Len(w) : w[a] = p}) = Cardinality(named(k, p))
      <4>1. k \in 1 .. Len(request.ranges)
        BY <2>1
      <4> QED
        BY <2>1, <4>1, SplitPages, Zenon
    <3>3. pages = MadeFrom(k)
      <4>1. /\ pages \in Seq(Pages) /\ IsCut(pages, MadeFrom(k))
            /\ made[k].claimed = Len(MadeFrom(k)) /\ Len(pages) = made[k].claimed
        BY SuccessFacts DEF OutputFits, OutputGood, MadePages
      <4> QED
        BY <3>1, <4>1, CutIsWhole
    <3> HIDE DEF pages, w, n
    <3>4. DOMAIN pages = 1 .. Len(w) /\ \A j \in 1 .. Len(w) : pages[j] = <<1, w[j]>>
      BY <3>1, <3>3, LenProperties
    <3>5. \A j \in 1 .. Len(w) : w[j] \in 1 .. n
      BY <3>1, ElementOfSeq
    <3>6. \A p \in 1 .. n : {j \in DOMAIN pages : pages[j] = <<1, p>>} = {a \in 1 .. Len(w) : w[a] = p}
      BY <3>4, <3>5
    <3>7. ToSet(pages) \subseteq {<<1, p>> : p \in 1 .. n}
      BY <3>4, <3>5 DEF ToSet
    <3> HIDE DEF named
    <3>8. \A p \in 1 .. n : Cardinality({j \in DOMAIN pages : pages[j] = <<1, p>>})
                              = Cardinality(named(k, p))
      BY <3>2, <3>6, Zenon
    <3> QED
      BY <3>7, <3>8, Zenon DEF pages
  <2> QED
    BY <2>1, <2>2, Zenon
<1> QED
  BY <1>1, PdfInvHolds, PTL

\* What precedes in the sorted packet belongs there.
LEMMA PrecedingBelongs ==
  ASSUME request \in Requests, RequestGood(request), IsPacket,
         NEW i \in 1 .. InputCount, NEW j \in 1 .. InputCount,
         request.order = "manifest" => Precedes(Ranks, i, j),
         request.order = "filename" => Precedes(FileNames, i, j),
         request.order \notin {"manifest", "filename"} => i < j
  PROVE  BelongsBefore(i, j)
<1>1. request.order \in PacketOrders /\ request.manifest \in Seq(AnySection)
  <2>1. OptionError(request) = "none" /\ request.operation = "prepare_packet"
    BY DEF RequestGood, IsPacket
  <2>2. PacketOptionError(request) = "none"
    BY <2>1, OptionResult
  <2> QED
    BY <2>2, PacketOptionResult, RequestTypes DEF Yields, IsCode
<1>2. CASE request.order = "manifest"
  <2> DEFINE m == request.manifest
             la == request.labels[i]
             lb == request.labels[j]
             ra == Rank(la, m)
             rb == Rank(lb, m)
  <2>1. Ranks[i] = ra /\ Ranks[j] = rb
    BY DEF Ranks
  <2>2. ra < rb \/ (ra = rb /\ i < j)
    BY <1>2, <2>1 DEF Precedes
  <2>3. DOMAIN m = 1 .. Len(m) /\ Len(m) \in Nat
    BY <1>1, LenProperties
  <2>4. /\ ra \in 1 .. Len(m) + 1 /\ rb \in 1 .. Len(m) + 1
        /\ la \in Listed(m) => ra \in SectionsOf(la) /\ ra <= Len(m)
        /\ lb \in Listed(m) => rb \in SectionsOf(lb) /\ rb <= Len(m)
        /\ la \notin Listed(m) => ra = Len(m) + 1 /\ SectionsOf(la) = {}
        /\ lb \notin Listed(m) => rb = Len(m) + 1 /\ SectionsOf(lb) = {}
    <3> SUFFICES ASSUME NEW label
                 PROVE  /\ Rank(label, m) \in 1 .. Len(m) + 1
                        /\ label \in Listed(m) =>
                             Rank(label, m) \in SectionsOf(label) /\ Rank(label, m) <= Len(m)
                        /\ label \notin Listed(m) =>
                             Rank(label, m) = Len(m) + 1 /\ SectionsOf(label) = {}
      BY Zenon
    <3>1. /\ Rank(label, m) \in 1 .. Len(m) + 1
          /\ label \in Listed(m) =>
               Rank(label, m) \in 1 .. Len(m) /\ m[Rank(label, m)].label = label
          /\ label \notin Listed(m) => Rank(label, m) = Len(m) + 1
      BY <1>1, RankType
    <3>2. label \in Listed(m) =>
            Rank(label, m) \in SectionsOf(label) /\ Rank(label, m) <= Len(m)
      BY <2>3, <3>1 DEF SectionsOf
    <3>3. label \notin Listed(m) => SectionsOf(label) = {}
      BY DEF SectionsOf, Listed
    <3> QED
      BY <3>1, <3>2, <3>3
  <2>5. \/ SectionsOf(la) = SectionsOf(lb) /\ i < j
        \/ SectionsOf(la) # {} /\ SectionsOf(lb) = {}
        \/ \E s \in SectionsOf(la), t \in SectionsOf(lb) : s < t
    <3>1. CASE ra < rb
      <4>1. la \in Listed(m)
        BY <2>3, <2>4, <3>1
      <4> HIDE DEF ra, rb, la, lb, m
      <4> QED
        BY <2>4, <3>1, <4>1
    <3>2. CASE ra = rb /\ i < j
      <4>1. la \in Listed(m) <=> lb \in Listed(m)
        BY <2>3, <2>4, <3>2
      <4>2. la \in Listed(m) => la = lb
        BY <2>4, <3>2, <4>1 DEF SectionsOf
      <4> HIDE DEF ra, rb, la, lb, m
      <4> QED
        BY <2>4, <3>2, <4>1, <4>2
    <3> QED
      BY <2>2, <3>1, <3>2
  <2> QED
    BY <1>2, <2>5, Zenon DEF BelongsBefore
<1>3. CASE request.order = "filename"
  BY <1>3 DEF BelongsBefore, Precedes, FileNames
<1>4. CASE request.order = "as_provided"
  BY <1>4 DEF BelongsBefore
<1> QED
  BY <1>1, <1>2, <1>3, <1>4 DEF PacketOrders

\* A packet that succeeded is in the order that was asked for, and has of every
\* section as many inputs as it allows.
THEOREM PacketAsOrdered == Spec => []PacketInOrder
<1>1. PdfInv => PacketInOrder
  <2> DEFINE n == InputCount
             s == PacketSequence
             F == made[1].pdf.pages
  <2> SUFFICES ASSUME PdfInv, IsPacket, outcome \in Success
               PROVE  /\ \A a, b \in DOMAIN F :
                           (a < b /\ F[a][1] # F[b][1]) => BelongsBefore(F[a][1], F[b][1])
                      /\ request.order = "manifest" =>
                           \A t \in DOMAIN request.manifest :
                             LET inputs == {i \in {F[a][1] : a \in DOMAIN F} :
                                              request.labels[i] = request.manifest[t].label}
                             IN  /\ Cardinality(inputs) >= request.manifest[t].min
                                 /\ request.manifest[t].max # Null =>
                                      Cardinality(inputs) <= request.manifest[t].max
    BY Zenon DEF PacketInOrder
  <2>1. /\ Begun /\ TypeOK /\ Admitted /\ FilesFit /\ stage \notin {"submitted", "refused"}
        /\ request \in Requests /\ RequestGood(request)
        /\ request.operation \in MultiInput /\ request.operation # "split"
    BY SuccessFacts DEF IsPacket, MultiInput
  <2>2. /\ Holds(n, Originals) /\ n \in Nat
        /\ \A i \in 1 .. n : Len(Originals[i]) \in Nat \ {0}
    BY <2>1, OriginalsHold
  <2>3. Permutation(n, s)
    BY <2>1, PacketSequencePermutes
  <2>4. F = Gathered(n, Originals, s)
    BY <2>1, SuccessPages DEF MadeFrom
  <2>5. /\ request.order = "manifest" =>
             \A j, k \in 1 .. n : j < k => Precedes(Ranks, s[j], s[k])
        /\ request.order = "filename" =>
             \A j, k \in 1 .. n : j < k => Precedes(FileNames, s[j], s[k])
        /\ request.order \notin {"manifest", "filename"} => s = [i \in 1 .. n |-> i]
    BY <2>1, PacketSequencePermutes
  <2>6. F \in Seq(Pages) /\ \E at : Gathers(n, Originals, s, at, F)
    BY <2>2, <2>3, <2>4, GatheredPages DEF Permutation
  <2>7. PICK at : Gathers(n, Originals, s, at, F)
    BY <2>6
  <2>8. \A j, k \in 1 .. n : j < k => BelongsBefore(s[j], s[k])
    <3> SUFFICES ASSUME NEW j \in 1 .. n, NEW k \in 1 .. n, j < k PROVE BelongsBefore(s[j], s[k])
      OBVIOUS
    <3>1. s[j] \in 1 .. n /\ s[k] \in 1 .. n
      BY <2>3 DEF Permutation
    <3>2. request.order \notin {"manifest", "filename"} => s[j] < s[k]
      BY <2>5
    <3> HIDE DEF s
    <3> QED
      BY <2>1, <2>5, <3>1, <3>2, PrecedingBelongs
  <2> HIDE DEF n, s, F
  <2>9. /\ DOMAIN F = 1 .. Len(F) /\ Len(F) \in Nat
        /\ \A k \in 1 .. n : \A p \in 1 .. Len(Originals[s[k]]) :
             at[k][p] \in 1 .. Len(F) /\ F[at[k][p]] = <<s[k], p>>
        /\ \A a \in 1 .. Len(F) :
             \E k \in 1 .. n : \E p \in 1 .. Len(Originals[s[k]]) : a = at[k][p]
        /\ \A j, k \in 1 .. n : \A p \in 1 .. Len(Originals[s[j]]) :
             \A q \in 1 .. Len(Originals[s[k]]) : j < k => at[j][p] < at[k][q]
    BY <2>6, <2>7, LenProperties DEF Gathers
  <2>10. ASSUME NEW a \in DOMAIN F, NEW b \in DOMAIN F, a < b, F[a][1] # F[b][1]
         PROVE  BelongsBefore(F[a][1], F[b][1])
    <3>1. PICK j \in 1 .. n : \E p \in 1 .. Len(Originals[s[j]]) : a = at[j][p]
      BY <2>9
    <3>2. PICK p \in 1 .. Len(Originals[s[j]]) : a = at[j][p]
      BY <3>1
    <3>3. PICK k \in 1 .. n : \E q \in 1 .. Len(Originals[s[k]]) : b = at[k][q]
      BY <2>9
    <3>4. PICK q \in 1 .. Len(Originals[s[k]]) : b = at[k][q]
      BY <3>3
    <3>5. F[a][1] = s[j] /\ F[b][1] = s[k]
      <4>1. F[a] = <<s[j], p>> /\ F[b] = <<s[k], q>>
        BY <2>9, <3>2, <3>4
      <4> QED
        BY <4>1
    <3>6. j # k
      BY <2>10, <3>5
    <3>7. ~(k < j)
      <4>1. k < j => b < a
        BY <2>9, <3>2, <3>4
      <4> QED
        BY <2>9, <2>10, <4>1
    <3>8. j < k
      BY <2>2, <3>6, <3>7
    <3> QED
      BY <2>8, <3>5, <3>8
  <2>11. {F[a][1] : a \in DOMAIN F} = 1 .. n
    <3>1. ASSUME NEW a \in DOMAIN F PROVE F[a][1] \in 1 .. n
      <4>1. PICK j \in 1 .. n : \E p \in 1 .. Len(Originals[s[j]]) : a = at[j][p]
        BY <2>9
      <4>2. PICK p \in 1 .. Len(Originals[s[j]]) : a = at[j][p]
        BY <4>1
      <4>3. F[a] = <<s[j], p>>
        BY <2>9, <4>2
      <4> QED
        BY <2>3, <4>3 DEF Permutation
    <3>2. ASSUME NEW i \in 1 .. n PROVE \E a \in DOMAIN F : F[a][1] = i
      <4>1. PICK k \in 1 .. n : s[k] = i
        BY <2>3 DEF Permutation
      <4>2. 1 \in 1 .. Len(Originals[s[k]])
        BY <2>2, <4>1
      <4>3. at[k][1] \in DOMAIN F /\ F[at[k][1]] = <<i, 1>>
        BY <2>9, <4>1, <4>2
      <4> QED
        BY <4>3
    <3> QED
      BY <3>1, <3>2
  <2>12. ASSUME request.order = "manifest", NEW t \in DOMAIN request.manifest
         PROVE  LET inputs == {i \in 1 .. n : request.labels[i] = request.manifest[t].label}
                IN  /\ Cardinality(inputs) >= request.manifest[t].min
                    /\ request.manifest[t].max # Null =>
                         Cardinality(inputs) <= request.manifest[t].max
    <3>1. ManifestOf(request)
      <4>1. OptionError(request) = "none" /\ request.operation = "prepare_packet"
        BY <2>1 DEF RequestGood, IsPacket
      <4>2. PacketOptionError(request) = "none"
        BY <2>1, <4>1, OptionResult
      <4> QED
        BY <2>1, <2>12, <4>2, PacketOptionResult DEF Yields, IsCode
    <3>2. Satisfied(request.manifest[t], request.labels)
      BY <3>1 DEF ManifestOf, ManifestGood
    <3>3. DOMAIN request.labels = 1 .. n
      BY <2>1, RequestTypes, LenProperties DEF n, InputCount
    <3> QED
      BY <3>2, <3>3 DEF Satisfied, Count
  <2> QED
    BY <2>10, <2>11, <2>12, Zenon
<1> QED
  BY <1>1, PdfInvHolds, PTL
=============================================================================
