--------------------------- MODULE PacketManifest ---------------------------
(***************************************************************************)
(* The manifest of a packet (operations/packet_manifest.py): which labels  *)
(* the inputs carry, how many of each a packet may have, and the order in  *)
(* which the sections put the inputs.                                      *)
(***************************************************************************)
EXTENDS Integers, Sequences, FiniteSets, PageRanges

CONSTANTS
  Labels,        \* texts PACKET_LABEL_PATTERN accepts
  NoLabel,       \* a null label
  MaxSections    \* MAX_PACKET_SECTIONS

ASSUME ManifestAssumption == NoLabel \notin Labels /\ MaxSections \in Nat

Null     == -1   \* a max_count that is null or absent
BadCount == -2   \* a count that is negative, no integer or a boolean

\* A section as the client wrote it; wellFormed is FALSE for one that is no
\* object or has a field that is not known, and a label outside Labels stands
\* for every text the pattern refuses.
Section(label, min, max) ==
  [wellFormed |-> TRUE, label |-> label, min |-> min, max |-> max]
AnySection ==
  [wellFormed : BOOLEAN, label : Labels \cup {NoLabel},
   min : Nat \cup {BadCount}, max : Nat \cup {Null, BadCount}]

SectionError(manifest, i) ==
  LET s == manifest[i]
  IN  FirstError(<<
        <<s.wellFormed, "INVALID_PACKET_MANIFEST">>,
        <<s.label \in Labels, "INVALID_PACKET_LABEL">>,
        <<\A j \in 1 .. i - 1 : manifest[j].label # s.label, "INVALID_PACKET_MANIFEST">>,
        <<s.min # BadCount, "INVALID_PACKET_MANIFEST">>,
        <<s.max # BadCount, "INVALID_PACKET_MANIFEST">>,
        <<s.max # Null => s.min <= s.max, "INVALID_PACKET_MANIFEST">> >>)

Count(labels, label) == Cardinality({p \in DOMAIN labels : labels[p] = label})

Satisfied(section, labels) ==
  /\ section.min <= Count(labels, section.label)
  /\ section.max # Null => Count(labels, section.label) <= section.max

Listed(manifest) == {manifest[i].label : i \in DOMAIN manifest}

\* parse_packet_manifest: the first of its checks that fails.
ManifestError(inputCount, labels, manifest, allowUnlisted) ==
  FirstError(
    << <<Len(labels) = inputCount, "INVALID_PACKET_LABELS">>,
       <<\A p \in DOMAIN labels : labels[p] \in Labels, "INVALID_PACKET_LABEL">>,
       <<Len(manifest) \in 1 .. MaxSections, "INVALID_PACKET_MANIFEST">> >>
    \o [i \in DOMAIN manifest |->
          <<SectionError(manifest, i) = "none", SectionError(manifest, i)>>]
    \o << <<allowUnlisted \/ \A p \in DOMAIN labels : labels[p] \in Listed(manifest),
            "PACKET_LABEL_NOT_IN_MANIFEST">>,
          <<\A i \in DOMAIN manifest : Satisfied(manifest[i], labels),
            "PACKET_MANIFEST_COUNT_MISMATCH">> >>)

\* Mutant: a label no section has comes first.
Rank_UnlistedFirst(label, manifest) ==
  IF label \in Listed(manifest)
  THEN CHOOSE i \in DOMAIN manifest : manifest[i].label = label
  ELSE 0

\* The rank of a label is the place of its section; a label no section has
\* comes after all of them.
Rank(label, manifest) ==
  IF label \in Listed(manifest)
  THEN CHOOSE i \in DOMAIN manifest : manifest[i].label = label
  ELSE Len(manifest) + 1

\* sorted() of 1 .. n by a key and then by the position itself: place k is
\* taken by the position that k - 1 others come before.
SortedBy(key) ==
  LET before(p, q) == key[p] < key[q] \/ (key[p] = key[q] /\ p < q)
  IN  [k \in DOMAIN key |->
         CHOOSE p \in DOMAIN key :
           Cardinality({q \in DOMAIN key : before(q, p)}) = k - 1]

OrderedPositions(labels, manifest) ==
  SortedBy([p \in DOMAIN labels |-> Rank(labels[p], manifest)])

\* PacketManifest.validation: what is recorded of every section.
ManifestValidation(manifest, labels) ==
  [i \in DOMAIN manifest |->
     [label |-> manifest[i].label, satisfied |-> Satisfied(manifest[i], labels)]]
=============================================================================
