--------------------------- MODULE PdfOperations ----------------------------
(***************************************************************************)
(* What becomes of one job's request: its validation when the job is       *)
(* created (_validate_job_request in services/jobs.py), the inspection of  *)
(* its inputs, the operation itself (app/operations) and the validation of *)
(* the result (services/validation.py), as process_job in worker/runner.py *)
(* calls them.                                                             *)
(*                                                                         *)
(* A page is <<i, p>>, page p of input i, and a PDF is a sequence of pages *)
(* with what the checks can tell of it.  The tools (OCRmyPDF, pikepdf,     *)
(* Ghostscript, qpdf, PyMuPDF) may be missing, time out, fail, or report   *)
(* success and leave a damaged file.                                       *)
(***************************************************************************)
EXTENDS PacketManifest

CONSTANTS
  Requests,   \* the requests to look at, with the documents they name
  MaxPages,   \* settings.max_pages
  Faults      \* how tools may fail, a subset of AllFaults

AllFaults ==
  { "toolError",   \* a tool is missing, times out or reports a failure
    "short",       \* a tool that reported success lost a page
    "broken",      \* ... left a file that cannot be opened
    "resized",     \* ... changed the dimensions of a page
    "unread" }     \* OCR found no text on some pages, or next to none at all

MultiInput == {"merge", "prepare_packet"}
Operations == MultiInput \cup {"split", "ocr", "compress", "extract_text"}
PacketOrders == {"as_provided", "filename", "manifest"}
Presets == {"screen", "ebook", "print"}

AllowedParameters ==
  [ merge          |-> {"ocr_if_needed", "language", "deskew"},
    prepare_packet |-> {"language", "deskew", "order", "manifest", "allow_unlisted"},
    split          |-> {"page_ranges"},
    ocr            |-> {"language", "deskew"},
    compress       |-> {"preset"},
    extract_text   |-> {"include_coordinates"} ]

ParameterNames == (UNION {AllowedParameters[op] : op \in Operations}) \cup {"unknown"}

\* How much text a PDF has: on every page; enough on average, though some pages
\* are pictures; or little, on average less than is_likely_scanned asks for.
TextKinds == {"every", "some", "little"}

\* A stored document: its pages, whether it is a PDF (a job's JSON output may
\* be named as an input), its text, and the place of its lower-case name among
\* all names.
Document == [pages : Nat \ {0}, pdf : BOOLEAN, text : TextKinds, name : Nat]

\* "given" are the parameters the request has, "bad" those of a wrong type; a
\* parameter that is not given has its default here.  Languages: "eng", "+"
\* for one of separators only, "?" for one with other characters or none.
ASSUME RequestsAssumption ==
  /\ MaxPages \in Nat
  /\ Faults \subseteq AllFaults
  /\ \A r \in Requests :
       /\ r.operation \in Operations
       /\ r.documents \in Seq(Document) /\ r.documents # <<>>
       /\ r.labels \in Seq(Labels \cup {NoLabel})
       /\ Len(r.labels) = Len(r.documents)
       /\ r.bad \subseteq r.given /\ r.given \subseteq ParameterNames
       /\ r.language \in {"eng", "+", "?"}
       /\ {r.ocrIfNeeded, r.allowUnlisted} \subseteq BOOLEAN
       /\ r.allowUnlisted => "allow_unlisted" \in r.given
       /\ r.manifest \in Seq(AnySection) /\ r.ranges \in Seq(Seq(Part))

VARIABLES
  request,   \* the request, as created
  stored,    \* parameters["input_labels"] of the job; <<>> when absent
  stage,     \* how far the request has come
  files,     \* files[i] is the PDF the run holds for input i
  ocred,     \* the inputs OCR has been applied to
  looked,    \* how many inputs the OCR loop is past
  made,      \* the outputs, with the page count the operation claims
  report,    \* the audit report of a packet, and the result's metadata
  honest,    \* history: no tool has failed or lied
  outcome    \* "none", an error code, or a status of success

vars == <<request, stored, stage, files, ocred, looked, made, report, honest, outcome>>

Success == {"succeeded", "completed_with_warnings"}
NoReport == [sequence |-> <<>>, sections |-> <<>>, warned |-> {}]
InputCount == Len(request.documents)
IsPacket == request.operation = "prepare_packet"

(***************************************************************************)
(* Creation: _validate_job_request.                                        *)
(***************************************************************************)
LanguageError(r) == <<r.language # "?", "INVALID_OCR_LANGUAGE">>
TypeError(r, name) == <<name \notin r.bad, "INVALID_PARAMETERS">>

PacketOptionError(r) ==
  FirstError(<<
    TypeError(r, "deskew"),
    LanguageError(r),
    <<r.order \in PacketOrders, "INVALID_PACKET_ORDER">>,
    <<r.order = "manifest" => "allow_unlisted" \notin r.bad, "INVALID_PACKET_MANIFEST">>,
    <<r.order = "manifest" =>
        ManifestError(Len(r.documents), r.labels, r.manifest, r.allowUnlisted) = "none",
      ManifestError(Len(r.documents), r.labels, r.manifest, r.allowUnlisted)>>,
    <<r.order = "manifest" \/ /\ \A p \in DOMAIN r.labels : r.labels[p] = NoLabel
                              /\ r.given \cap {"manifest", "allow_unlisted"} = {},
      "PACKET_MANIFEST_NOT_ENABLED">> >>)

OptionError(r) ==
  CASE r.operation = "merge" ->
         FirstError(<<TypeError(r, "ocr_if_needed"), TypeError(r, "deskew"), LanguageError(r)>>)
    [] r.operation = "prepare_packet" -> PacketOptionError(r)
    [] r.operation = "split" ->
         FirstError(<< <<"page_ranges" \in r.given \ r.bad, "INVALID_PARAMETERS">> >>)
    [] r.operation = "ocr" -> FirstError(<<TypeError(r, "deskew"), LanguageError(r)>>)
    [] r.operation = "compress" ->
         FirstError(<< <<r.preset \in Presets, "INVALID_COMPRESSION_PRESET">> >>)
    [] r.operation = "extract_text" -> FirstError(<<TypeError(r, "include_coordinates")>>)

RequestError(r) ==
  FirstError(<<
    <<r.operation \in MultiInput => Len(r.documents) >= 2, "NOT_ENOUGH_INPUTS">>,
    <<r.operation \in MultiInput \/ Len(r.documents) = 1, "INVALID_INPUT_COUNT">>,
    <<r.given \subseteq AllowedParameters[r.operation], "INVALID_PARAMETERS">>,
    <<r.operation = "prepare_packet" \/ \A p \in DOMAIN r.labels : r.labels[p] = NoLabel,
      "INPUT_LABEL_NOT_SUPPORTED">>,
    <<OptionError(r) = "none", OptionError(r)>> >>)

\* Mutant: labels are stored with every packet.
StoredLabels_Always(r) == IF r.operation = "prepare_packet" THEN r.labels ELSE <<>>

\* create_job adds the labels to the parameters of a job that needs them.
StoredLabels(r) ==
  IF r.operation = "prepare_packet" /\ r.order = "manifest" THEN r.labels ELSE <<>>

(***************************************************************************)
(* PDFs and tools.                                                         *)
(***************************************************************************)
Whole(pages, text) == [pages |-> pages, text |-> text, openable |-> TRUE, sized |-> TRUE]
OriginalPages(i) == [p \in 1 .. request.documents[i].pages |-> <<i, p>>]

\* The files a tool may leave that was to write these pages.
Damaged(pdf) ==
  {[pdf EXCEPT !.pages = RemoveAt(pdf.pages, p)] :
     p \in {q \in 1 .. Len(pdf.pages) : "short" \in Faults}}
  \cup {[pdf EXCEPT !.openable = FALSE] : f \in Faults \cap {"broken"}}
  \cup {[pdf EXCEPT !.sized = FALSE] : f \in Faults \cap {"resized"}}
Products(pdf) == {pdf} \cup Damaged(pdf)

Claiming(pdf, count) == [pdf |-> pdf, claimed |-> count]

Fail(code) == outcome' = code /\ stage' = "over"
Keep(code) == outcome' = outcome /\ stage' = code

(***************************************************************************)
(* The run.                                                                *)
(***************************************************************************)
Init ==
  /\ request \in Requests
  /\ stored = <<>> /\ stage = "submitted"
  /\ files = <<>> /\ ocred = {} /\ looked = 0 /\ made = <<>>
  /\ report = NoReport /\ honest = TRUE /\ outcome = "none"

Refuse ==
  /\ stage = "submitted" /\ RequestError(request) # "none"
  /\ outcome' = RequestError(request) /\ stage' = "refused"
  /\ UNCHANGED <<request, stored, files, ocred, looked, made, report, honest>>

Admit ==
  /\ stage = "submitted" /\ RequestError(request) = "none"
  /\ stored' = StoredLabels(request)
  /\ Keep("inspect")
  /\ UNCHANGED <<request, files, ocred, looked, made, report, honest>>

\* validate_input_pdf.  An upload was checked before it was stored, an output
\* of another job was not checked against the page limit.
InputError(document) ==
  FirstError(<< <<document.pdf, "UNSUPPORTED_FILE_TYPE">>,
                <<document.pages <= MaxPages, "PAGE_LIMIT_EXCEEDED">> >>)

InspectInput ==
  /\ stage = "inspect" /\ Len(files) < InputCount
  /\ LET i == Len(files) + 1
         document == request.documents[i]
     IN  IF InputError(document) # "none"
         THEN Fail(InputError(document)) /\ UNCHANGED files
         ELSE /\ files' = Append(files, Whole(OriginalPages(i), document.text))
              /\ Keep(stage)
  /\ UNCHANGED <<request, stored, ocred, looked, made, report, honest>>

\* What execute_operation and the operation check again before they begin.
RunError(r, labels) ==
  CASE r.operation = "prepare_packet" ->
         FirstError(<<
           <<Len(r.documents) >= 2, "NOT_ENOUGH_INPUTS">>,
           <<r.order \in PacketOrders, "INVALID_PACKET_ORDER">>,
           <<r.order = "manifest" =>
               ManifestError(Len(r.documents), labels, r.manifest, r.allowUnlisted) = "none",
             ManifestError(Len(r.documents), labels, r.manifest, r.allowUnlisted)>>,
           <<r.order = "manifest" \/ /\ labels = <<>> /\ "manifest" \notin r.given
                                     /\ ~r.allowUnlisted,
             "PACKET_MANIFEST_NOT_ENABLED">> >>)
    [] r.operation = "split" ->
         FirstError(<< <<Len(r.documents) = 1, "INVALID_INPUT_COUNT">>,
                       <<"page_ranges" \in r.given \ r.bad, "INVALID_PARAMETERS">> >>)
    [] r.operation = "compress" ->
         FirstError(<< <<Len(r.documents) = 1, "INVALID_INPUT_COUNT">>,
                       <<r.preset \in Presets, "INVALID_COMPRESSION_PRESET">> >>)
    [] r.operation = "merge" ->
         FirstError(<< <<Len(r.documents) >= 2, "NOT_ENOUGH_INPUTS">> >>)
    [] OTHER -> FirstError(<< <<Len(r.documents) = 1, "INVALID_INPUT_COUNT">> >>)

StartOperation ==
  /\ stage = "inspect" /\ Len(files) = InputCount
  /\ IF RunError(request, stored) # "none" THEN Fail(RunError(request, stored)) ELSE Keep("ocr")
  /\ UNCHANGED <<request, stored, files, ocred, looked, made, report, honest>>

\* Which inputs go through OCR: the one of an "ocr" job, and the inputs of a
\* packet, or of a merge that asks for it, that have little text on average
\* (is_likely_scanned).
NeedsOcr(i) ==
  \/ request.operation = "ocr"
  \/ (IsPacket \/ (request.operation = "merge" /\ request.ocrIfNeeded)) /\ files[i].text = "little"

OcrInput ==
  /\ stage = "ocr" /\ looked < InputCount /\ NeedsOcr(looked + 1)
  /\ LET i == looked + 1
         promised == Whole(files[i].pages, "every")
         unread == {[promised EXCEPT !.text = kind] :
                      kind \in {k \in {"some", "little"} : "unread" \in Faults}}
     IN  IF request.language = "+"
         THEN Fail("INVALID_OCR_LANGUAGE") /\ UNCHANGED <<files, ocred, looked, honest>>
         ELSE \E pdf \in Products(promised) \cup unread :
                /\ files' = [files EXCEPT ![i] = pdf]
                /\ ocred' = ocred \cup {i}
                /\ honest' = (honest /\ pdf = promised)
                \* A packet looks for text in what OCR wrote.
                /\ IF IsPacket /\ ~pdf.openable
                   THEN Fail("PDF_OPEN_FAILED") /\ UNCHANGED looked
                   ELSE Keep(stage) /\ looked' = i
  /\ UNCHANGED <<request, stored, made, report>>

PassInput ==
  /\ stage = "ocr" /\ looked < InputCount /\ ~NeedsOcr(looked + 1)
  /\ looked' = looked + 1
  /\ UNCHANGED <<request, stored, stage, files, ocred, made, report, honest, outcome>>

\* The order in which the inputs go into a packet; a merge takes them as they are.
PacketSequence ==
  CASE IsPacket /\ request.order = "manifest" -> OrderedPositions(stored, request.manifest)
    [] IsPacket /\ request.order = "filename" ->
         SortedBy([i \in 1 .. InputCount |-> request.documents[i].name])
    [] OTHER -> [i \in 1 .. InputCount |-> i]

\* Mutant: the original is read again, not what OCR wrote.
LowTextAfterOcr_OfOriginal == {i \in ocred : request.documents[i].text = "little"}

\* prepare_packet's warnings: inputs that went through OCR and have little text still.
LowTextAfterOcr == {i \in ocred : files[i].text = "little"}

PacketReport ==
  IF ~IsPacket THEN NoReport
  ELSE [ sequence |-> PacketSequence,
         sections |-> IF request.order = "manifest"
                      THEN ManifestValidation(request.manifest, stored) ELSE <<>>,
         warned   |-> LowTextAfterOcr ]

\* An operation's result: its outputs, and whether its tool kept its promise.
Produce(outputs, promised) ==
  /\ made' = outputs
  /\ honest' = (honest /\ outputs = promised)
  /\ Keep("validate")

MergeInputs ==
  /\ stage = "ocr" /\ looked = InputCount /\ request.operation \in MultiInput
  /\ IF \E i \in DOMAIN files : ~files[i].openable
     THEN Fail("PDF_OPEN_FAILED") /\ UNCHANGED <<made, report, honest>>
     ELSE LET pages == FlattenSeq([k \in DOMAIN PacketSequence |->
                                     files[PacketSequence[k]].pages])
              promised == Whole(pages, "every")
          IN  /\ report' = PacketReport
              /\ \E pdf \in Products(promised) :
                   Produce(<<Claiming(pdf, Len(pages))>>, <<Claiming(promised, Len(pages))>>)
  /\ UNCHANGED <<request, stored, files, ocred, looked>>

SplitInput ==
  /\ stage = "ocr" /\ looked = InputCount /\ request.operation = "split"
  /\ LET count == Len(files[1].pages)
         error == PageRangesError(request.ranges, count)
     IN  IF error # "none"
         THEN Fail(error) /\ UNCHANGED <<made, honest>>
         ELSE LET wanted == SelectedPages(request.ranges, count)
                  part(k) == Whole([j \in DOMAIN wanted[k] |-> files[1].pages[wanted[k][j]]],
                                   "every")
                  parts == [k \in DOMAIN wanted |-> part(k)]
                  claiming(pdfs) == [k \in DOMAIN wanted |-> Claiming(pdfs[k], Len(wanted[k]))]
              IN  \E pdfs \in [DOMAIN wanted -> UNION {Products(parts[k]) : k \in DOMAIN wanted}] :
                    /\ \A k \in DOMAIN wanted : pdfs[k] \in Products(parts[k])
                    /\ Produce(claiming(pdfs), claiming(parts))
  /\ UNCHANGED <<request, stored, files, ocred, looked, report>>

\* compress_pdf claims the pages of its input, whatever Ghostscript wrote.
CompressInput ==
  /\ stage = "ocr" /\ looked = InputCount /\ request.operation = "compress"
  /\ LET count == Len(files[1].pages)
     IN  \E pdf \in Products(files[1]) :
           Produce(<<Claiming(pdf, count)>>, <<Claiming(files[1], count)>>)
  /\ UNCHANGED <<request, stored, files, ocred, looked, report>>

\* ocr_pdf claims the pages of its input too.
OfferOcr ==
  /\ stage = "ocr" /\ looked = InputCount /\ request.operation = "ocr"
  /\ made' = <<Claiming(files[1], request.documents[1].pages)>>
  /\ Keep("validate")
  /\ UNCHANGED <<request, stored, files, ocred, looked, report, honest>>

\* extract_text_pdf writes JSON, and claims the pages it has read.
ExtractText ==
  /\ stage = "ocr" /\ looked = InputCount /\ request.operation = "extract_text"
  /\ \E pdf \in {p \in Products(files[1]) : p.openable /\ p.sized} :
       Produce(<<Claiming(pdf, Len(pdf.pages))>>, <<Claiming(files[1], Len(files[1].pages))>>)
  /\ UNCHANGED <<request, stored, files, ocred, looked, report>>

\* What the tools of the step at hand may report.
OperationToolErrors ==
  [ merge          |-> {"DEPENDENCY_MISSING", "MERGE_FAILED"},
    prepare_packet |-> {"DEPENDENCY_MISSING", "MERGE_FAILED"},
    split          |-> {"DEPENDENCY_MISSING", "SPLIT_FAILED"},
    ocr            |-> {"DEPENDENCY_MISSING"},
    compress       |-> {"DEPENDENCY_MISSING", "COMPRESSION_TIMEOUT", "COMPRESSION_FAILED"},
    extract_text   |-> {"DEPENDENCY_MISSING", "TEXT_EXTRACTION_FAILED"} ]

ToolErrors ==
  CASE stage \in {"inspect", "validate"} ->
         {"DEPENDENCY_MISSING", "QPDF_TIMEOUT", "QPDF_CHECK_FAILED", "PDF_RENDER_FAILED",
          "PDF_OPEN_FAILED", "EMPTY_PDF"}
    [] stage = "ocr" /\ looked < InputCount ->
         {"DEPENDENCY_MISSING", "OCR_TIMEOUT", "OCR_FAILED", "TEXT_EXTRACTION_FAILED"}
    [] stage = "ocr" /\ looked = InputCount -> OperationToolErrors[request.operation]
    [] OTHER -> {}

ToolFails ==
  /\ "toolError" \in Faults
  /\ \E code \in ToolErrors : Fail(code)
  /\ honest' = FALSE
  /\ UNCHANGED <<request, stored, files, ocred, looked, made, report>>

(***************************************************************************)
(* validate_operation_result.                                              *)
(***************************************************************************)
\* Mutant: the expected pages are those left after OCR.
InputPages_AfterOcr == Len(FlattenSeq([i \in 1 .. InputCount |-> files[i].pages]))

InputPages == Len(FlattenSeq([i \in 1 .. InputCount |-> OriginalPages(i)]))
MadePages(k) == Len(made[k].pdf.pages)

\* The checks of an output that is a PDF: it opens, its first page renders,
\* and it has the pages the operation claims.
OutputError(k) ==
  FirstError(<< <<made[k].pdf.openable, "PDF_OPEN_FAILED">>,
                <<MadePages(k) > 0, "EMPTY_PDF">>,
                <<MadePages(k) = made[k].claimed, "PAGE_COUNT_MISMATCH">> >>)

IsPermutation(sequence) ==
  Len(sequence) = InputCount /\ ToSet(sequence) = 1 .. InputCount

PacketError ==
  FirstError(<<
    <<MadePages(1) = InputPages, "PACKET_PAGE_COUNT_MISMATCH">>,
    <<IsPermutation(report.sequence), "PACKET_SEQUENCE_VALIDATION_FAILED">>,
    <<request.order = "manifest" =>
        /\ report.sections # <<>>
        /\ \A i \in DOMAIN report.sections : report.sections[i].satisfied,
      "PACKET_MANIFEST_VALIDATION_FAILED">> >>)

OperationError ==
  CASE request.operation = "merge" ->
         FirstError(<< <<MadePages(1) = InputPages, "MERGE_PAGE_COUNT_MISMATCH">> >>)
    [] request.operation = "prepare_packet" -> PacketError
    [] request.operation = "ocr" ->
         FirstError(<< <<MadePages(1) = InputPages, "PAGE_COUNT_CHANGED">> >>)
    [] request.operation = "compress" ->
         FirstError(<< <<MadePages(1) = InputPages, "PAGE_COUNT_CHANGED">>,
                       <<made[1].pdf.sized, "DIMENSIONS_CHANGED">> >>)
    [] request.operation = "split" ->
         FirstError(<< <<\A k \in DOMAIN made : made[k].claimed = MadePages(k),
                         "SPLIT_PAGE_COUNT_MISMATCH">> >>)
    [] request.operation = "extract_text" ->
         FirstError(<< <<MadePages(1) = InputPages, "EXTRACT_TEXT_PAGE_COUNT_MISMATCH">> >>)

ValidationError ==
  FirstError((IF request.operation = "extract_text" THEN <<>>
              ELSE [k \in DOMAIN made |-> <<OutputError(k) = "none", OutputError(k)>>])
             \o << <<OperationError = "none", OperationError>> >>)

\* Mutant: a job that ran to its end is told so by no status.
SuccessOutcome_None(warned) == "none"

\* _terminal_success_outcome
SuccessOutcome(warned) == IF warned # {} THEN "completed_with_warnings" ELSE "succeeded"

ValidateResult ==
  /\ stage = "validate"
  /\ Fail(IF ValidationError # "none" THEN ValidationError ELSE SuccessOutcome(report.warned))
  /\ UNCHANGED <<request, stored, files, ocred, looked, made, report, honest>>

Next ==
  \/ Refuse \/ Admit \/ InspectInput \/ StartOperation \/ OcrInput \/ PassInput
  \/ MergeInputs \/ SplitInput \/ CompressInput \/ OfferOcr \/ ExtractText
  \/ ToolFails \/ ValidateResult

Spec == Init /\ [][Next]_vars

(***************************************************************************)
(* Properties.                                                             *)
(***************************************************************************)
\* The variables have their types; a refused request has left no trace.
Pages == (Nat \ {0}) \X (Nat \ {0})
Pdf == [pages : Seq(Pages), text : TextKinds, openable : BOOLEAN, sized : BOOLEAN]

TypeOK ==
  /\ stored \in Seq(Labels \cup {NoLabel})
  /\ stage \in {"submitted", "refused", "inspect", "ocr", "validate", "over"}
  /\ files \in Seq(Pdf) /\ Len(files) <= InputCount
  /\ looked \in 0 .. InputCount /\ ocred \subseteq 1 .. InputCount
  /\ made \in Seq([pdf : Pdf, claimed : Nat])
  /\ report.warned \subseteq ocred
  /\ honest \in BOOLEAN
  /\ (outcome = "none") = (stage \notin {"refused", "over"})

\* What a page range asks for, said without the parser: which parts name page
\* p of n, and which ranges can be satisfied.
Names(part, p) ==
  IF part.dash
  THEN (part.from = Blank \/ part.from <= p) /\ (part.to = Blank \/ p <= part.to)
  ELSE part.from = p

Satisfiable(part, n) ==
  /\ {part.from, part.to} \subseteq 1 .. n \cup {Blank}
  /\ \E p \in 1 .. n : Names(part, p)

RangesSatisfiable(ranges, n) ==
  /\ ranges # <<>>
  /\ \A k \in DOMAIN ranges :
       LET written == ToSet(ranges[k]) \ {BlankPart}
       IN  written # {} /\ \A part \in written : Satisfiable(part, n)

\* Every output of a successful split has exactly the pages its range names,
\* once for every part that names them (parse_page_ranges, split_pdf); and a
\* split whose ranges cannot be satisfied does not succeed.
RangesAsWritten ==
  (request.operation = "split" /\ outcome \in Success) =>
    LET n == request.documents[1].pages
    IN  /\ RangesSatisfiable(request.ranges, n)
        /\ Len(made) = Len(request.ranges)
        /\ \A k \in DOMAIN made :
             /\ \A p \in 1 .. n :
                  Cardinality({j \in DOMAIN made[k].pdf.pages : made[k].pdf.pages[j] = <<1, p>>})
                    = Cardinality({j \in DOMAIN request.ranges[k] :
                                     request.ranges[k][j] # BlankPart
                                       /\ Names(request.ranges[k][j], p)})
             /\ ToSet(made[k].pdf.pages) \subseteq {<<1, p>> : p \in 1 .. n}

\* Admission, the operation and the validation of its result agree: a request
\* that was admitted, on documents within the limits and with tools that do
\* their work, is never refused by a later check.  Page ranges need the page
\* count and are first read by the run; a language of separators only passes
\* _validate_ocr_language and is refused by ocr_pdf when an input needs OCR.
HonestWorkSucceeds ==
  ( /\ stage = "over" /\ honest
    /\ \A i \in 1 .. InputCount :
         request.documents[i].pdf /\ request.documents[i].pages <= MaxPages
    /\ request.language = "eng"
    /\ request.operation = "split" =>
         RangesSatisfiable(request.ranges, request.documents[1].pages) )
  => outcome \in Success

\* What the outputs of a successful job are made of when no page is lost.
InputsInOrder(sequence) == FlattenSeq([k \in DOMAIN sequence |-> OriginalPages(sequence[k])])

\* A job that succeeded has every page of every input in its output, in order,
\* though any of its tools may have lost pages or left a bad file and reported
\* success (validate_operation_result).
SuccessIsWhole ==
  (outcome \in Success /\ request.operation # "split") =>
    LET sequence == IF IsPacket THEN report.sequence ELSE [i \in 1 .. InputCount |-> i]
    IN  /\ Len(made) = 1 /\ made[1].pdf.pages = InputsInOrder(sequence)
        /\ ToSet(sequence) = 1 .. InputCount
        /\ request.operation = "compress" => made[1].pdf.sized

SectionsOf(label) == {i \in DOMAIN request.manifest : request.manifest[i].label = label}

BelongsBefore(i, j) ==
  CASE request.order = "manifest" ->
         LET a == SectionsOf(request.labels[i])
             b == SectionsOf(request.labels[j])
         IN  \/ a = b /\ i < j
             \/ a # {} /\ b = {}
             \/ \E s \in a, t \in b : s < t
    [] request.order = "filename" ->
         \/ request.documents[i].name < request.documents[j].name
         \/ request.documents[i].name = request.documents[j].name /\ i < j
    [] request.order = "as_provided" -> i < j

\* A packet in manifest order has the inputs of a section before those of a
\* later one and the unlisted ones last, inputs of one section in the order
\* given, and of every section as many as it allows; a packet in filename
\* order has them by name.  Said of the pages of the packet itself.
PacketInOrder ==
  (IsPacket /\ outcome \in Success) =>
    LET pages == made[1].pdf.pages
    IN  /\ \A a, b \in DOMAIN pages :
             (a < b /\ pages[a][1] # pages[b][1]) => BelongsBefore(pages[a][1], pages[b][1])
        /\ request.order = "manifest" =>
             \A s \in DOMAIN request.manifest :
               LET inputs == {i \in {pages[a][1] : a \in DOMAIN pages} :
                                request.labels[i] = request.manifest[s].label}
               IN  /\ Cardinality(inputs) >= request.manifest[s].min
                   /\ request.manifest[s].max # Null =>
                        Cardinality(inputs) <= request.manifest[s].max

\* The warnings of a packet name exactly the inputs that have little text on
\* average as they stand in it, whether OCR was applied to them or not and
\* whatever OCR made of them, and its status says whether there are any
\* (prepare_packet, _terminal_success_outcome).  Said of documents and not of
\* pages: a document of dense and of scanned pages passes for one with text,
\* since is_likely_scanned takes the average of its pages.
NoSilentScan ==
  (IsPacket /\ outcome \in Success) =>
    LET unread == {i \in 1 .. InputCount : files[i].text = "little"}
    IN  report.warned = unread /\ (outcome = "succeeded") = (unread = {})
=============================================================================
