------------------------------ MODULE Pipeline ------------------------------
(***************************************************************************)
(* application/pipeline.py: ExtractionPipeline.run over one document, from *)
(* its pages to the rows and the files of the run.                         *)
(*                                                                         *)
(* A stage that only computes is one action.  Block assembly takes a step  *)
(* for each guía page, the SUNAT fetch one for each wave of requests, the  *)
(* stamp reading one for each call of the vision model (or one for the     *)
(* batch), persisting one for each file operation.  A stage may raise; the *)
(* run then fails, its locals are gone, and a retry (routes.retry_run)     *)
(* deletes the cache and the sidecar, keeps SUNAT's PDFs, and starts over. *)
(*                                                                         *)
(* A page is a record of what the adapters answer about it:                *)
(*   body, title  the marks in its text and in its OCR title               *)
(*   dominant     it is one image                                          *)
(*   qr, url      what its compact QR and its URL QR decode to, or None;   *)
(*                both None when rendering or decoding fails               *)
(*   ocr          the lines of its printed table                           *)
(*   form         the Registro its Protocolo or detail parser returns      *)
(* The texts _derive_numero and _stage_extract_declared look for on a page *)
(* are taken as the marks the classifier finds in its body.  Progress,     *)
(* warnings, images and confidences are left out.                         *)
(***************************************************************************)
EXTENDS Reconciliation, PageClassifier, TLC

CONSTANTS
  Documents,        \* the PDFs: [pages, contents], the start pages of the sections
  Url,
  SectionIds,       \* the numbers is_section_id recognises
  SunatAnswers,     \* the official guías SUNAT may answer with
  Unreadable,       \* a PDF of SUNAT in which no guía is found
  Readings,         \* what vision may read in a stamp: [date, raw]
  Parsed,           \* MaterialKeyNormalizer.parse: key of a description, or None
  Inferred,         \* what the language model infers when it answers, or None
  Today,
  Concurrency,      \* size of the first wave of SUNAT requests
  MaxVisionCalls,
  MaxFailures       \* bound: runs that raise

\* VisionConfig.max_vision_calls is gt=0.
ASSUME CapAssumption == MaxVisionCalls \in Nat \ {0}

\* A compact QR names a guía SERIE-NUMERO, never as the page of one without a QR.
ASSUME NameAssumption ==
  \A d \in Documents : \A p, n \in DOMAIN d.pages : d.pages[p].qr # <<"ocr", n>>

\* Dates are numbers, and None is none of them.
ASSUME DeliveryAssumption ==
  None \notin Int /\ \A official \in SunatAnswers : official.fecha_entrega \in Nat \cup {None}

\* A stamp says a day and a month, those of the date where the model returns one.
ASSUME ReadingAssumption ==
  \A reading \in Readings :
    /\ reading.raw \in MonthDays \cup {None}
    /\ reading.date # None =>
         /\ reading.date \in Nat /\ IsDate(reading.date)
         /\ reading.raw = MonthDay(reading.date)

\* fetch_batch: the first wave is of max(1, concurrency).
ASSUME FetchAssumption == Concurrency \in Nat \ {0} /\ MaxFailures \in Nat

\* Runs are of this century.
ASSUME TodayAssumption == Today \in Nat /\ YearOf(Today) \in 2000 .. 2100

VARIABLES
  doc,          \* the PDF of the run
  stage,        \* the stage run() is in
  decoded,      \* decode_map
  kinds,        \* classifications
  declared,     \* the registros of the declared pages
  raws,         \* _RawGuia: the guía pages with their OCR lines
  seen,         \* the last page block assembly has looked at
  block,        \* current_block: no or one block
  blocks,       \* the finished blocks
  discarded,    \* pages without QR evidence
  pending,      \* URLs not asked yet
  wave_size,
  answers,      \* SUNAT's answer to each URL, or None
  sunat_map,    \* guia_id -> official guía
  guias,
  calls,        \* vision calls made
  rows,
  cache,        \* extraction_cache.json, or None
  sidecar,      \* review.json: its vision audit records, or None
  sunat_cache,  \* <run_dir>/sunat: the PDF kept for each URL, or None
  failures      \* runs that raised

assembly == <<raws, seen, block, blocks, discarded>>
sunat == <<pending, wave_size, answers, sunat_map>>
locals == <<decoded, kinds, declared, assembly, sunat, guias, calls, rows>>
files == <<cache, sidecar, sunat_cache>>
vars == <<doc, stage, locals, files, failures>>

Pages == doc.pages
NullReading == [date |-> None, raw |-> None]
Pdf == SunatAnswers \cup {Unreadable, None}
NoAnswers == [u \in Url |-> None]

\* The locals of a run that has just started.
Fresh ==
  /\ decoded = <<>> /\ kinds = <<>> /\ declared = <<>>
  /\ raws = <<>> /\ seen = 0 /\ block = <<>> /\ blocks = <<>> /\ discarded = <<>>
  /\ pending = {} /\ wave_size = Concurrency /\ answers = NoAnswers /\ sunat_map = <<>>
  /\ guias = <<>> /\ calls = 0 /\ rows = <<>>

\* A run that raised takes them with it.
Forget ==
  /\ decoded' = <<>> /\ kinds' = <<>> /\ declared' = <<>>
  /\ raws' = <<>> /\ seen' = 0 /\ block' = <<>> /\ blocks' = <<>> /\ discarded' = <<>>
  /\ pending' = {} /\ wave_size' = Concurrency /\ answers' = NoAnswers /\ sunat_map' = <<>>
  /\ guias' = <<>> /\ calls' = 0 /\ rows' = <<>>

Init ==
  /\ doc \in Documents
  /\ stage = "decode"
  /\ Fresh
  /\ cache = None /\ sidecar = None /\ sunat_cache = NoAnswers
  /\ failures = 0

-----------------------------------------------------------------------------
(* Which registro a page belongs to (container.build_page_to_registro_map): *)
(* that of the section the Contents page puts it in.                        *)

Section(page) ==
  {i \in DOMAIN doc.contents :
     /\ doc.contents[i] <= page
     /\ i + 1 \in DOMAIN doc.contents => page < doc.contents[i + 1]}

Readable(section, mark) ==
  {p \in DOMAIN Pages :
     section \in Section(p) /\ mark \in Pages[p].body /\ Pages[p].form # None}

\* Of the first Protocolo, else of the first detail page; never a section id.
DerivedNumero(section) ==
  LET protocolos == Readable(section, "protocolo")
      sources == IF protocolos # {} THEN protocolos ELSE Readable(section, "detail")
      numero == Pages[Min(sources)].form.numero
  IN IF sources = {} THEN None ELSE IF numero \in SectionIds THEN None ELSE numero

page_to_registro(page) ==
  IF Section(page) = {} THEN None
  ELSE DerivedNumero(CHOOSE i \in Section(page) : TRUE)

-----------------------------------------------------------------------------
(* Stages 1 to 5: pages. *)

Decode ==
  /\ stage = "decode"
  /\ decoded' = [p \in DOMAIN Pages |-> [identity |-> Pages[p].qr, hashqr_url |-> Pages[p].url]]
  /\ stage' = "classify"
  /\ UNCHANGED <<doc, kinds, declared, assembly, sunat, guias, calls, rows, files, failures>>

qr_is_guia(p) == decoded[p].identity # None

Classify ==
  /\ stage = "classify"
  /\ kinds' = [p \in DOMAIN Pages |->
                 classify(Pages[p].body, Pages[p].title, qr_is_guia(p), Pages[p].dominant)]
  /\ stage' = "declared"
  /\ UNCHANGED <<doc, decoded, declared, assembly, sunat, guias, calls, rows, files, failures>>

(* The elements of s that are in S, in their order: SelectSeq, as a function whose
   steps a proof can follow. *)
Selected(s, S) ==
  LET upto[n \in 0 .. Len(s)] ==
        IF n = 0 THEN <<>>
        ELSE IF s[n] \in S THEN Append(upto[n - 1], s[n]) ELSE upto[n - 1]
  IN  upto[Len(s)]

\* The declared pages whose text a parser understood.
DeclaredPages ==
  {p \in DOMAIN Pages : kinds[p] = "DECLARED" /\ Pages[p].body # {} /\ Pages[p].form # None}

\* by_numero: the last Protocolo of a numero wins, else its last detail page.
CanonicalForm(numero) ==
  LET ofNumero == {p \in DeclaredPages : Pages[p].form.numero = numero}
      protocolos == {p \in ofNumero : "protocolo" \in Pages[p].body}
  IN Pages[Max(IF protocolos # {} THEN protocolos ELSE ofNumero)].form

\* One Registro for each numero, in the order the numeros first occur.
ExtractDeclared ==
  LET first == {p \in DeclaredPages :
                  \A q \in DeclaredPages :
                    Pages[q].form.numero = Pages[p].form.numero => p <= q}
      order == Selected([p \in DOMAIN Pages |-> p], first)
  IN /\ stage = "declared"
     /\ declared' = [i \in DOMAIN order |-> CanonicalForm(Pages[order[i]].form.numero)]
     /\ stage' = "ocr"
     /\ UNCHANGED <<doc, decoded, kinds, assembly, sunat, guias, calls, rows, files, failures>>

Line(read, review) ==
  [raw |-> read.raw, unidad |-> read.unidad, cantidad |-> read.cantidad, review |-> review]

ExtractOcr ==
  /\ stage = "ocr"
  /\ raws' = [p \in {p \in DOMAIN Pages : kinds[p] = "GUIA"} |->
                [page |-> p,
                 registro |-> page_to_registro(p),
                 lines |-> [j \in DOMAIN Pages[p].ocr |-> Line(Pages[p].ocr[j], FALSE)]]]
  /\ stage' = "assemble"
  /\ UNCHANGED <<doc, decoded, kinds, declared, seen, block, blocks, discarded,
                 sunat, guias, calls, rows, files, failures>>

-----------------------------------------------------------------------------
(* Stage 5b: pages to blocks. *)

Identity(raw) == decoded[raw.page].identity
HashqrUrl(raw) == decoded[raw.page].hashqr_url

\* No compact QR, but material and the URL QR of a guía.
IsFallbackMaterial(raw) ==
  Identity(raw) = None /\ raw.lines # <<>> /\ HashqrUrl(raw) # None
HasEvidence(raw) == Identity(raw) # None \/ IsFallbackMaterial(raw)

\* Fault: the section a page is in is not looked at.
StartsBlockOfAnySection(raw) ==
  \A b \in Range(block) :
    \/ Identity(raw) # None /\ Identity(raw) # b.guia_id
    \/ IsFallbackMaterial(raw)

StartsBlock(raw) ==
  \A b \in Range(block) :
    \/ raw.registro # b.registro
    \/ Identity(raw) # None /\ Identity(raw) # b.guia_id
    \/ IsFallbackMaterial(raw)

NewBlock(raw) ==
  [guia_id |-> IF Identity(raw) # None THEN Identity(raw) ELSE <<"ocr", raw.page>>,
   identity_source |-> IF Identity(raw) # None THEN "qr" ELSE "ocr_fallback",
   registro |-> raw.registro,
   source_pages |-> <<raw.page>>,
   url |-> HashqrUrl(raw),
   lines |-> [j \in DOMAIN raw.lines |->
                Line(raw.lines[j], IsFallbackMaterial(raw))]]

Absorbed(raw) ==
  [block[1] EXCEPT !.source_pages = Append(@, raw.page),
                   !.lines = @ \o raw.lines,
                   !.url = IF @ = None THEN HashqrUrl(raw) ELSE @]

Finished == blocks \o block

AssemblePage ==
  LET page == seen + 1
      raw == raws[page]
  IN /\ stage = "assemble" /\ seen < Len(Pages)
     /\ seen' = page
     /\ \/ /\ page \notin DOMAIN raws
           /\ UNCHANGED <<block, blocks, discarded>>
        \/ /\ page \in DOMAIN raws /\ ~HasEvidence(raw)
           /\ discarded' = Append(discarded, raw)
           /\ UNCHANGED <<block, blocks>>
        \/ /\ page \in DOMAIN raws /\ HasEvidence(raw) /\ StartsBlock(raw)
           /\ blocks' = Finished
           /\ block' = <<NewBlock(raw)>>
           /\ UNCHANGED discarded
        \/ /\ page \in DOMAIN raws /\ HasEvidence(raw) /\ ~StartsBlock(raw)
           /\ block' = <<Absorbed(raw)>>
           /\ UNCHANGED <<blocks, discarded>>
     /\ UNCHANGED <<doc, stage, decoded, kinds, declared, raws, sunat, guias, calls, rows,
                    files, failures>>

Owners(bs, u) == {i \in DOMAIN bs : bs[i].url = u}

\* Fault: the block of the last pages is not pushed.
FinishAssemblyEarly ==
  /\ stage = "assemble" /\ seen = Len(Pages)
  /\ block' = <<>>
  /\ pending' = {u \in Url : Owners(blocks, u) # {}}
  /\ stage' = "sunat"
  /\ UNCHANGED <<doc, decoded, kinds, declared, raws, seen, blocks, discarded,
                 wave_size, answers, sunat_map, guias, calls, rows, files, failures>>

FinishAssembly ==
  /\ stage = "assemble" /\ seen = Len(Pages)
  /\ blocks' = Finished /\ block' = <<>>
  /\ pending' = {u \in Url : Owners(Finished, u) # {}}
  /\ stage' = "sunat"
  /\ UNCHANGED <<doc, decoded, kinds, declared, raws, seen, discarded,
                 wave_size, answers, sunat_map, guias, calls, rows, files, failures>>

-----------------------------------------------------------------------------
(* Stage 5c: the official guías. *)

(* A wave asks up to wave_size URLs at once (whichever: their order is not kept).
   A PDF is kept before it is parsed, so one that cannot be parsed is not
   downloaded again either; fetch() never raises. *)
FetchWave ==
  /\ stage = "sunat" /\ pending # {}
  /\ \E wave \in SUBSET pending :
       /\ Cardinality(wave) = Min({wave_size, Cardinality(pending)})
       /\ \E pdf \in [wave -> Pdf] :
            LET got == [u \in wave |-> IF pdf[u] = Unreadable THEN None ELSE pdf[u]]
            IN /\ \A u \in wave : sunat_cache[u] # None => pdf[u] = sunat_cache[u]
               /\ sunat_cache' = [u \in Url |-> IF u \in wave THEN pdf[u] ELSE sunat_cache[u]]
               /\ answers' = [u \in Url |-> IF u \in wave THEN got[u] ELSE answers[u]]
               /\ wave_size' = IF Cardinality({u \in wave : got[u] = None}) >= 3
                               THEN Max({1, wave_size - 1}) ELSE wave_size
       /\ pending' = pending \ wave
  /\ UNCHANGED <<doc, stage, decoded, kinds, declared, assembly, sunat_map, guias, calls,
                 rows, cache, sidecar, failures>>

\* _normalize_sunat_unit
UnitMap ==
  [TONELADAS |-> "TN", TNE |-> "TN", TN |-> "TN",
   KILOGRAMOS |-> "KG", KGM |-> "KG", KG |-> "KG",
   ROLLO |-> "Rollo", ROL |-> "Rollo", VARILLA |-> "RD", RD |-> "RD"]

Known(items) ==
  Selected(items, {item \in Range(items) : item.unidad \in DOMAIN UnitMap})

\* Fault: the official lines take the place of the flag as well.
OfficialLinesUnflagged(official, b) ==
  LET known == Known(official.items)
  IN [j \in DOMAIN known |-> Line([known[j] EXCEPT !.unidad = UnitMap[@]], FALSE)]

\* The items of the official guía in a unit of the domain.
OfficialLines(official, b) ==
  LET known == Known(official.items)
  IN [j \in DOMAIN known |->
        Line([known[j] EXCEPT !.unidad = UnitMap[@]], b.identity_source = "ocr_fallback")]

\* url_to_block: of the blocks that share a URL the last one gets the answer.
Owner(u) == Max(Owners(blocks, u))
Answered == {u \in Url : answers[u] # None /\ Owners(blocks, u) # {}}

Enriched(i) ==
  LET b == blocks[i]
      official == OfficialLines(answers[b.url], b)
  IN IF b.url \in Answered /\ Owner(b.url) = i /\ official # <<>>
     THEN [b EXCEPT !.lines = official] ELSE b

\* Of two URLs of one guía the one that occurs later in the document counts.
LastAnswered(guia_id) ==
  CHOOSE u \in Answered :
    /\ blocks[Owner(u)].guia_id = guia_id
    /\ \A v \in Answered : blocks[Owner(v)].guia_id = guia_id =>
                            Min(Owners(blocks, v)) <= Min(Owners(blocks, u))

ApplySunat ==
  /\ stage = "sunat" /\ pending = {}
  /\ blocks' = [i \in DOMAIN blocks |-> Enriched(i)]
  /\ sunat_map' = [id \in {blocks[Owner(u)].guia_id : u \in Answered} |->
                     answers[LastAnswered(id)]]
  /\ stage' = "vision"
  /\ UNCHANGED <<doc, decoded, kinds, declared, raws, seen, block, discarded,
                 pending, wave_size, answers, guias, calls, rows, files, failures>>

\* REC-EG-001: the blocks left without a line.
errored_guias ==
  {[guia_id |-> b.guia_id, registro |-> b.registro, source_pages |-> b.source_pages] :
     b \in {b \in Range(blocks) : b.lines = <<>>}}

-----------------------------------------------------------------------------
(* Stages 6 and 7: dates. *)

\* _build_guia_from_block
Guia(b, reading) ==
  [guia_id |-> b.guia_id, identity_source |-> b.identity_source, registro |-> b.registro,
   source_pages |-> b.source_pages, lines |-> b.lines,
   fecha |-> reading.date, fecha_raw |-> reading.raw, fecha_entrega |-> None,
   year_inferred |-> FALSE, delivery_floor_applied |-> FALSE]

\* One call for each block until the cap; the others get no date.
ReadStamp ==
  /\ stage = "vision" /\ Len(guias) < Len(blocks)
  /\ LET b == blocks[Len(guias) + 1]
     IN \/ /\ calls < MaxVisionCalls
           /\ \E reading \in Readings : guias' = Append(guias, Guia(b, reading))
           /\ calls' = calls + 1
        \/ /\ calls >= MaxVisionCalls
           /\ guias' = Append(guias, Guia(b, NullReading))
           /\ UNCHANGED calls
  /\ UNCHANGED <<doc, stage, decoded, kinds, declared, assembly, sunat, rows, files, failures>>

\* Fault: the batch is not cut to the cap.
ReadAllStampsInBatch ==
  /\ stage = "vision" /\ guias = <<>> /\ blocks # <<>>
  /\ \E readings \in [DOMAIN blocks -> Readings] :
       guias' = [i \in DOMAIN blocks |-> Guia(blocks[i], readings[i])]
  /\ calls' = Len(blocks)
  /\ UNCHANGED <<doc, stage, decoded, kinds, declared, assembly, sunat, rows, files, failures>>

\* An adapter that supports batches reads what the cap allows in one call.
ReadStampsInBatch ==
  /\ stage = "vision" /\ guias = <<>> /\ blocks # <<>>
  /\ LET allowed == 1 .. Min({MaxVisionCalls, Len(blocks)})
     IN /\ \E readings \in [allowed -> Readings] :
             guias' = [i \in DOMAIN blocks |->
                         Guia(blocks[i], IF i \in allowed THEN readings[i] ELSE NullReading)]
        /\ calls' = Cardinality(allowed)
  /\ UNCHANGED <<doc, stage, decoded, kinds, declared, assembly, sunat, rows, files, failures>>

DeliveryOf(guia) ==
  IF guia.guia_id \in DOMAIN sunat_map THEN sunat_map[guia.guia_id].fecha_entrega ELSE None

\* The year is always inferred anew from day and month, then floored.
Dated(guia) ==
  LET lower == DeliveryOf(guia)
      monthDay == IF guia.fecha # None THEN MonthDay(guia.fecha) ELSE guia.fecha_raw
      inferred == IF monthDay = None THEN None
                  ELSE infer_reception_year(monthDay, lower, Today)
      resolved == apply_delivery_floor(inferred, lower)
      moved == guia.fecha = None \/ YearOf(guia.fecha) # YearOf(resolved)
  IN IF resolved = None THEN [guia EXCEPT !.fecha_entrega = lower]
     ELSE [guia EXCEPT !.fecha = resolved,
                       !.fecha_entrega = lower,
                       !.year_inferred = monthDay # None /\ moved,
                       !.delivery_floor_applied = IsFloored(inferred, lower)]

NormalizeDates ==
  /\ stage = "vision" /\ Len(guias) = Len(blocks)
  /\ guias' = [i \in DOMAIN guias |-> Dated(guias[i])]
  /\ stage' = "normalize"
  /\ UNCHANGED <<doc, decoded, kinds, declared, assembly, sunat, calls, rows, files, failures>>

-----------------------------------------------------------------------------
(* Stages 8 and 9: materials, rows, files. *)

\* MaterialKeyResolver.resolve: the parser, else the model, else unresolved.
Method(raw, answered) ==
  IF Parsed[raw] # None THEN "deterministic"
  ELSE IF answered THEN "llm_inferred" ELSE "unresolved"
CanonicalKey(raw, method) ==
  CASE method = "deterministic" -> <<"key", Parsed[raw]>>
    [] method = "llm_inferred"  -> <<"key", Inferred[raw]>>
    [] method = "unresolved"    -> <<"UNRESOLVED", raw>>

Normalized(line, answered) ==
  LET method == Method(line.raw, answered)
  IN [raw |-> line.raw, unidad |-> line.unidad, cantidad |-> line.cantidad,
      canonical |-> CanonicalKey(line.raw, method),
      method |-> method,
      review |-> line.review \/ method # "deterministic"]

\* The lines the model is asked about, as <<side, document, line>>.
Asked ==
  LET Lines(side, docs) ==
        {l \in UNION {{<<side, i, j>> : j \in DOMAIN docs[i].lines} : i \in DOMAIN docs} :
           LET raw == docs[l[2]].lines[l[3]].raw
           IN Parsed[raw] = None /\ Inferred[raw] # None}
  IN Lines(1, declared) \cup Lines(2, guias)
AskedAgain(k, l) ==
  LET LineAt(x) == (IF x[1] = 1 THEN declared ELSE guias)[x[2]].lines[x[3]]
  IN /\ LineAt(k).raw = LineAt(l).raw /\ LineAt(k).unidad = LineAt(l).unidad
     /\ \/ k[1] < l[1]
        \/ k[1] = l[1] /\ k[2] < l[2]
        \/ k[1] = l[1] /\ k[2] = l[2] /\ k[3] < l[3]

NormalizedLines(side, docs, answered) ==
  [i \in DOMAIN docs |->
     [docs[i] EXCEPT !.lines =
        [j \in DOMAIN @ |-> Normalized(@[j], <<side, i, j>> \in answered)]]]

(* An answer is kept for the lines after it; a call that fails is not, so the
   same description may be unresolved in one line and resolved in a later one. *)
Normalize ==
  /\ stage = "normalize"
  /\ \E answered \in SUBSET Asked :
       /\ \A k \in answered, l \in Asked : AskedAgain(k, l) => l \in answered
       /\ declared' = NormalizedLines(1, declared, answered)
       /\ guias' = NormalizedLines(2, guias, answered)
  /\ stage' = "reconcile"
  /\ UNCHANGED <<doc, decoded, kinds, assembly, sunat, calls, rows, files, failures>>

Reconcile ==
  /\ stage = "reconcile"
  /\ rows' = reconcile(declared, guias)
  /\ stage' = "cache"
  /\ UNCHANGED <<doc, decoded, kinds, declared, assembly, sunat, guias, calls, files, failures>>

\* PipelineResult, and what extraction_cache.json holds of it.
Result ==
  [classifications |-> kinds, declared |-> declared, guias |-> guias, rows |-> rows,
   errored_guias |-> errored_guias, discarded_pages |-> discarded]

WriteCache ==
  /\ stage = "cache"
  /\ cache' = IF cache = None THEN Result ELSE cache
  /\ stage' = "sidecar"
  /\ UNCHANGED <<doc, locals, sidecar, sunat_cache, failures>>

WriteSidecar ==
  /\ stage = "sidecar"
  /\ sidecar' = IF sidecar = None THEN <<>> ELSE sidecar
  /\ stage' = "audit"
  /\ UNCHANGED <<doc, locals, cache, sunat_cache, failures>>

AppendAudit ==
  /\ stage = "audit"
  /\ sidecar' = Append(sidecar, calls)
  /\ stage' = "done"
  /\ UNCHANGED <<doc, locals, cache, sunat_cache, failures>>

-----------------------------------------------------------------------------
(* Failure and retry. *)

Fail ==
  /\ stage \notin {"done", "failed"}
  /\ failures < MaxFailures /\ failures' = failures + 1
  /\ stage' = "failed"
  /\ Forget
  /\ UNCHANGED <<doc, files>>

\* Fault: the cache of the attempt that failed is kept.
RetryFromCache ==
  /\ stage = "failed"
  /\ stage' = "decode"
  /\ sidecar' = None
  /\ UNCHANGED <<doc, locals, cache, sunat_cache, failures>>

Retry ==
  /\ stage = "failed"
  /\ stage' = "decode"
  /\ cache' = None /\ sidecar' = None
  /\ UNCHANGED <<doc, locals, sunat_cache, failures>>

Next ==
  \/ Decode \/ Classify \/ ExtractDeclared \/ ExtractOcr
  \/ AssemblePage \/ FinishAssembly
  \/ FetchWave \/ ApplySunat
  \/ ReadStamp \/ ReadStampsInBatch \/ NormalizeDates
  \/ Normalize \/ Reconcile
  \/ WriteCache \/ WriteSidecar \/ AppendAudit
  \/ Fail \/ Retry

Spec == Init /\ [][Next]_vars

-----------------------------------------------------------------------------
(* Types. *)

Stage ==
  {"decode", "classify", "declared", "ocr", "assemble", "sunat", "vision",
   "normalize", "reconcile", "cache", "sidecar", "audit", "done", "failed"}

\* MaterialLine.unidad: a unit of the domain.
Unit == Range(UnitMap)
IsItem(item) == {"unidad", "cantidad"} \subseteq DOMAIN item /\ item.cantidad \in Int
IsLine(line) == IsItem(line) /\ line.unidad \in Unit
IsLines(lines) == lines \in Seq(Range(lines)) /\ \A line \in Range(lines) : IsLine(line)
IsRegistro(registro) ==
  /\ {"numero", "lines"} \subseteq DOMAIN registro
  /\ registro.numero # None /\ IsLines(registro.lines)

\* What the adapters answer: lines in a unit, a registro with its number, and of
\* SUNAT items in whatever unit.
ASSUME AdapterAssumption ==
  /\ \A d \in Documents :
       /\ d.pages \in Seq(Range(d.pages))
       /\ \A page \in Range(d.pages) :
            /\ page.url \in Url \cup {None} /\ IsLines(page.ocr)
            /\ page.form # None => IsRegistro(page.form)
  /\ \A official \in SunatAnswers :
       /\ official.items \in Seq(Range(official.items))
       /\ \A item \in Range(official.items) : IsItem(item)

IsBlock(b) ==
  /\ b.identity_source \in {"qr", "ocr_fallback"}
  /\ b.source_pages # <<>> /\ Range(b.source_pages) \subseteq DOMAIN Pages
  /\ b.url \in Url \cup {None}

TypeOK ==
  /\ doc \in Documents
  /\ stage \in Stage
  /\ Range(kinds) \subseteq Kind
  /\ seen \in 0 .. Len(Pages)
  /\ Len(block) <= 1
  /\ \A b \in Range(Finished) : IsBlock(b)
  /\ pending \subseteq Url
  /\ wave_size \in 1 .. Concurrency
  /\ answers \in [Url -> SunatAnswers \cup {None}]
  /\ sunat_cache \in [Url -> Pdf]
  /\ Range(sunat_map) \subseteq SunatAnswers
  /\ Len(guias) <= Len(blocks)
  /\ calls \in 0 .. Len(guias)
  /\ \A key \in DOMAIN rows : key[1] # None /\ key[3] \in Unit
  /\ failures \in 0 .. MaxFailures

-----------------------------------------------------------------------------
(* Properties. *)

\* The pages of the guías assembly has taken, with evidence or without, in order.
Evident == {p \in DOMAIN raws : HasEvidence(raws[p])}
TakenPages(pages) == Selected([p \in 1 .. seen |-> p], pages)

(* Every guía page that assembly has taken is in one block, once, in its order and
   with its lines (flagged when the block's identity is uncertain), or in the
   discarded list that the operator sees, and in the end every page whose compact
   QR could be read is in a guía unless it is a Protocolo: no stage between
   decoding and persisting loses one (EXT-015, EXT-034). *)
PagesAccounted ==
  /\ FlattenSeq([i \in DOMAIN Finished |-> Finished[i].source_pages]) = TakenPages(Evident)
  /\ [i \in DOMAIN discarded |-> discarded[i].page]
       = TakenPages(DOMAIN raws \ Evident)
  /\ stage = "assemble" =>
       \A b \in Range(Finished) :
         b.lines = FlattenSeq([j \in DOMAIN b.source_pages |->
                     [k \in DOMAIN Pages[b.source_pages[j]].ocr |->
                        Line(Pages[b.source_pages[j]].ocr[k],
                             b.identity_source = "ocr_fallback")]])
  /\ stage = "done" =>
       \A p \in DOMAIN Pages :
         Pages[p].qr # None /\ "protocolo" \notin Pages[p].body =>
           \E i \in DOMAIN guias : p \in Range(guias[i].source_pages)

(* A block is one guía of one registro, and as long as its run of pages: no
   page of another guía or section is in it, a page without a compact QR is
   alone, and the next block is another guía or another section. *)
BlocksAreRuns ==
  \A i \in DOMAIN Finished :
    LET b == Finished[i]
        pages == Range(b.source_pages)
    IN /\ \A p \in pages : page_to_registro(p) = b.registro
       /\ b.identity_source = "qr" => \A p \in pages : Pages[p].qr = b.guia_id
       /\ b.identity_source = "ocr_fallback" => Len(b.source_pages) = 1
       /\ i + 1 \in DOMAIN Finished =>
            \/ Finished[i + 1].guia_id # b.guia_id
            \/ Finished[i + 1].registro # b.registro

(* The model is asked at most MaxVisionCalls times, a guía beyond the cap is
   kept without a reading, and no block is left without its guía (KI-1). *)
VisionWithinCap ==
  /\ calls <= MaxVisionCalls
  /\ \A i \in DOMAIN guias : i > calls => guias[i].fecha_raw = None
  /\ stage \in {"normalize", "reconcile", "cache", "sidecar", "audit", "done"} =>
       /\ Len(guias) = Len(blocks)
       /\ \A i \in DOMAIN guias : guias[i].source_pages = blocks[i].source_pages

(* A resolved date is what the stamp says in the latest year that makes it
   neither later than today nor earlier than the delivery; the delivery date
   stands in only where no year does, and then the guía says so (EXT-021, R9b).
   Unlike the code, this looks at every year. *)
DatesAreLatest ==
  stage = "normalize" =>
    \A i \in DOMAIN guias :
      LET g == guias[i]
          Fits(year) == /\ IsDate(DateOf(year, g.fecha_raw))
                        /\ DateOf(year, g.fecha_raw) <= Today
                        /\ NotBefore(DateOf(year, g.fecha_raw), g.fecha_entrega)
      IN /\ g.fecha = None => g.fecha_entrega = None
         /\ g.delivery_floor_applied =>
              /\ g.fecha = g.fecha_entrega
              /\ g.fecha_raw # None => \A year \in 2000 .. 2100 : ~Fits(year)
         /\ g.fecha # None /\ ~g.delivery_floor_applied =>
              /\ MonthDay(g.fecha) = g.fecha_raw /\ Fits(YearOf(g.fecha))
              /\ \A year \in YearOf(g.fecha) + 1 .. 2100 : ~Fits(year)

Persisting == {"cache", "sidecar", "audit", "done"}

\* What the documents ds of a registro state in a unit.
Total(ds, numeros, numero, unidad) ==
  Quantity(ds, {e \in UNION {{i} \X DOMAIN ds[i].lines : i \in DOMAIN ds} :
                  numeros[e[1]] = numero /\ ds[e[1]].lines[e[2]].unidad = unidad})

\* The registros a page declares, a guía is in or a row is of.
Numeros ==
  ({r.numero : r \in Range(declared)} \cup {g.registro : g \in Range(guias)}
     \cup {key[1] : key \in DOMAIN rows}) \ {None}

(* The rows of a registro hold, in each unit, exactly the quantities that its
   declared pages and its guías do: merging guías and recovering illegible
   descriptions moves quantities between rows but loses and doubles none, and
   never moves them to another registro or unit (REC-007, MAT-001).  A registro
   or unit left without a row has nothing to hold. *)
MaterialConserved ==
  stage \in Persisting =>
    \A numero \in Numeros, unidad \in Unit :
      LET own == {key \in DOMAIN rows : key[1] = numero /\ key[3] = unidad}
          received == Total(guias, [i \in DOMAIN guias |-> guias[i].registro], numero, unidad)
          stated == Total(declared, [i \in DOMAIN declared |-> declared[i].numero], numero, unidad)
          counted(key) == SumFunction([c \in rows[key].guias |-> c.cantidad])
      IN /\ SumFunction([key \in own |-> counted(key)]) = received
         /\ SumFunction([key \in own |-> rows[key].declared_qty]) = stated
         /\ SumFunction([key \in own |-> rows[key].delta]) = received - stated

(* A row that asks for no review rests on sure data alone: each guía in it has
   a compact QR, lines that the parser understood and a stamp that was read, agrees with
   the Protocolo's day and month, and lies between its delivery and the
   Protocolo.  Of guías of one name, the code looks only at the first. *)
UnflaggedRowsAreSure ==
  stage \in Persisting =>
    \A key \in DOMAIN rows :
      ~rows[key].requires_review =>
        \A c \in rows[key].guias :
          LET ceiling == AuthoritativeFecha(declared, key[1])
          IN \E i \in DOMAIN guias :
               LET g == guias[i]
               IN /\ g.guia_id = c.guia_id /\ g.registro = key[1]
                  /\ g.identity_source = "qr"
                  /\ g.fecha # None /\ MonthDay(g.fecha) = g.fecha_raw
                  /\ NotBefore(g.fecha, g.fecha_entrega) /\ NotAfter(g.fecha, ceiling)
                  /\ ceiling # None => MonthDay(ceiling) = g.fecha_raw
                  /\ \A line \in Range(g.lines) : Parsed[line.raw] # None

(* What a finished run shows is what its files hold, with one audit record of
   its vision calls, also when an earlier attempt failed between two writes. *)
StoredIsShown ==
  stage = "done" => cache = Result /\ sidecar = <<calls>>
=============================================================================
