-------------------------- MODULE Pipeline_proofs --------------------------
(***************************************************************************)
(* Proofs about a run of the pipeline, for any documents, answers of SUNAT *)
(* and of the models, caps and numbers of failures.                        *)
(*                                                                         *)
(* Each theorem has an invariant of its own, on top of those before it:    *)
(*   FilesInv   what the files hold in each stage                          *)
(*   PagesInv   what assembly reads is what the pages say                  *)
(*   BlocksInv  the blocks of the pages looked at                          *)
(*   CapInv     the guías of the first blocks, read or beyond the cap      *)
(*   DateInv    a guía's date as it was read, then the latest that fits    *)
(*   FlagInv    what a guía without a QR or a line that was not understood *)
(*              leaves flagged                                             *)
(***************************************************************************)
EXTENDS Pipeline, SequenceTheorems, FiniteSetTheorems, WellFoundedInduction, TLAPS

-----------------------------------------------------------------------------
(* What is stored is what is shown. *)

\* What the files hold in each stage; a run that raised may leave anything.
FilesInv ==
  /\ stage \in Stage
  /\ stage \notin {"sidecar", "audit", "done", "failed"} => cache = None /\ sidecar = None
  /\ stage = "sidecar" => cache = Result /\ sidecar = None
  /\ stage = "audit" => cache = Result /\ sidecar = <<>>
  /\ stage = "done" => cache = Result /\ sidecar = <<calls>>

LEMMA FilesInvStep ==
  ASSUME FilesInv, [Next]_vars
  PROVE  FilesInv'
<1> USE DEF FilesInv, Stage
<1>1. ASSUME UNCHANGED locals PROVE Result' = Result
  BY <1>1 DEF Result, errored_guias, locals, assembly
<1>2. CASE Decode \/ Classify \/ ExtractDeclared \/ ExtractOcr
  BY <1>2 DEF Decode, Classify, ExtractDeclared, ExtractOcr, files
<1>3. CASE AssemblePage \/ FinishAssembly
  BY <1>3 DEF AssemblePage, FinishAssembly, files
<1>4. CASE FetchWave \/ ApplySunat
  BY <1>4 DEF FetchWave, ApplySunat, files
<1>5. CASE ReadStamp \/ ReadStampsInBatch \/ NormalizeDates
  BY <1>5 DEF ReadStamp, ReadStampsInBatch, NormalizeDates, files
<1>6. CASE Normalize \/ Reconcile
  BY <1>6 DEF Normalize, Reconcile, files
<1>7. CASE WriteCache
  BY <1>1, <1>7 DEF WriteCache
<1>8. CASE WriteSidecar
  BY <1>1, <1>8 DEF WriteSidecar
<1>9. CASE AppendAudit
  BY <1>1, <1>9 DEF AppendAudit, locals
<1>10. CASE Fail \/ Retry
  BY <1>10 DEF Fail, Retry
<1>11. CASE UNCHANGED vars
  BY <1>1, <1>11 DEF vars, files, locals
<1> QED
  BY <1>2, <1>3, <1>4, <1>5, <1>6, <1>7, <1>8, <1>9, <1>10, <1>11 DEF Next

(* When a run ends, its cache is what it shows and its sidecar holds one record
   with the number of its vision calls, however often it failed before. *)

THEOREM StoredIsAlwaysShown == Spec => []StoredIsShown
<1>1. Init => FilesInv
  BY DEF Init, FilesInv, Stage
<1>2. FilesInv /\ [Next]_vars => FilesInv'
  BY FilesInvStep
<1>3. FilesInv => StoredIsShown
  BY DEF FilesInv, StoredIsShown
<1> QED BY <1>1, <1>2, <1>3, PTL DEF Spec
-----------------------------------------------------------------------------
(* Blocks are runs of pages. *)

Before == {"decode", "classify", "declared", "ocr", "failed"}

\* What assembly reads is what the pages say, and it runs in its stage only.
PagesInv ==
  /\ doc \in Documents
  /\ stage \in Stage
  /\ seen \in Nat
  /\ stage \in Before => seen = 0 /\ blocks = <<>>
  /\ stage # "assemble" => block = <<>>
  /\ stage \in {"classify", "declared", "ocr", "assemble"} =>
       \A p \in DOMAIN Pages : decoded[p].identity = Pages[p].qr
  /\ stage = "assemble" =>
       \A p \in DOMAIN raws :
         p \in DOMAIN Pages /\ raws[p].page = p /\ raws[p].registro = page_to_registro(p)

\* A block of pages looked at, of one registro and of one guía.
Placed(b) ==
  /\ DOMAIN b = {"guia_id", "identity_source", "registro", "source_pages", "url", "lines"}
  /\ b.source_pages \in Seq(1 .. seen) /\ b.source_pages # <<>>
  /\ \A p \in Range(b.source_pages) : p \in DOMAIN Pages /\ page_to_registro(p) = b.registro
  /\ \/ /\ b.identity_source = "qr"
        /\ \A p \in Range(b.source_pages) : Pages[p].qr = b.guia_id
     \/ /\ b.identity_source = "ocr_fallback"
        /\ \E p \in Range(b.source_pages) : b.source_pages = <<p>> /\ b.guia_id = <<"ocr", p>>

Differ(b, c) == c.guia_id # b.guia_id \/ c.registro # b.registro

IsList(s) == s \in Seq(Range(s))
Separate(bs) == \A i \in 1 .. Len(bs) - 1 : Differ(bs[i], bs[i + 1])

BlocksInv ==
  /\ IsList(blocks)
  /\ block = <<>> \/ \E b : block = <<b>>
  /\ block = <<>> /\ stage = "assemble" => blocks = <<>>
  /\ Separate(Finished)
  /\ \A b \in Range(Finished) : Placed(b)

\* The registro of a page is a matter of the document alone.
LEMMA RegistroStays ==
  ASSUME doc' = doc
  PROVE  \A page : page_to_registro(page)' = page_to_registro(page)
<1>1. \A page : Section(page)' = Section(page)
  BY Zenon DEF Section
<1>2. \A section, mark : Readable(section, mark)' = Readable(section, mark)
  BY <1>1 DEF Readable, Pages
<1>3. \A section : DerivedNumero(section)' = DerivedNumero(section)
  BY <1>2, Zenon DEF DerivedNumero, Pages
<1>4. ASSUME NEW page PROVE page_to_registro(page)' = page_to_registro(page)
  <2> DEFINE any == CHOOSE i \in Section(page) : TRUE
  <2>1. Section(page)' = Section(page)
    BY <1>1
  <2>2. any' = any
    BY <2>1
  <2>3. DerivedNumero(any)' = DerivedNumero(any)
    BY <1>3, <2>2
  <2> QED BY <2>1, <2>3 DEF page_to_registro
<1> QED BY <1>4

LEMMA PagesInvStep ==
  ASSUME PagesInv, [Next]_vars
  PROVE  PagesInv'
<1> USE DEF PagesInv, Stage, Before
<1>1. CASE Decode
  BY <1>1 DEF Decode, Pages, assembly
<1>2. CASE Classify \/ ExtractDeclared
  BY <1>2 DEF Classify, ExtractDeclared, Pages, assembly
<1>3. CASE ExtractOcr
  <2>1. \A p \in DOMAIN raws' :
          p \in DOMAIN Pages /\ raws'[p].page = p /\ raws'[p].registro = page_to_registro(p)
    BY <1>3 DEF ExtractOcr
  <2> QED BY <1>3, <2>1, RegistroStays DEF ExtractOcr, Pages
<1>4. CASE AssemblePage
  BY <1>4, RegistroStays DEF AssemblePage, Pages
<1>5. CASE FinishAssembly
  BY <1>5 DEF FinishAssembly, Pages
<1>6. CASE FetchWave \/ ApplySunat
  BY <1>6 DEF FetchWave, ApplySunat, Pages, assembly
<1>7. CASE ReadStamp \/ ReadStampsInBatch \/ NormalizeDates
  BY <1>7 DEF ReadStamp, ReadStampsInBatch, NormalizeDates, Pages, assembly
<1>8. CASE Normalize \/ Reconcile
  BY <1>8 DEF Normalize, Reconcile, Pages, assembly
<1>9. CASE WriteCache \/ WriteSidecar \/ AppendAudit
  BY <1>9 DEF WriteCache, WriteSidecar, AppendAudit, Pages, assembly, locals
<1>10. CASE Fail
  BY <1>10 DEF Fail, Forget, Pages
<1>11. CASE Retry
  BY <1>11 DEF Retry, Pages, assembly, locals
<1>12. CASE UNCHANGED vars
  BY <1>12, RegistroStays DEF vars, Pages, assembly, locals
<1> QED
  BY <1>1, <1>2, <1>3, <1>4, <1>5, <1>6, <1>7, <1>8, <1>9, <1>10, <1>11, <1>12 DEF Next

\* What is known of a list with one more element.
Added(s, e, t) ==
  /\ IsList(t) /\ Len(s) \in Nat /\ Len(t) = Len(s) + 1
  /\ \A i \in 1 .. Len(s) : t[i] = s[i]
  /\ t[Len(s) + 1] = e
  /\ Range(t) = Range(s) \cup {e}

LEMMA AddToList ==
  \A s, e : IsList(s) => Added(s, e, s \o <<e>>)
<1> SUFFICES ASSUME NEW s, NEW e, IsList(s) PROVE Added(s, e, s \o <<e>>)
  OBVIOUS
<1> DEFINE S == Range(s) \cup {e}
           t == s \o <<e>>
<1>1. s \in Seq(S) /\ <<e>> \in Seq(S) /\ Len(<<e>>) = 1 /\ <<e>>[1] = e
  BY SeqMonotonic DEF IsList
<1>2. /\ t \in Seq(S)
      /\ Len(t) = Len(s) + 1
      /\ \A i \in 1 .. Len(t) : t[i] = IF i <= Len(s) THEN s[i] ELSE <<e>>[i - Len(s)]
  BY <1>1, ConcatProperties
<1> HIDE DEF t
<1>3. Len(s) \in Nat /\ DOMAIN s = 1 .. Len(s) /\ DOMAIN t = 1 .. Len(t)
  BY <1>1, <1>2, LenProperties
<1>4. /\ \A i \in 1 .. Len(s) : t[i] = s[i]
      /\ t[Len(s) + 1] = e
  BY <1>1, <1>2, <1>3
<1>5. Range(t) = Range(s) \cup {e}
  <2>1. \A x \in Range(t) : x \in Range(s) \cup {e}
    BY <1>2, <1>3, <1>4 DEF Range
  <2>2. \A x \in Range(s) : x \in Range(t)
    BY <1>2, <1>3, <1>4 DEF Range
  <2>3. e \in Range(t)
    BY <1>2, <1>3, <1>4 DEF Range
  <2> QED BY <2>1, <2>2, <2>3
<1>6. IsList(t)
  BY <1>2, <1>5 DEF IsList
<1> QED BY <1>2, <1>3, <1>4, <1>5, <1>6 DEF Added, t

LEMMA NoList ==
  /\ IsList(<<>>) /\ Separate(<<>>) /\ Range(<<>>) = {}
  /\ \A s : IsList(s) => s \o <<>> = s
BY EmptySeq, ConcatEmptySeq DEF IsList, Separate, Range

\* A block stays where it is while assembly goes on.
LEMMA PlacedStays ==
  ASSUME doc' = doc, seen \in Nat, seen' \in Nat, seen <= seen'
  PROVE  \A b : Placed(b) => Placed(b)'
<1>1. \A s \in Seq(1 .. seen) : s \in Seq(1 .. seen')
  BY SeqMonotonic
<1> QED BY <1>1, RegistroStays DEF Placed, Pages

LEMMA BlocksStay ==
  ASSUME PagesInv, PagesInv', BlocksInv, doc' = doc, seen <= seen', Finished' = Finished,
         UNCHANGED <<blocks, block>> \/ (blocks' = Finished /\ block' = <<>> /\ stage' # "assemble"),
         stage' = "assemble" => stage = "assemble" \/ blocks = <<>>
  PROVE  BlocksInv'
<1>1. IsList(Finished)
  <2>1. CASE block = <<>>
    BY <2>1, NoList DEF BlocksInv, Finished
  <2>2. ASSUME NEW b, block = <<b>> PROVE IsList(Finished)
    <3>1. Added(blocks, b, Finished)
      BY <2>2, AddToList, Zenon DEF BlocksInv, Finished
    <3> QED BY <3>1 DEF Added
  <2> QED BY <2>1, <2>2 DEF BlocksInv
<1>2. \A b \in Range(Finished)' : Placed(b)'
  BY PlacedStays DEF BlocksInv, PagesInv
<1> QED BY <1>1, <1>2 DEF BlocksInv, Separate, Differ

\* What assembly knows of the next page of a guía.
LEMMA NextPage ==
  ASSUME PagesInv, AssemblePage, seen + 1 \in DOMAIN raws
  PROVE  LET raw == raws[seen + 1]
         IN /\ raw.page = seen + 1 /\ seen + 1 \in DOMAIN Pages
            /\ raw.registro = page_to_registro(seen + 1)
            /\ Identity(raw) = Pages[seen + 1].qr
            /\ IsFallbackMaterial(raw) => Identity(raw) = None
            /\ \A p \in DOMAIN Pages : Pages[p].qr # <<"ocr", seen + 1>>
            /\ doc' = doc /\ seen' = seen + 1
BY NameAssumption DEF PagesInv, AssemblePage, Identity, IsFallbackMaterial, Pages

LEMMA NewBlockPlaced ==
  ASSUME PagesInv, AssemblePage, seen + 1 \in DOMAIN raws,
         NEW b, b = NewBlock(raws[seen + 1])
  PROVE  Placed(b)'
<1>1. /\ DOMAIN b = {"guia_id", "identity_source", "registro", "source_pages", "url", "lines"}
      /\ b.source_pages = <<seen + 1>>
      /\ b.registro = page_to_registro(seen + 1)
      /\ \/ b.identity_source = "qr" /\ b.guia_id = Pages[seen + 1].qr
         \/ b.identity_source = "ocr_fallback" /\ b.guia_id = <<"ocr", seen + 1>>
  BY NextPage DEF NewBlock
<1>2. seen + 1 \in 1 .. (seen + 1) /\ Range(b.source_pages) = {seen + 1}
  BY <1>1 DEF PagesInv, Range
<1> QED BY <1>1, <1>2, NextPage, RegistroStays DEF Placed, Pages

\* A page that starts a block is not of the block before it.
LEMMA NewBlockDiffers ==
  ASSUME PagesInv, AssemblePage, seen + 1 \in DOMAIN raws, StartsBlock(raws[seen + 1]),
         HasEvidence(raws[seen + 1]), NEW c, block = <<c>>, Placed(c)
  PROVE  Differ(c, NewBlock(raws[seen + 1]))
<1> DEFINE raw == raws[seen + 1]
<1>1. \/ raw.registro # c.registro
      \/ Identity(raw) # None /\ Identity(raw) # c.guia_id
      \/ IsFallbackMaterial(raw)
  BY DEF StartsBlock, Range
<1>2. CASE raw.registro # c.registro
  BY <1>2 DEF Differ, NewBlock
<1>3. CASE Identity(raw) # None /\ Identity(raw) # c.guia_id
  BY <1>3 DEF Differ, NewBlock
<1>4. CASE IsFallbackMaterial(raw)
  <2>1. NewBlock(raw).guia_id = <<"ocr", seen + 1>>
    BY <1>4, NextPage DEF NewBlock
  <2>2. c.guia_id # <<"ocr", seen + 1>>
    <3>1. PICK p \in Range(c.source_pages) : TRUE
      BY DEF Placed, Range
    <3>2. \A q \in Range(c.source_pages) : q \in DOMAIN Pages /\ q \in 1 .. seen
      BY RangeOfSeq DEF Placed
    <3>3. CASE c.identity_source = "qr"
      BY <3>1, <3>2, <3>3, NextPage DEF Placed
    <3>4. CASE c.identity_source = "ocr_fallback"
      BY <3>2, <3>4 DEF Placed, PagesInv
    <3> QED BY <3>3, <3>4 DEF Placed
  <2> QED BY <2>1, <2>2 DEF Differ
<1> QED BY <1>1, <1>2, <1>3, <1>4

\* A page that does not is another page of the guía before it.
LEMMA AbsorbedPlaced ==
  ASSUME PagesInv, AssemblePage, seen + 1 \in DOMAIN raws, ~StartsBlock(raws[seen + 1]),
         HasEvidence(raws[seen + 1]), NEW c, block = <<c>>, Placed(c),
         NEW b, b = Absorbed(raws[seen + 1])
  PROVE  Placed(b)' /\ b.guia_id = c.guia_id /\ b.registro = c.registro
         /\ b.identity_source = "qr"
<1> DEFINE raw == raws[seen + 1]
<1>1. /\ raw.registro = c.registro
      /\ Identity(raw) # None => Identity(raw) = c.guia_id
      /\ ~IsFallbackMaterial(raw)
  BY DEF StartsBlock, Range
<1>2. Pages[seen + 1].qr = c.guia_id /\ page_to_registro(seen + 1) = c.registro
  BY <1>1, NextPage DEF HasEvidence
<1>3. c.identity_source = "qr"
  BY <1>2, NameAssumption, NextPage DEF Placed, PagesInv, Pages
<1>4. /\ DOMAIN b = DOMAIN c
      /\ b.guia_id = c.guia_id /\ b.registro = c.registro
      /\ b.identity_source = c.identity_source
      /\ b.source_pages = Append(c.source_pages, seen + 1)
  BY NextPage DEF Absorbed, Placed
<1>5. /\ b.source_pages \in Seq(1 .. (seen + 1)) /\ b.source_pages # <<>>
      /\ Range(b.source_pages) = Range(c.source_pages) \cup {seen + 1}
  <2>1. c.source_pages \in Seq(1 .. (seen + 1)) /\ seen + 1 \in 1 .. (seen + 1)
    BY SeqMonotonic DEF Placed, PagesInv
  <2>2. /\ b.source_pages \in Seq(1 .. (seen + 1))
        /\ Len(b.source_pages) = Len(c.source_pages) + 1
        /\ \A i \in 1 .. Len(c.source_pages) : b.source_pages[i] = c.source_pages[i]
        /\ b.source_pages[Len(b.source_pages)] = seen + 1
    BY <1>4, <2>1, AppendProperties
  <2>3. /\ Len(c.source_pages) \in Nat
        /\ DOMAIN c.source_pages = 1 .. Len(c.source_pages)
        /\ DOMAIN b.source_pages = 1 .. Len(b.source_pages)
    BY <2>1, <2>2, LenProperties
  <2>4. \A x \in Range(b.source_pages) : x \in Range(c.source_pages) \cup {seen + 1}
    BY <2>2, <2>3 DEF Range
  <2>5. \A x \in Range(c.source_pages) \cup {seen + 1} : x \in Range(b.source_pages)
    BY <2>2, <2>3 DEF Range
  <2> QED BY <2>2, <2>3, <2>4, <2>5
<1>6. \A p \in Range(b.source_pages) :
        /\ p \in DOMAIN Pages /\ page_to_registro(p) = b.registro
        /\ Pages[p].qr = b.guia_id
  BY <1>2, <1>3, <1>4, <1>5, NextPage DEF Placed
<1> QED
  BY <1>3, <1>4, <1>5, <1>6, NextPage, RegistroStays DEF Placed, Pages

LEMMA AssemblePageStep ==
  ASSUME PagesInv, PagesInv', BlocksInv, AssemblePage
  PROVE  BlocksInv'
<1> DEFINE page == seen + 1
           raw == raws[page]
<1>1. doc' = doc /\ seen \in Nat /\ seen' = page /\ stage = "assemble" /\ stage' = "assemble"
  BY DEF AssemblePage, PagesInv
<1>2. CASE UNCHANGED <<block, blocks>>
  BY <1>1, <1>2, BlocksStay DEF Finished
<1>3. CASE page \in DOMAIN raws /\ HasEvidence(raw) /\ StartsBlock(raw)
           /\ blocks' = Finished /\ block' = <<NewBlock(raw)>>
  <2>1. PICK b : b = NewBlock(raw)
    OBVIOUS
  <2>2. Placed(b)'
    BY <1>3, <2>1, NewBlockPlaced
  <2>3. /\ IsList(Finished)
        /\ Finished # <<>> => Differ(Finished[Len(Finished)], b)
    <3>1. CASE block = <<>>
      BY <1>1, <3>1, NoList DEF BlocksInv, Finished
    <3>2. ASSUME NEW c, block = <<c>>
          PROVE  <2>3!1 /\ <2>3!2
      <4>0. IsList(blocks) /\ Finished = blocks \o <<c>>
        BY <3>2 DEF BlocksInv, Finished
      <4>1. IsList(Finished) /\ Finished[Len(Finished)] = c /\ c \in Range(Finished)
        <5>1. Added(blocks, c, Finished)
          BY <4>0, AddToList, Zenon
        <5> QED BY <5>1 DEF Added
      <4>2. Differ(c, b)
        BY <1>3, <2>1, <3>2, <4>1, NewBlockDiffers DEF BlocksInv
      <4> QED BY <4>1, <4>2
    <3> QED BY <3>1, <3>2 DEF BlocksInv
  <2>4. Finished' = Finished \o <<b>> /\ block' = <<b>>
    BY <1>3, <2>1 DEF Finished
  <2>5. \A c \in Range(Finished) \cup {b} : Placed(c)'
    BY <1>1, <2>2, PlacedStays DEF BlocksInv
  <2> DEFINE t == Finished \o <<b>>
  <2>6. /\ IsList(t) /\ Len(Finished) \in Nat /\ Len(t) = Len(Finished) + 1
        /\ \A i \in 1 .. Len(Finished) : t[i] = Finished[i]
        /\ t[Len(t)] = b
        /\ Range(t) = Range(Finished) \cup {b}
    <3>1. Added(Finished, b, t)
      BY <2>3, AddToList, Zenon
    <3> QED BY <3>1 DEF Added
  <2>7. Separate(t)
    <3> SUFFICES ASSUME NEW i \in 1 .. Len(t) - 1 PROVE Differ(t[i], t[i + 1])
      BY DEF Separate
    <3>1. CASE i < Len(Finished)
      BY <2>6, <3>1 DEF BlocksInv, Separate
    <3>2. CASE i = Len(Finished)
      <4>1. Finished # <<>>
        BY <3>2, <2>6, EmptySeq
      <4> QED BY <2>3, <2>6, <3>2, <4>1
    <3> QED BY <2>6, <3>1, <3>2
  <2>8. blocks' = Finished /\ block' = <<b>> /\ Finished' = t
    BY <1>3, <2>4
  <2>9. \A x \in Range(Finished') : Placed(x)'
    BY <2>5, <2>6, <2>8
  <2> QED BY <2>3, <2>7, <2>8, <2>9 DEF BlocksInv
<1>4. CASE page \in DOMAIN raws /\ HasEvidence(raw) /\ ~StartsBlock(raw)
           /\ block' = <<Absorbed(raw)>> /\ blocks' = blocks
  <2>1. PICK b : b = Absorbed(raw)
    OBVIOUS
  <2>2. PICK c : block = <<c>>
    BY <1>4 DEF BlocksInv, StartsBlock, Range
  <2>3. Finished = blocks \o <<c>> /\ Finished' = blocks \o <<b>> /\ block' = <<b>>
    BY <1>4, <2>1, <2>2 DEF Finished
  <2> DEFINE t == blocks \o <<b>>
  <2>0. IsList(blocks)
    BY DEF BlocksInv
  <2>4. /\ Len(blocks) \in Nat
        /\ Len(Finished) = Len(blocks) + 1
        /\ \A i \in 1 .. Len(blocks) : Finished[i] = blocks[i]
        /\ Finished[Len(Finished)] = c
        /\ Range(Finished) = Range(blocks) \cup {c}
    <3>1. Added(blocks, c, Finished)
      BY <2>0, <2>3, AddToList, Zenon
    <3> QED BY <3>1 DEF Added
  <2>8. /\ Len(t) = Len(blocks) + 1
        /\ \A i \in 1 .. Len(blocks) : t[i] = blocks[i]
        /\ t[Len(t)] = b
        /\ Range(t) = Range(blocks) \cup {b}
    <3>1. Added(blocks, b, t)
      BY <2>0, AddToList, Zenon
    <3> QED BY <3>1, <2>4 DEF Added
  <2>5. Placed(b)' /\ b.guia_id = c.guia_id /\ b.registro = c.registro
    BY <1>4, <2>1, <2>2, <2>4, AbsorbedPlaced DEF BlocksInv
  <2>6. \A x \in Range(t) : Placed(x)'
    BY <1>1, <2>4, <2>5, <2>8, PlacedStays DEF BlocksInv
  <2>7. Separate(t)
    <3> SUFFICES ASSUME NEW i \in 1 .. Len(t) - 1 PROVE Differ(t[i], t[i + 1])
      BY DEF Separate
    <3>1. Differ(Finished[i], Finished[i + 1])
      BY <2>4, <2>8 DEF BlocksInv, Separate
    <3> QED BY <2>4, <2>5, <2>8, <3>1 DEF Differ
  <2>9. blocks' = blocks /\ block' = <<b>> /\ Finished' = t
    BY <1>4, <2>3
  <2> QED BY <2>0, <2>6, <2>7, <2>9 DEF BlocksInv
<1> QED BY <1>2, <1>3, <1>4 DEF AssemblePage

\* Official lines change nothing else of a block.
LEMMA EnrichedPlaced ==
  ASSUME NEW i \in DOMAIN blocks, Placed(blocks[i])
  PROVE  /\ Placed(Enriched(i))
         /\ Enriched(i).guia_id = blocks[i].guia_id
         /\ Enriched(i).registro = blocks[i].registro
         /\ Enriched(i).source_pages = blocks[i].source_pages
<1> DEFINE b == blocks[i]
<1>1. \A lines : LET c == [b EXCEPT !.lines = lines]
                 IN /\ DOMAIN c = DOMAIN b /\ c.guia_id = b.guia_id /\ c.registro = b.registro
                    /\ c.source_pages = b.source_pages /\ c.identity_source = b.identity_source
  BY DEF Placed
<1>2. \/ Enriched(i) = b
      \/ Enriched(i) = [b EXCEPT !.lines = OfficialLines(answers[b.url], b)]
  BY Zenon DEF Enriched
<1> HIDE DEF b
<1>3. /\ DOMAIN Enriched(i) = DOMAIN b
      /\ Enriched(i).guia_id = b.guia_id /\ Enriched(i).registro = b.registro
      /\ Enriched(i).source_pages = b.source_pages
      /\ Enriched(i).identity_source = b.identity_source
  BY <1>1, <1>2
<1>4. Placed(b)
  BY DEF b
<1>5. Placed(Enriched(i))
  BY <1>3, <1>4 DEF Placed
<1> QED BY <1>3, <1>5 DEF b

LEMMA ApplySunatStep ==
  ASSUME PagesInv, PagesInv', BlocksInv, ApplySunat
  PROVE  BlocksInv'
<1>1. /\ stage' # "assemble" /\ block = <<>> /\ block' = <<>> /\ doc' = doc /\ seen' = seen
      /\ blocks' = [i \in DOMAIN blocks |-> Enriched(i)]
  BY DEF ApplySunat, PagesInv
<1>2. Finished = blocks /\ IsList(blocks)
  BY <1>1, NoList DEF BlocksInv, Finished
<1>3. /\ Len(blocks) \in Nat /\ DOMAIN blocks = 1 .. Len(blocks)
      /\ \A i \in 1 .. Len(blocks) : Placed(blocks[i])
  BY <1>2, LenProperties DEF IsList, BlocksInv, Range
<1> DEFINE bs == [i \in 1 .. Len(blocks) |-> Enriched(i)]
<1>4. /\ IsList(bs) /\ Len(bs) = Len(blocks)
      /\ \A i \in 1 .. Len(blocks) : bs[i] = Enriched(i)
  <2>1. bs \in [1 .. Len(blocks) -> Range(bs)]
    BY DEF Range
  <2> HIDE DEF bs
  <2>2. bs \in Seq(Range(bs))
    BY <1>3, <2>1, SeqDef
  <2>3. Len(bs) = Len(blocks)
    BY <1>3, <2>1, <2>2, LenProperties
  <2> QED BY <2>2, <2>3 DEF IsList, bs
<1>5. \A i \in 1 .. Len(blocks) :
        Placed(bs[i]) /\ bs[i].guia_id = blocks[i].guia_id /\ bs[i].registro = blocks[i].registro
  BY <1>3, EnrichedPlaced
<1> HIDE DEF bs
<1>6. Separate(bs)
  <2> SUFFICES ASSUME NEW i \in 1 .. Len(blocks) - 1 PROVE Differ(bs[i], bs[i + 1])
    BY <1>4 DEF Separate
  <2>1. i \in 1 .. Len(blocks) /\ i + 1 \in 1 .. Len(blocks) /\ Differ(blocks[i], blocks[i + 1])
    BY <1>2, <1>3 DEF BlocksInv, Separate
  <2> QED BY <1>5, <2>1 DEF Differ
<1>7. \A b \in Range(bs) : Placed(b)
  BY <1>3, <1>4, <1>5, LenProperties DEF Range, IsList
<1>8. \A b \in Range(bs) : Placed(b)'
  BY <1>1, <1>7, PlacedStays DEF PagesInv
<1>9. blocks' = bs /\ Finished' = bs
  <2>1. blocks' = bs
    BY <1>1, <1>3 DEF bs
  <2> QED BY <1>1, <1>4, <2>1, NoList DEF Finished
<1> QED BY <1>1, <1>4, <1>6, <1>8, <1>9 DEF BlocksInv

LEMMA SeenIsNat ==
  PagesInv => seen \in Nat
BY DEF PagesInv

LEMMA BlocksInvStep ==
  ASSUME PagesInv, PagesInv', BlocksInv, [Next]_vars
  PROVE  BlocksInv'
<1> USE DEF PagesInv, Before
<1>1. CASE Decode \/ Classify \/ ExtractDeclared
  <2>1. UNCHANGED <<doc, seen, block, blocks>> /\ stage' # "assemble"
    BY <1>1 DEF Decode, Classify, ExtractDeclared, assembly
  <2> HIDE DEF PagesInv
  <2> QED BY <2>1, SeenIsNat, BlocksStay DEF Finished
<1>2. CASE ExtractOcr
  <2>1. UNCHANGED <<doc, seen, block, blocks>> /\ blocks = <<>>
    BY <1>2 DEF ExtractOcr
  <2> HIDE DEF PagesInv
  <2> QED BY <2>1, SeenIsNat, BlocksStay DEF Finished
<1>3. CASE AssemblePage
  BY <1>3, AssemblePageStep
<1>4. CASE FinishAssembly
  <2>1. Finished' = Finished \o <<>> /\ IsList(Finished)
    <3>1. CASE block = <<>>
      BY <1>4, <3>1, NoList DEF FinishAssembly, Finished, BlocksInv
    <3>2. ASSUME NEW b, block = <<b>> PROVE Finished' = Finished \o <<>> /\ IsList(Finished)
      <4>1. Added(blocks, b, Finished)
        BY <3>2, AddToList, Zenon DEF BlocksInv, Finished
      <4> QED BY <1>4, <4>1 DEF FinishAssembly, Finished, Added
    <3> QED BY <3>1, <3>2 DEF BlocksInv
  <2>2. Finished' = Finished
    BY <2>1, NoList
  <2> QED BY <1>4, <2>2, BlocksStay DEF FinishAssembly
<1>5. CASE FetchWave
  BY <1>5, BlocksStay DEF FetchWave, Finished, assembly
<1>6. CASE ApplySunat
  BY <1>6, ApplySunatStep
<1>7. CASE ReadStamp \/ ReadStampsInBatch \/ NormalizeDates
  BY <1>7, BlocksStay DEF ReadStamp, ReadStampsInBatch, NormalizeDates, Finished, assembly
<1>8. CASE Normalize \/ Reconcile
  BY <1>8, BlocksStay DEF Normalize, Reconcile, Finished, assembly
<1>9. CASE WriteCache \/ WriteSidecar \/ AppendAudit
  BY <1>9, BlocksStay DEF WriteCache, WriteSidecar, AppendAudit, Finished, assembly, locals
<1>10. CASE Fail
  BY <1>10, NoList DEF Fail, Forget, Finished, BlocksInv
<1>11. CASE Retry
  BY <1>11, BlocksStay DEF Retry, Finished, assembly, locals
<1>12. CASE UNCHANGED vars
  BY <1>12, BlocksStay DEF vars, Finished, assembly, locals
<1> QED
  BY <1>1, <1>2, <1>3, <1>4, <1>5, <1>6, <1>7, <1>8, <1>9, <1>10, <1>11, <1>12 DEF Next

LEMMA BlocksInvInit ==
  Init => PagesInv /\ BlocksInv
BY NoList DEF Init, Fresh, PagesInv, Stage, Before, BlocksInv, Finished

LEMMA BlocksInvSuffices ==
  ASSUME BlocksInv
  PROVE  BlocksAreRuns
<1>1. \A b \in Range(Finished) :
        /\ \A p \in Range(b.source_pages) : page_to_registro(p) = b.registro
        /\ b.identity_source = "qr" => \A p \in Range(b.source_pages) : Pages[p].qr = b.guia_id
        /\ b.identity_source = "ocr_fallback" => Len(b.source_pages) = 1
  <2> SUFFICES ASSUME NEW b \in Range(Finished)
               PROVE  /\ \A p \in Range(b.source_pages) : page_to_registro(p) = b.registro
                      /\ b.identity_source = "qr" =>
                           \A p \in Range(b.source_pages) : Pages[p].qr = b.guia_id
                      /\ b.identity_source = "ocr_fallback" => Len(b.source_pages) = 1
    OBVIOUS
  <2>1. Placed(b)
    BY DEF BlocksInv
  <2>2. b.identity_source = "ocr_fallback" =>
          \E p \in Range(b.source_pages) : b.source_pages = <<p>>
    BY <2>1 DEF Placed
  <2>3. \A p : Len(<<p>>) = 1
    OBVIOUS
  <2> QED BY <2>1, <2>2, <2>3 DEF Placed
<1>2. DOMAIN Finished = 1 .. Len(Finished) /\ Len(Finished) \in Nat
  <2>1. CASE block = <<>>
    BY <2>1, NoList, LenProperties DEF BlocksInv, Finished, IsList
  <2>2. ASSUME NEW b, block = <<b>> PROVE <1>2
    <3>1. Added(blocks, b, Finished)
      BY <2>2, AddToList, Zenon DEF BlocksInv, Finished
    <3> QED BY <3>1, LenProperties DEF Added, IsList
  <2> QED BY <2>1, <2>2 DEF BlocksInv
<1> QED BY <1>1, <1>2 DEF BlocksAreRuns, BlocksInv, Separate, Differ, Range

(* In every document and however often a run fails: a block is one guía of one
   registro, a page without a compact QR is alone in its block, and the next
   block is another guía or of another registro. *)
THEOREM BlocksAlwaysRuns == Spec => []BlocksAreRuns
<1>1. Init => PagesInv /\ BlocksInv
  BY BlocksInvInit
<1>2. PagesInv /\ BlocksInv /\ [Next]_vars => PagesInv' /\ BlocksInv'
  BY PagesInvStep, BlocksInvStep
<1>3. BlocksInv => BlocksAreRuns
  BY BlocksInvSuffices
<1> QED BY <1>1, <1>2, <1>3, PTL DEF Spec

-----------------------------------------------------------------------------
(* The cap of the vision model. *)

After == {"normalize", "reconcile", "cache", "sidecar", "audit", "done"}

(* The guías gs of the first of the blocks bs, in their order, after n calls:
   the calls come first, a guía beyond them has no reading. *)
Read(gs, bs, n) ==
  /\ IsList(gs) /\ Len(gs) <= Len(bs)
  /\ n \in 0 .. Len(gs) /\ n <= MaxVisionCalls
  /\ n < MaxVisionCalls => n = Len(gs)
  /\ \A i \in 1 .. Len(gs) :
       /\ {"fecha_raw", "source_pages"} \subseteq DOMAIN gs[i]
       /\ gs[i].source_pages = bs[i].source_pages
       /\ i > n => gs[i].fecha_raw = None

CapInv ==
  /\ Read(guias, blocks, calls)
  /\ stage \in Before \cup {"assemble", "sunat"} => Len(guias) = 0
  /\ stage \in After => Len(guias) = Len(blocks)

LEMMA FunctionIsList ==
  ASSUME NEW n \in Nat, NEW f, f = [i \in 1 .. n |-> f[i]]
  PROVE  IsList(f) /\ Len(f) = n
<1>1. f \in [1 .. n -> Range(f)] /\ DOMAIN f = 1 .. n
  BY DEF Range
<1>2. f \in Seq(Range(f))
  BY <1>1, SeqDef
<1>3. Len(f) = n
  BY <1>1, <1>2, LenProperties
<1> QED BY <1>2, <1>3 DEF IsList

LEMMA ListIsFunction ==
  \A s : IsList(s) => DOMAIN s = 1 .. Len(s) /\ Len(s) \in Nat
BY LenProperties DEF IsList

\* Steps that neither add a guía nor touch a reading.
LEMMA CapStays ==
  ASSUME CapInv, UNCHANGED <<blocks, calls>>,
         IsList(guias'), Len(guias') = Len(guias),
         \A i \in 1 .. Len(guias) :
           /\ DOMAIN guias[i] \subseteq DOMAIN guias'[i]
           /\ guias'[i].source_pages = guias[i].source_pages
           /\ guias'[i].fecha_raw = guias[i].fecha_raw,
         stage' \in Before \cup {"assemble", "sunat"} => Len(guias) = 0,
         stage' \in After => Len(guias) = Len(blocks)
  PROVE  CapInv'
<1> Read(guias', blocks, calls)
  BY DEF CapInv, Read
<1> QED BY DEF CapInv

\* Before the guías are read.
LEMMA CapEmpty ==
  ASSUME IsList(blocks'), guias' = <<>>, calls' = 0, stage' \notin After
  PROVE  CapInv'
<1>1. IsList(<<>>) /\ Len(<<>>) = 0 /\ Len(blocks') \in Nat
  BY NoList, EmptySeq, ListIsFunction
<1>2. Read(<<>>, blocks', 0)
  BY <1>1, CapAssumption DEF Read
<1> QED BY <1>1, <1>2 DEF CapInv

\* The next guía, with what was read of it or without.
LEMMA GuiaRead ==
  \A b, reading : LET g == Guia(b, reading)
                  IN /\ {"fecha_raw", "source_pages"} \subseteq DOMAIN g
                     /\ g.source_pages = b.source_pages
                     /\ g.fecha_raw = reading.raw
BY DEF Guia

LEMMA ReadStampStep ==
  ASSUME CapInv, IsList(blocks), ReadStamp
  PROVE  CapInv'
<1> DEFINE n == Len(guias) + 1
           b == blocks[n]
<1>1. PICK g : /\ guias' = Append(guias, g)
               /\ \/ /\ calls < MaxVisionCalls /\ calls' = calls + 1
                     /\ \E reading \in Readings : g = Guia(b, reading)
                  \/ /\ calls >= MaxVisionCalls /\ calls' = calls
                     /\ g = Guia(b, NullReading)
  BY DEF ReadStamp
<1>2. Len(guias) < Len(blocks) /\ stage = "vision" /\ stage' = "vision" /\ blocks' = blocks
  BY DEF ReadStamp, assembly
<1>3. /\ Len(guias) \in Nat /\ Len(blocks) \in Nat
      /\ IsList(guias') /\ Len(guias') = n
      /\ \A i \in 1 .. Len(guias) : guias'[i] = guias[i]
      /\ guias'[n] = g
  <2>1. Added(guias, g, guias \o <<g>>)
    BY AddToList, Zenon DEF CapInv, Read
  <2>2. Append(guias, g) = guias \o <<g>>
    BY DEF CapInv, Read, IsList
  <2> QED BY <1>1, <2>1, <2>2, ListIsFunction DEF Added
<1>4. /\ {"fecha_raw", "source_pages"} \subseteq DOMAIN g
      /\ g.source_pages = b.source_pages
      /\ calls >= MaxVisionCalls => g.fecha_raw = None
  BY <1>1, GuiaRead, CapAssumption DEF CapInv, Read, NullReading
<1>5. /\ calls' \in 0 .. n /\ calls' <= MaxVisionCalls
      /\ calls' < MaxVisionCalls => calls' = n
      /\ calls <= calls'
      /\ n > calls' => calls >= MaxVisionCalls
  BY <1>1, <1>3, CapAssumption DEF CapInv, Read
<1>6. Read(guias', blocks, calls')
  <2>1. \A i \in 1 .. n :
          /\ {"fecha_raw", "source_pages"} \subseteq DOMAIN guias'[i]
          /\ guias'[i].source_pages = blocks[i].source_pages
          /\ i > calls' => guias'[i].fecha_raw = None
    BY <1>3, <1>4, <1>5 DEF CapInv, Read
  <2> QED BY <1>2, <1>3, <1>5, <2>1 DEF Read
<1> QED BY <1>2, <1>3, <1>6 DEF CapInv, Before, After

LEMMA ReadStampsInBatchStep ==
  ASSUME CapInv, IsList(blocks), ReadStampsInBatch
  PROVE  CapInv'
<1> DEFINE m == Min({MaxVisionCalls, Len(blocks)})
           allowed == 1 .. m
<1>1. Len(blocks) \in Nat /\ blocks' = blocks /\ stage = "vision" /\ stage' = "vision"
  BY ListIsFunction DEF ReadStampsInBatch, assembly
<1>2. m \in Nat /\ m <= MaxVisionCalls /\ m <= Len(blocks)
      /\ (m = MaxVisionCalls \/ m = Len(blocks))
  BY <1>1, CapAssumption DEF Min
<1> HIDE DEF m
<1>3. calls' = m
  BY <1>2, FS_Interval DEF ReadStampsInBatch, m
<1>4. PICK readings :
        guias' = [i \in DOMAIN blocks |->
                    Guia(blocks[i], IF i \in allowed THEN readings[i] ELSE NullReading)]
  BY DEF ReadStampsInBatch, m
<1>5. DOMAIN blocks = 1 .. Len(blocks)
  BY ListIsFunction
<1>6. IsList(guias') /\ Len(guias') = Len(blocks)
  <2> DEFINE f == [i \in 1 .. Len(blocks) |->
                     Guia(blocks[i], IF i \in allowed THEN readings[i] ELSE NullReading)]
  <2>1. f = [i \in 1 .. Len(blocks) |-> f[i]]
    OBVIOUS
  <2>2. guias' = f
    BY <1>4, <1>5
  <2> HIDE DEF f
  <2> QED BY <1>1, <2>1, <2>2, FunctionIsList
<1>7. \A i \in 1 .. Len(blocks) :
        /\ {"fecha_raw", "source_pages"} \subseteq DOMAIN guias'[i]
        /\ guias'[i].source_pages = blocks[i].source_pages
        /\ i > m => guias'[i].fecha_raw = None
  <2> SUFFICES ASSUME NEW i \in 1 .. Len(blocks)
               PROVE  /\ {"fecha_raw", "source_pages"} \subseteq DOMAIN guias'[i]
                      /\ guias'[i].source_pages = blocks[i].source_pages
                      /\ i > m => guias'[i].fecha_raw = None
    OBVIOUS
  <2>1. PICK reading : guias'[i] = Guia(blocks[i], reading) /\ (i > m => reading = NullReading)
    <3>1. i > m => i \notin allowed
      BY <1>2
    <3> QED BY <1>4, <1>5, <3>1
  <2> QED BY <2>1, GuiaRead DEF NullReading
<1>8. Read(guias', blocks, m)
  BY <1>1, <1>2, <1>6, <1>7 DEF Read
<1> QED BY <1>1, <1>3, <1>8 DEF CapInv, Before, After

\* A date may be moved, never a reading.
LEMMA DatedKeeps ==
  ASSUME NEW g, {"fecha_raw", "source_pages"} \subseteq DOMAIN g
  PROVE  /\ DOMAIN Dated(g) = DOMAIN g
         /\ Dated(g).source_pages = g.source_pages
         /\ Dated(g).fecha_raw = g.fecha_raw
BY DEF Dated

LEMMA NormalizeDatesStep ==
  ASSUME CapInv, NormalizeDates
  PROVE  CapInv'
<1>1. /\ UNCHANGED <<blocks, calls>> /\ stage' = "normalize" /\ Len(guias) = Len(blocks)
      /\ guias' = [i \in DOMAIN guias |-> Dated(guias[i])]
  BY DEF NormalizeDates, assembly
<1>2. DOMAIN guias = 1 .. Len(guias) /\ Len(guias) \in Nat
  BY ListIsFunction DEF CapInv, Read
<1>3. IsList(guias') /\ Len(guias') = Len(guias)
  <2>1. guias' = [i \in 1 .. Len(guias) |-> guias'[i]]
    BY <1>1, <1>2
  <2> QED BY <1>2, <2>1, FunctionIsList
<1>4. \A i \in 1 .. Len(guias) :
        /\ DOMAIN guias[i] \subseteq DOMAIN guias'[i]
        /\ guias'[i].source_pages = guias[i].source_pages
        /\ guias'[i].fecha_raw = guias[i].fecha_raw
  BY <1>1, <1>2, DatedKeeps DEF CapInv, Read
<1> QED BY <1>1, <1>3, <1>4, CapStays DEF Before

LEMMA NormalizeStep ==
  ASSUME CapInv, Normalize
  PROVE  CapInv'
<1>1. PICK answered : guias' = NormalizedLines(2, guias, answered)
  BY DEF Normalize
<1>2. UNCHANGED <<blocks, calls>> /\ stage = "normalize" /\ stage' = "reconcile"
  BY DEF Normalize, assembly
<1>3. DOMAIN guias = 1 .. Len(guias) /\ Len(guias) \in Nat
  BY ListIsFunction DEF CapInv, Read
<1>4. guias' = [i \in 1 .. Len(guias) |-> guias'[i]]
  BY <1>1, <1>3 DEF NormalizedLines
<1>5. IsList(guias') /\ Len(guias') = Len(guias)
  BY <1>3, <1>4, FunctionIsList
<1>6. \A i \in 1 .. Len(guias) :
        \E lines : guias'[i] = [guias[i] EXCEPT !.lines = lines]
  BY <1>1, <1>3 DEF NormalizedLines
<1>7. \A i \in 1 .. Len(guias) :
        /\ DOMAIN guias[i] \subseteq DOMAIN guias'[i]
        /\ guias'[i].source_pages = guias[i].source_pages
        /\ guias'[i].fecha_raw = guias[i].fecha_raw
  BY <1>6 DEF CapInv, Read
<1> QED BY <1>2, <1>5, <1>7, CapStays DEF CapInv, Before, After

LEMMA CapInvStep ==
  ASSUME IsList(blocks), IsList(blocks'), CapInv, [Next]_vars
  PROVE  CapInv'
<1>0. Len(guias) = 0 => guias = <<>> /\ calls = 0
  BY EmptySeq DEF CapInv, Read, IsList
<1>1. CASE Decode \/ Classify \/ ExtractDeclared \/ ExtractOcr
  BY <1>0, <1>1, CapEmpty DEF Decode, Classify, ExtractDeclared, ExtractOcr, CapInv, Before, After
<1>2. CASE AssemblePage \/ FinishAssembly
  BY <1>0, <1>2, CapEmpty DEF AssemblePage, FinishAssembly, CapInv, After
<1>3. CASE FetchWave \/ ApplySunat
  BY <1>0, <1>3, CapEmpty DEF FetchWave, ApplySunat, CapInv, After
<1>4. CASE ReadStamp \/ ReadStampsInBatch
  BY <1>4, ReadStampStep, ReadStampsInBatchStep
<1>5. CASE NormalizeDates \/ Normalize
  BY <1>5, NormalizeDatesStep, NormalizeStep
<1>6. CASE Reconcile
  BY <1>6 DEF Reconcile, CapInv, assembly, Before, After
<1>7. CASE WriteCache \/ WriteSidecar \/ AppendAudit
  BY <1>7 DEF WriteCache, WriteSidecar, AppendAudit, CapInv, assembly, locals, Before, After
<1>8. CASE Fail
  BY <1>8, CapEmpty DEF Fail, Forget, After
<1>9. CASE Retry
  BY <1>9 DEF Retry, CapInv, assembly, locals, Before, After
<1>10. CASE UNCHANGED vars
  BY <1>10 DEF vars, CapInv, assembly, locals
<1> QED
  BY <1>1, <1>2, <1>3, <1>4, <1>5, <1>6, <1>7, <1>8, <1>9, <1>10 DEF Next

LEMMA CapInvInit ==
  Init => CapInv
<1>1. IsList(<<>>) /\ Len(<<>>) = 0
  BY NoList, EmptySeq
<1>2. Read(<<>>, <<>>, 0)
  BY <1>1, CapAssumption DEF Read
<1> QED BY <1>1, <1>2 DEF Init, Fresh, CapInv, After

(* Whatever way an adapter reads stamps, the model is asked at most
   MaxVisionCalls times, a guía beyond that has no reading, and each block has
   its guía in the end. *)
THEOREM VisionStaysWithinCap == Spec => []VisionWithinCap
<1>1. Init => PagesInv /\ BlocksInv /\ CapInv
  BY BlocksInvInit, CapInvInit
<1>2. PagesInv /\ BlocksInv /\ CapInv /\ [Next]_vars => (PagesInv /\ BlocksInv /\ CapInv)'
  <2>1. BlocksInv => IsList(blocks)
    BY DEF BlocksInv
  <2>2. BlocksInv' => IsList(blocks')
    BY DEF BlocksInv
  <2> QED BY <2>1, <2>2, PagesInvStep, BlocksInvStep, CapInvStep
<1>3. CapInv => VisionWithinCap
  BY ListIsFunction DEF CapInv, Read, VisionWithinCap, After
<1> QED BY <1>1, <1>2, <1>3, PTL DEF Spec

-----------------------------------------------------------------------------
(* The year of a date. *)

Century == 2000 .. 2100

\* A date is its year with its month and day.
LEMMA DateParts ==
  ASSUME NEW date \in Nat
  PROVE  /\ YearOf(date) \in Nat /\ MonthDay(date) \in MonthDays
         /\ DateOf(YearOf(date), MonthDay(date)) = date
<1>1. YearOf(date) \in Nat
  BY DEF YearOf
<1>2. MonthDay(date) \in MonthDays
  BY DEF MonthDay, MonthDays
<1>3. DateOf(YearOf(date), MonthDay(date)) = date
  BY DEF YearOf, MonthDay, DateOf
<1> QED BY <1>1, <1>2, <1>3

LEMMA PartsOfDate ==
  ASSUME NEW year \in Nat, NEW monthDay \in MonthDays
  PROVE  /\ DateOf(year, monthDay) \in Nat
         /\ YearOf(DateOf(year, monthDay)) = year
         /\ MonthDay(DateOf(year, monthDay)) = monthDay
         /\ DateOf(year, monthDay) % 100 = monthDay % 100
<1>1. DateOf(year, monthDay) \in Nat
  BY DEF MonthDays, DateOf
<1>2. YearOf(DateOf(year, monthDay)) = year
  BY DEF MonthDays, YearOf, DateOf
<1>3. MonthDay(DateOf(year, monthDay)) = monthDay
  BY DEF MonthDays, MonthDay, DateOf
<1>4. DateOf(year, monthDay) % 100 = monthDay % 100
  BY DEF MonthDays, DateOf
<1> QED BY <1>1, <1>2, <1>3, <1>4

LEMMA DatesByYear ==
  ASSUME NEW x \in Nat, NEW y \in Nat, NEW m \in MonthDays, NEW n \in MonthDays
  PROVE  x < y => DateOf(x, m) < DateOf(y, n)
BY DEF DateOf, MonthDays

\* Between 2000 and 2100 one of the last four years was a leap year.
LEMMA LeapYearNear ==
  ASSUME NEW year \in Century
  PROVE  \E leap \in year - 4 .. year - 1 : IsLeap(leap)
<1> DEFINE leap == 4 * ((year - 1) \div 4)
<1>1. leap \in year - 4 .. year - 1
  BY DEF Century
<1>2. leap % 4 = 0
  BY DEF Century
<1>3. leap % 100 # 0 \/ leap = 2000
  BY DEF Century
<1>4. leap = 2000 => leap % 400 = 0
  BY DEF Century
<1>5. leap % 100 # 0 \/ leap % 400 = 0
  BY <1>3, <1>4
<1> HIDE DEF leap
<1>6. IsLeap(leap)
  BY <1>2, <1>5 DEF IsLeap
<1> QED BY <1>1, <1>6

\* The month of the day and month m has that day in year y.
HasDay(y, m) == m \div 100 \in 1 .. 12 /\ m % 100 \in 1 .. DaysIn(m \div 100, y)

LEMMA IsDateOf ==
  ASSUME NEW y \in Nat, NEW m \in MonthDays
  PROVE  IsDate(DateOf(y, m)) <=> 1 <= y /\ y <= 9999 /\ HasDay(y, m)
<1> DEFINE d == DateOf(y, m)
<1>1. YearOf(d) = y
  BY PartsOfDate
<1>2. MonthDay(d) = m
  BY PartsOfDate
<1>3. d % 100 = m % 100
  BY PartsOfDate
<1> HIDE DEF d
<1>4. IsDate(d) <=>
        /\ y \in 1 .. 9999
        /\ m \div 100 \in 1 .. 12
        /\ m % 100 \in 1 .. DaysIn(m \div 100, y)
  BY <1>1, <1>2, <1>3 DEF IsDate
<1>5. y \in 1 .. 9999 <=> 1 <= y /\ y <= 9999
  OBVIOUS
<1> QED BY <1>4, <1>5 DEF d, HasDay

\* Whether a month has a day is a matter of the year only in February.
LEMMA DaysOfMonth ==
  ASSUME NEW x \in Nat, NEW y \in Nat, NEW m \in MonthDays,
         IsLeap(y), IsDate(DateOf(x, m))
  PROVE  1 <= y /\ y <= 9999 => IsDate(DateOf(y, m))
<1>1. HasDay(x, m)
  BY IsDateOf
<1>2. \A month : DaysIn(month, x) \in Nat /\ DaysIn(month, y) \in Nat
                  /\ DaysIn(month, x) <= DaysIn(month, y)
  BY DEF DaysIn
<1>3. HasDay(y, m)
  BY <1>1, <1>2 DEF HasDay
<1> QED BY <1>3, IsDateOf

(* What was a date in an earlier year was one again in one of the five years
   before this one. *)
LEMMA RecentDate ==
  ASSUME NEW year \in Century, NEW old \in Nat, old < year, NEW m \in MonthDays,
         IsDate(DateOf(old, m))
  PROVE  \E recent \in year - 5 .. year - 1 : old <= recent /\ IsDate(DateOf(recent, m))
<1>2. CASE old >= year - 5
  BY <1>2 DEF Century
<1>3. CASE old < year - 5
  <2>1. PICK leap \in year - 4 .. year - 1 : IsLeap(leap)
    BY LeapYearNear
  <2>2. leap \in Nat /\ 1 <= leap /\ leap <= 9999
    BY <2>1 DEF Century
  <2>3. IsDate(DateOf(leap, m))
    BY <2>1, <2>2, DaysOfMonth
  <2> QED BY <1>3, <2>1, <2>3 DEF Century
<1> QED BY <1>2, <1>3 DEF Century

\* The stamp's day and month m in year make a date that may be right.
Fits(year, m, lower) ==
  /\ IsDate(DateOf(year, m))
  /\ DateOf(year, m) <= Today
  /\ NotBefore(DateOf(year, m), lower)

ThisYear == YearOf(Today)
Bound == Nat \cup {None}

LEMMA TodayParts ==
  /\ ThisYear \in Nat /\ ThisYear \in Century /\ MonthDay(Today) \in MonthDays
  /\ Today \in Nat /\ Today = DateOf(ThisYear, MonthDay(Today))
<1>1. Today \in Nat
  BY TodayAssumption
<1>2. ThisYear \in Century
  BY TodayAssumption DEF ThisYear, Century
<1> QED BY <1>1, <1>2, DateParts DEF ThisYear

LEMMA StampParts ==
  /\ None \notin Nat /\ None \notin MonthDays
  /\ \A reading \in Readings :
       /\ reading.raw \in MonthDays \cup {None}
       /\ reading.date # None =>
            /\ reading.date \in Nat /\ IsDate(reading.date)
            /\ reading.raw = MonthDay(reading.date)
<1>1. MonthDays \subseteq Int
  BY DEF MonthDays
<1>2. None \notin Nat /\ None \notin MonthDays
  <2>1. None \notin Int
    BY DeliveryAssumption
  <2>2. Nat \subseteq Int
    OBVIOUS
  <2> QED BY <1>1, <2>1, <2>2, Zenon
<1>3. ASSUME NEW reading \in Readings PROVE reading.raw \in MonthDays \cup {None}
  BY ReadingAssumption
<1>4. ASSUME NEW reading \in Readings, reading.date # None
      PROVE  /\ reading.date \in Nat /\ IsDate(reading.date)
             /\ reading.raw = MonthDay(reading.date)
  BY <1>4, ReadingAssumption
<1> QED BY <1>2, <1>3, <1>4

LEMMA NoneLater ==
  ASSUME NEW y \in Nat, NEW m \in MonthDays, NEW lower, Fits(y, m, lower)
  PROVE  y <= ThisYear
<1>1. DateOf(y, m) \in Nat /\ DateOf(y, m) <= Today
  BY PartsOfDate DEF Fits
<1>2. ThisYear < y => Today < DateOf(y, m)
  BY TodayParts, DatesByYear
<1> QED BY <1>1, <1>2, TodayParts

\* What fits in a year fits in one of the years that are tried.
LEMMA FitsNear ==
  ASSUME NEW y \in Nat, NEW m \in MonthDays, NEW lower \in Bound, Fits(y, m, lower)
  PROVE  \E recent \in ThisYear - 5 .. ThisYear : recent \in Nat /\ Fits(recent, m, lower)
<1>1. y <= ThisYear
  BY NoneLater
<1>2. CASE y = ThisYear
  BY <1>2, TodayParts
<1>3. CASE y < ThisYear
  <2>1. PICK recent \in ThisYear - 5 .. ThisYear - 1 :
          y <= recent /\ IsDate(DateOf(recent, m))
    BY <1>3, RecentDate, TodayParts DEF Fits
  <2>2. recent \in Nat /\ recent < ThisYear /\ recent \in ThisYear - 5 .. ThisYear
    BY <2>1, TodayParts
  <2>3. DateOf(recent, m) \in Nat /\ DateOf(y, m) \in Nat
    BY <2>2, PartsOfDate
  <2>4. DateOf(recent, m) <= Today
    <3>1. DateOf(recent, m) < Today
      BY <2>2, TodayParts, DatesByYear
    <3> QED BY <2>3, <3>1, TodayParts
  <2>5. DateOf(y, m) <= DateOf(recent, m)
    <3>1. CASE y = recent
      BY <2>3, <3>1
    <3>2. CASE y < recent
      BY <2>2, <2>3, <3>2, DatesByYear
    <3> QED BY <2>1, <2>2, <3>1, <3>2
  <2>6. NotBefore(DateOf(recent, m), lower)
    BY <2>3, <2>5 DEF Fits, NotBefore, Bound
  <2> QED BY <2>1, <2>2, <2>4, <2>6 DEF Fits
<1> QED BY <1>1, <1>2, <1>3, TodayParts

\* A set of numbers has a least, and one below a bound a greatest element.
LEMMA LeastOf ==
  ASSUME NEW S, S \subseteq Nat, S # {}
  PROVE  \E least \in S : \A x \in S : least <= x
<1>1. PICK least \in S : \A x \in S : <<x, least>> \notin OpToRel(<, Nat)
  BY WFMin, NatLessThanWellFounded, Zenon
<1>2. \A x \in S : ~(x < least)
  BY <1>1, Zenon DEF OpToRel
<1> QED BY <1>2

LEMMA GreatestOf ==
  ASSUME NEW n \in Nat, NEW S, S \subseteq Nat, S # {}, \A x \in S : x <= n
  PROVE  \E greatest \in S : \A x \in S : x <= greatest
<1> DEFINE T == {n - x : x \in S}
<1>1. T \subseteq Nat /\ T # {}
  <2>1. \A x \in S : n - x \in Nat
    OBVIOUS
  <2>2. T # {}
    OBVIOUS
  <2> QED BY <2>1, <2>2
<1>2. PICK t \in T : \A x \in T : t <= x
  BY <1>1, LeastOf
<1>3. PICK greatest \in S : t = n - greatest
  BY <1>2
<1>4. \A x \in S : t <= n - x
  BY <1>2
<1> QED BY <1>3, <1>4

LEMMA CandidateYears ==
  ASSUME NEW m \in MonthDays, NEW lower
  PROVE  \A date : date \in Candidates(m, lower, Today) <=>
           \E y \in ThisYear - 5 .. ThisYear + 1 : date = DateOf(y, m) /\ Fits(y, m, lower)
BY DEF Candidates, YearsBefore, Fits, ThisYear

(* Trying seven years finds the latest date of all that fit, or none fits. *)
LEMMA InferredIsLatest ==
  ASSUME NEW m \in MonthDays, NEW lower \in Bound,
         NEW d, d = infer_reception_year(m, lower, Today)
  PROVE  \/ d = None /\ \A y \in Nat : ~Fits(y, m, lower)
         \/ \E y \in Nat : /\ d = DateOf(y, m) /\ Fits(y, m, lower)
                           /\ \A z \in Nat : z > y => ~Fits(z, m, lower)
<1> DEFINE C == Candidates(m, lower, Today)
           years == {y \in ThisYear - 5 .. ThisYear + 1 : Fits(y, m, lower)}
<1>1. \A date : date \in C <=> \E y \in years : date = DateOf(y, m)
  BY CandidateYears
<1>2. years \subseteq Nat
  BY TodayParts DEF Century
<1>4. \A y \in Nat : Fits(y, m, lower) => y <= ThisYear
  BY NoneLater
<1>5. (\E y \in Nat : Fits(y, m, lower)) => years # {}
  <2> SUFFICES ASSUME NEW y \in Nat, Fits(y, m, lower) PROVE years # {}
    OBVIOUS
  <2>1. PICK recent \in ThisYear - 5 .. ThisYear : Fits(recent, m, lower)
    BY FitsNear
  <2>2. recent \in ThisYear - 5 .. ThisYear + 1
    BY TodayParts
  <2> QED BY <2>1, <2>2
<1>6. d = IF C = {} THEN None ELSE CHOOSE latest \in C : \A date \in C : date <= latest
  BY DEF infer_reception_year
<1>7. years \subseteq ThisYear - 5 .. ThisYear + 1
  OBVIOUS
<1>8. \A y \in years : Fits(y, m, lower)
  OBVIOUS
<1>9. \A y : y \in ThisYear - 5 .. ThisYear + 1 /\ Fits(y, m, lower) => y \in years
  OBVIOUS
<1> HIDE DEF C, years
<1>10. CASE years = {}
  BY <1>1, <1>5, <1>6, <1>10
<1>11. CASE years # {}
  <2>1. PICK last \in years : \A y \in years : y <= last
    <3>1. \A y \in years : y <= ThisYear + 1
      BY <1>7, TodayParts
    <3>2. ThisYear + 1 \in Nat
      BY TodayParts
    <3> QED BY <1>2, <1>11, <3>1, <3>2, GreatestOf
  <2>2. \A y \in years : DateOf(y, m) \in Nat /\ DateOf(y, m) <= DateOf(last, m)
    <3> SUFFICES ASSUME NEW y \in years
                 PROVE  DateOf(y, m) \in Nat /\ DateOf(y, m) <= DateOf(last, m)
      OBVIOUS
    <3>1. y \in Nat /\ last \in Nat /\ y <= last
      BY <1>2, <2>1
    <3>2. DateOf(y, m) \in Nat /\ DateOf(last, m) \in Nat
      BY <3>1, PartsOfDate
    <3>3. y < last => DateOf(y, m) < DateOf(last, m)
      BY <3>1, DatesByYear
    <3> QED BY <3>1, <3>2, <3>3
  <2>3. \E latest \in C : \A date \in C : date <= latest
    BY <1>1, <2>1, <2>2
  <2>4. d \in C /\ \A date \in C : date <= d
    BY <1>6, <2>3
  <2>5. PICK y \in years : d = DateOf(y, m)
    BY <1>1, <2>4
  <2>6. y \in Nat /\ Fits(y, m, lower)
    BY <1>2, <1>8
  <2>7. ASSUME NEW z \in Nat, z > y, Fits(z, m, lower) PROVE FALSE
    <3>1. z <= ThisYear
      BY <1>4, <2>7
    <3>2. z \in ThisYear - 5 .. ThisYear + 1
      BY <1>7, <2>7, <3>1, TodayParts
    <3>3. DateOf(z, m) \in C
      BY <1>1, <1>9, <2>7, <3>2
    <3>4. DateOf(z, m) <= DateOf(y, m)
      BY <2>4, <2>5, <3>3
    <3>5. DateOf(y, m) < DateOf(z, m)
      BY <2>6, <2>7, DatesByYear
    <3>6. DateOf(y, m) \in Nat /\ DateOf(z, m) \in Nat
      BY <2>6, PartsOfDate
    <3> QED BY <3>4, <3>5, <3>6
  <2> QED BY <2>5, <2>6, <2>7
<1> QED BY <1>10, <1>11

-----------------------------------------------------------------------------
(* The date of a guía. *)

\* A guía as its stamp was read, before its date is normalised.
HasDates(g) ==
  {"fecha", "fecha_raw", "fecha_entrega", "year_inferred", "delivery_floor_applied"}
    \subseteq DOMAIN g

Stamped(g) ==
  /\ HasDates(g)
  /\ g.fecha_raw \in MonthDays \cup {None}
  /\ g.fecha # None =>
       g.fecha \in Nat /\ IsDate(g.fecha) /\ g.fecha_raw = MonthDay(g.fecha)
  /\ ~g.delivery_floor_applied

\* DatesAreLatest, of one guía.
LatestDate(g) ==
  /\ g.fecha \in Bound
  /\ g.fecha = None => g.fecha_entrega = None
  /\ g.delivery_floor_applied =>
       /\ g.fecha = g.fecha_entrega
       /\ g.fecha_raw # None =>
            \A year \in 2000 .. 2100 : ~Fits(year, g.fecha_raw, g.fecha_entrega)
  /\ g.fecha # None /\ ~g.delivery_floor_applied =>
       /\ MonthDay(g.fecha) = g.fecha_raw
       /\ Fits(YearOf(g.fecha), g.fecha_raw, g.fecha_entrega)
       /\ \A year \in YearOf(g.fecha) + 1 .. 2100 :
            ~Fits(year, g.fecha_raw, g.fecha_entrega)

\* Without a delivery date, what was ever a date fits some year.
LEMMA SomeYearFits ==
  ASSUME NEW date \in Nat, IsDate(date)
  PROVE  \E y \in Nat : Fits(y, MonthDay(date), None)
<1> DEFINE m == MonthDay(date)
<1>1. PICK leap \in ThisYear - 4 .. ThisYear - 1 : IsLeap(leap)
  BY LeapYearNear, TodayParts
<1>2. leap \in Nat /\ 1 <= leap /\ leap <= 9999 /\ leap < ThisYear
  BY <1>1, TodayParts DEF Century
<1>3. YearOf(date) \in Nat /\ m \in MonthDays /\ DateOf(YearOf(date), m) = date
  BY DateParts
<1> HIDE DEF m
<1>5. IsDate(DateOf(leap, m))
  <2>1. PICK year \in Nat : IsDate(DateOf(year, m))
    BY <1>3
  <2> QED BY <1>1, <1>2, <1>3, <2>1, DaysOfMonth
<1>6. DateOf(leap, m) <= Today
  <2>1. DateOf(leap, m) < Today
    BY <1>2, <1>3, TodayParts, DatesByYear
  <2>2. DateOf(leap, m) \in Nat
    BY <1>2, <1>3, PartsOfDate
  <2> QED BY <2>1, <2>2, TodayParts
<1>7. Fits(leap, m, None)
  BY <1>5, <1>6 DEF Fits, NotBefore
<1> QED BY <1>2, <1>7 DEF m

\* What Dated makes of a guía whose delivery is on lower and whose date is resolved.
LEMMA DatedFields ==
  ASSUME NEW g, Stamped(g), NEW h, h = Dated(g)
  PROVE  LET lower == DeliveryOf(g)
             inferred == IF g.fecha_raw = None THEN None
                         ELSE infer_reception_year(g.fecha_raw, lower, Today)
             resolved == apply_delivery_floor(inferred, lower)
         IN /\ HasDates(h)
            /\ h.fecha_raw = g.fecha_raw /\ h.fecha_entrega = lower
            /\ h.fecha = IF resolved = None THEN g.fecha ELSE resolved
            /\ h.delivery_floor_applied =
                 IF resolved = None THEN g.delivery_floor_applied
                 ELSE IsFloored(inferred, lower)
<1>1. (IF g.fecha # None THEN MonthDay(g.fecha) ELSE g.fecha_raw) = g.fecha_raw
  BY DEF Stamped
<1> QED BY <1>1 DEF Stamped, HasDates, Dated

LEMMA DatedIsLatest ==
  ASSUME NEW g, Stamped(g), DeliveryOf(g) \in Bound, NEW h, h = Dated(g)
  PROVE  LatestDate(h)
<1> DEFINE lower == DeliveryOf(g)
           inferred == IF g.fecha_raw = None THEN None
                       ELSE infer_reception_year(g.fecha_raw, lower, Today)
           resolved == apply_delivery_floor(inferred, lower)
<1>1. /\ h.fecha_raw = g.fecha_raw /\ h.fecha_entrega = lower
      /\ h.fecha = IF resolved = None THEN g.fecha ELSE resolved
      /\ h.delivery_floor_applied =
           IF resolved = None THEN g.delivery_floor_applied ELSE IsFloored(inferred, lower)
  BY DatedFields
<1>2. /\ resolved = IF IsFloored(inferred, lower) THEN lower ELSE inferred
      /\ IsFloored(inferred, lower) <=>
           lower # None /\ (inferred = None \/ inferred < lower)
  BY DEF apply_delivery_floor, IsFloored
<1>3. /\ lower \in Nat \cup {None} /\ None \notin Nat
      /\ g.fecha_raw \in MonthDays \cup {None}
      /\ ~g.delivery_floor_applied
  BY StampParts DEF Bound, Stamped
<1>4. g.fecha_raw = None => inferred = None /\ g.fecha = None
  <2>1. None \notin MonthDays
    BY StampParts
  <2>2. g.fecha # None => MonthDay(g.fecha) \in MonthDays
    BY DateParts DEF Stamped
  <2> QED BY <2>1, <2>2 DEF Stamped
<1>5. g.fecha_raw # None =>
        inferred = infer_reception_year(g.fecha_raw, lower, Today)
  OBVIOUS
<1>6. lower = DeliveryOf(g)
  OBVIOUS
<1> HIDE DEF inferred, resolved, lower
<1>7. CASE inferred = None /\ \A y \in Nat : g.fecha_raw # None => ~Fits(y, g.fecha_raw, lower)
  <2>1. CASE lower # None
    <3>1. /\ h.fecha_raw = g.fecha_raw /\ h.fecha_entrega = lower
          /\ h.fecha = lower /\ h.fecha # None /\ h.delivery_floor_applied
      BY <1>1, <1>2, <1>7, <2>1
    <3>2. \A year \in 2000 .. 2100 : year \in Nat
      OBVIOUS
    <3> QED BY <1>3, <1>7, <3>1, <3>2 DEF LatestDate, Bound
  <2>2. CASE lower = None
    <3>1. /\ h.fecha_raw = g.fecha_raw /\ h.fecha_entrega = None
          /\ h.fecha = g.fecha /\ ~h.delivery_floor_applied
      BY <1>1, <1>2, <1>3, <1>7, <2>2
    <3>2. g.fecha = None
      <4> SUFFICES ASSUME g.fecha # None PROVE FALSE
        OBVIOUS
      <4>1. PICK y \in Nat : Fits(y, MonthDay(g.fecha), None)
        BY SomeYearFits DEF Stamped
      <4> QED BY <1>4, <1>7, <2>2, <4>1 DEF Stamped
    <3> QED BY <3>1, <3>2 DEF LatestDate, Bound
  <2> QED BY <2>1, <2>2
<1>8. ASSUME g.fecha_raw # None,
             NEW y \in Nat, inferred = DateOf(y, g.fecha_raw), Fits(y, g.fecha_raw, lower),
             \A z \in Nat : z > y => ~Fits(z, g.fecha_raw, lower)
      PROVE  LatestDate(h)
  <2>1. g.fecha_raw \in MonthDays
    BY <1>3, <1>8
  <2>2. /\ inferred \in Nat /\ YearOf(inferred) = y /\ MonthDay(inferred) = g.fecha_raw
    BY <1>8, <2>1, PartsOfDate
  <2>3. ~IsFloored(inferred, lower)
    BY <1>2, <1>3, <1>8, <2>2 DEF Fits, NotBefore
  <2>4. /\ h.fecha_raw = g.fecha_raw /\ h.fecha_entrega = lower
        /\ h.fecha = inferred /\ h.fecha # None /\ ~h.delivery_floor_applied
    BY <1>1, <1>2, <1>3, <2>2, <2>3
  <2>5. \A year \in y + 1 .. 2100 : year \in Nat /\ year > y
    OBVIOUS
  <2> QED BY <1>8, <2>2, <2>4, <2>5 DEF LatestDate, Bound
<1>9. CASE g.fecha_raw = None
  BY <1>4, <1>7, <1>9
<1>10. CASE g.fecha_raw # None
  <2>1. g.fecha_raw \in MonthDays /\ lower \in Bound
    BY <1>3, <1>10 DEF Bound
  <2>2. \/ inferred = None /\ \A y \in Nat : ~Fits(y, g.fecha_raw, lower)
        \/ \E y \in Nat : /\ inferred = DateOf(y, g.fecha_raw) /\ Fits(y, g.fecha_raw, lower)
                          /\ \A z \in Nat : z > y => ~Fits(z, g.fecha_raw, lower)
    BY <1>5, <1>10, <2>1, InferredIsLatest
  <2> QED BY <1>7, <1>8, <1>10, <2>2
<1> QED BY <1>9, <1>10

-----------------------------------------------------------------------------
(* The answers of SUNAT. *)

\* Every URL is first used by one of the blocks.
LEMMA FirstOwner ==
  ASSUME IsList(blocks), NEW u, Owners(blocks, u) # {}
  PROVE  Min(Owners(blocks, u)) \in Nat /\ Min(Owners(blocks, u)) <= Len(blocks)
<1>1. DOMAIN blocks = 1 .. Len(blocks) /\ Len(blocks) \in Nat
  BY ListIsFunction
<1> DEFINE S == Owners(blocks, u)
<1>2. S \subseteq Nat /\ \A i \in S : i <= Len(blocks)
  BY <1>1 DEF Owners
<1>3. \E least \in S : \A x \in S : least <= x
  BY <1>2, LeastOf
<1>4. Min(S) \in S
  BY <1>3 DEF Min
<1> QED BY <1>2, <1>4

LEMMA LastAnsweredIsAnswered ==
  ASSUME IsList(blocks), NEW v \in Answered
  PROVE  LastAnswered(blocks[Owner(v)].guia_id) \in Answered
<1> DEFINE id == blocks[Owner(v)].guia_id
           At(u) == Min(Owners(blocks, u))
           named == {u \in Answered : blocks[Owner(u)].guia_id = id}
           S == {At(u) : u \in named}
<1>1. \A u \in Answered : At(u) \in Nat /\ At(u) <= Len(blocks)
  BY FirstOwner DEF Answered
<1>2. Len(blocks) \in Nat
  BY ListIsFunction
<1>3. v \in named
  OBVIOUS
<1> HIDE DEF At
<1>4. S \subseteq Nat /\ S # {} /\ \A x \in S : x <= Len(blocks)
  BY <1>1, <1>3
<1>5. PICK last \in S : \A x \in S : x <= last
  BY <1>2, <1>4, GreatestOf
<1>6. PICK u \in named : last = At(u)
  BY <1>5
<1>7. \A w \in Answered : blocks[Owner(w)].guia_id = id => At(w) <= At(u)
  BY <1>5, <1>6
<1> QED BY <1>6, <1>7 DEF LastAnswered, At

\* Dates, at each stage: as read from the stamp, then the latest that fits.
DateInv ==
  /\ pending \subseteq Url
  /\ answers \in [Url -> SunatAnswers \cup {None}]
  /\ stage = "vision" =>
       /\ \A id \in DOMAIN sunat_map : sunat_map[id] \in SunatAnswers
       /\ \A i \in DOMAIN guias : Stamped(guias[i])
  /\ stage \in After =>
       \A i \in DOMAIN guias : HasDates(guias[i]) /\ LatestDate(guias[i])

LEMMA AnswersStep ==
  ASSUME DateInv, FetchWave
  PROVE  answers' \in [Url -> SunatAnswers \cup {None}]
<1> DEFINE Got(wave, pdf) ==
             [u \in Url |->
                IF u \in wave THEN [v \in wave |-> IF pdf[v] = Unreadable THEN None ELSE pdf[v]][u]
                ELSE answers[u]]
<1>1. PICK wave \in SUBSET pending :
        \E pdf \in [wave -> Pdf] : answers' = Got(wave, pdf)
  BY DEF FetchWave
<1>2. PICK pdf \in [wave -> Pdf] : answers' = Got(wave, pdf)
  BY <1>1
<1>3. \A u \in wave : (IF pdf[u] = Unreadable THEN None ELSE pdf[u]) \in SunatAnswers \cup {None}
  BY <1>2 DEF Pdf
<1> QED BY <1>2, <1>3 DEF DateInv

LEMMA StampedGuia ==
  ASSUME NEW b, NEW reading, reading \in Readings \/ reading = NullReading
  PROVE  Stamped(Guia(b, reading))
<1> DEFINE g == Guia(b, reading)
<1>1. /\ DOMAIN g = {"guia_id", "identity_source", "registro", "source_pages", "lines",
                     "fecha", "fecha_raw", "fecha_entrega", "year_inferred",
                     "delivery_floor_applied"}
      /\ g.fecha = reading.date /\ g.fecha_raw = reading.raw
      /\ g.delivery_floor_applied = FALSE
  BY DEF Guia
<1>2. /\ reading.raw \in MonthDays \cup {None}
      /\ reading.date # None => /\ IsDate(reading.date) /\ reading.date \in Nat
                                /\ reading.raw = MonthDay(reading.date)
  BY StampParts DEF NullReading
<1> QED BY <1>1, <1>2 DEF Stamped, HasDates

LEMMA DateReadStampStep ==
  ASSUME CapInv, DateInv, ReadStamp
  PROVE  DateInv'
<1>1. PICK g : guias' = Append(guias, g) /\ Stamped(g)
  <2> DEFINE b == blocks[Len(guias) + 1]
  <2>1. CASE \E reading \in Readings : guias' = Append(guias, Guia(b, reading))
    BY <2>1, StampedGuia
  <2>2. CASE guias' = Append(guias, Guia(b, NullReading))
    BY <2>2, StampedGuia
  <2> QED BY <2>1, <2>2 DEF ReadStamp
<1>2. stage = "vision" /\ stage' = "vision" /\ UNCHANGED <<pending, answers, sunat_map>>
  BY DEF ReadStamp, sunat
<1>3. \A i \in DOMAIN guias' : Stamped(guias'[i])
  <2>1. Added(guias, g, guias \o <<g>>)
    BY AddToList, Zenon DEF CapInv, Read
  <2>2. guias' = guias \o <<g>>
    BY <1>1 DEF CapInv, Read, IsList
  <2>3. /\ DOMAIN guias' = 1 .. Len(guias) + 1 /\ DOMAIN guias = 1 .. Len(guias)
        /\ Len(guias) \in Nat
    BY <2>1, <2>2, ListIsFunction DEF Added, CapInv, Read
  <2> QED BY <1>1, <1>2, <2>1, <2>2, <2>3 DEF Added, DateInv
<1> QED BY <1>2, <1>3 DEF DateInv, After

LEMMA DateReadBatchStep ==
  ASSUME DateInv, ReadStampsInBatch
  PROVE  DateInv'
<1> DEFINE allowed == 1 .. Min({MaxVisionCalls, Len(blocks)})
<1>1. PICK readings \in [allowed -> Readings] :
        guias' = [i \in DOMAIN blocks |->
                    Guia(blocks[i], IF i \in allowed THEN readings[i] ELSE NullReading)]
  BY DEF ReadStampsInBatch
<1>2. stage = "vision" /\ stage' = "vision" /\ UNCHANGED <<pending, answers, sunat_map>>
  BY DEF ReadStampsInBatch, sunat
<1> HIDE DEF allowed
<1>3. \A i \in DOMAIN guias' :
        \E reading : guias'[i] = Guia(blocks[i], reading)
                     /\ (reading \in Readings \/ reading = NullReading)
  BY <1>1
<1>4. \A i \in DOMAIN guias' : Stamped(guias'[i])
  BY <1>3, StampedGuia
<1> QED BY <1>2, <1>4 DEF DateInv, After

LEMMA DeliveriesAreDates ==
  ASSUME DateInv, stage = "vision", NEW g
  PROVE  DeliveryOf(g) \in Bound
BY DeliveryAssumption DEF DateInv, DeliveryOf, Bound

LEMMA DateNormalizeDatesStep ==
  ASSUME DateInv, NormalizeDates
  PROVE  DateInv'
<1>1. /\ stage = "vision" /\ stage' = "normalize" /\ UNCHANGED <<pending, answers>>
      /\ guias' = [i \in DOMAIN guias |-> Dated(guias[i])]
  BY DEF NormalizeDates, sunat
<1>2. ASSUME NEW i \in DOMAIN guias
      PROVE  HasDates(Dated(guias[i])) /\ LatestDate(Dated(guias[i]))
  BY <1>1, DeliveriesAreDates, DatedIsLatest, DatedFields DEF DateInv
<1>3. \A i \in DOMAIN guias' : HasDates(guias'[i]) /\ LatestDate(guias'[i])
  BY <1>1, <1>2
<1> QED BY <1>1, <1>3 DEF DateInv, After

LEMMA DateNormalizeStep ==
  ASSUME DateInv, Normalize
  PROVE  DateInv'
<1>1. PICK answered : guias' = NormalizedLines(2, guias, answered)
  BY DEF Normalize
<1>2. UNCHANGED <<pending, answers>> /\ stage = "normalize" /\ stage' = "reconcile"
  BY DEF Normalize, sunat
<1>3. DOMAIN guias' = DOMAIN guias
      /\ \A i \in DOMAIN guias : \E lines : guias'[i] = [guias[i] EXCEPT !.lines = lines]
  BY <1>1 DEF NormalizedLines
<1>4. \A i \in DOMAIN guias :
        /\ HasDates(guias'[i])
        /\ guias'[i].fecha = guias[i].fecha
        /\ guias'[i].fecha_raw = guias[i].fecha_raw
        /\ guias'[i].fecha_entrega = guias[i].fecha_entrega
        /\ guias'[i].delivery_floor_applied = guias[i].delivery_floor_applied
  BY <1>2, <1>3 DEF DateInv, After, HasDates
<1>5. \A i \in DOMAIN guias' : HasDates(guias'[i]) /\ LatestDate(guias'[i])
  BY <1>2, <1>3, <1>4 DEF DateInv, After, LatestDate
<1> QED BY <1>2, <1>5 DEF DateInv, After

LEMMA DateInvStep ==
  ASSUME IsList(blocks), CapInv, DateInv, [Next]_vars
  PROVE  DateInv'
<1>1. CASE Decode \/ Classify \/ ExtractDeclared \/ ExtractOcr \/ AssemblePage
  BY <1>1 DEF Decode, Classify, ExtractDeclared, ExtractOcr, AssemblePage, DateInv, After, sunat
<1>2. CASE FinishAssembly
  BY <1>2 DEF FinishAssembly, DateInv, After
<1>3. CASE FetchWave
  <2>1. pending' \subseteq pending /\ stage = "sunat" /\ stage' = "sunat"
    BY <1>3 DEF FetchWave
  <2> QED BY <1>3, <2>1, AnswersStep DEF DateInv, After
<1>4. CASE ApplySunat
  <2>1. /\ stage = "sunat" /\ stage' = "vision" /\ UNCHANGED <<pending, answers, guias>>
        /\ sunat_map' = [id \in {blocks[Owner(u)].guia_id : u \in Answered} |->
                           answers[LastAnswered(id)]]
    BY <1>4 DEF ApplySunat
  <2>2. \A id \in DOMAIN sunat_map' : sunat_map'[id] \in SunatAnswers
    <3>1. \A u \in Answered : answers[u] \in SunatAnswers
      BY DEF DateInv, Answered
    <3> QED BY <2>1, <3>1, LastAnsweredIsAnswered
  <2>3. DOMAIN guias' = {}
    <3>1. Len(guias) = 0 /\ DOMAIN guias = 1 .. Len(guias)
      BY <2>1, ListIsFunction DEF CapInv, Read
    <3> QED BY <2>1, <3>1
  <2> QED BY <2>1, <2>2, <2>3 DEF DateInv, After
<1>5. CASE ReadStamp \/ ReadStampsInBatch
  BY <1>5, DateReadStampStep, DateReadBatchStep
<1>6. CASE NormalizeDates \/ Normalize
  BY <1>6, DateNormalizeDatesStep, DateNormalizeStep
<1>7. CASE Reconcile
  BY <1>7 DEF Reconcile, DateInv, After, sunat
<1>8. CASE WriteCache \/ WriteSidecar \/ AppendAudit
  BY <1>8 DEF WriteCache, WriteSidecar, AppendAudit, DateInv, After, sunat, locals
<1>9. CASE Fail
  BY <1>9 DEF Fail, Forget, NoAnswers, DateInv, After
<1>10. CASE Retry
  BY <1>10 DEF Retry, DateInv, After, sunat, locals
<1>11. CASE UNCHANGED vars
  BY <1>11 DEF vars, DateInv, sunat, locals
<1> QED
  BY <1>1, <1>2, <1>3, <1>4, <1>5, <1>6, <1>7, <1>8, <1>9, <1>10, <1>11 DEF Next

(* Whatever stamps are read and whatever SUNAT answers, a resolved date is what
   the stamp says in the latest year that fits between the delivery and today,
   and the delivery date stands in only where no year does. *)
THEOREM DatesAreAlwaysLatest == Spec => []DatesAreLatest
<1>1. Init => PagesInv /\ BlocksInv /\ CapInv /\ DateInv
  <2>1. Init => DateInv
    BY DEF Init, Fresh, NoAnswers, DateInv, After
  <2> QED BY <2>1, BlocksInvInit, CapInvInit
<1>2. PagesInv /\ BlocksInv /\ CapInv /\ DateInv /\ [Next]_vars
        => (PagesInv /\ BlocksInv /\ CapInv /\ DateInv)'
  <2>1. BlocksInv => IsList(blocks)
    BY DEF BlocksInv
  <2>2. BlocksInv' => IsList(blocks')
    BY DEF BlocksInv
  <2> QED BY <2>1, <2>2, PagesInvStep, BlocksInvStep, CapInvStep, DateInvStep
<1>3. DateInv => DatesAreLatest
  BY DEF DateInv, After, DatesAreLatest, LatestDate, Fits
<1> QED BY <1>1, <1>2, <1>3, PTL DEF Spec

-----------------------------------------------------------------------------
(* Rows that ask for no review. *)

\* A block or guía without a compact QR has every line flagged.
Flagged(b) ==
  /\ b.identity_source \in {"qr", "ocr_fallback"}
  /\ b.identity_source = "ocr_fallback" => \A j \in DOMAIN b.lines : b.lines[j].review

GuiaFields ==
  {"guia_id", "identity_source", "registro", "lines", "fecha", "fecha_raw",
   "fecha_entrega", "delivery_floor_applied"}

\* The lines after Normalize: one the parser did not understand is flagged.
Understood(g) ==
  \A j \in DOMAIN g.lines :
    /\ "review" \in DOMAIN g.lines[j]
    /\ g.lines[j].review \/ Parsed[g.lines[j].raw] # None

FlagInv ==
  /\ \A b \in Range(blocks) \cup Range(block) : Flagged(b)
  /\ \A i \in DOMAIN guias : Flagged(guias[i]) /\ GuiaFields \subseteq DOMAIN guias[i]
  /\ stage \in After \ {"normalize"} => \A i \in DOMAIN guias : Understood(guias[i])
  /\ stage \in Persisting => rows = reconcile(declared, guias)

LEMMA FinishedRange ==
  ASSUME IsList(blocks), block = <<>> \/ \E b : block = <<b>>
  PROVE  Range(Finished) = Range(blocks) \cup Range(block)
<1>1. CASE block = <<>>
  BY <1>1, NoList DEF Finished
<1>2. ASSUME NEW b, block = <<b>> PROVE Range(Finished) = Range(blocks) \cup Range(block)
  <2>1. Added(blocks, b, Finished)
    BY <1>2, AddToList, Zenon DEF Finished
  <2>2. Range(block) = {b}
    BY <1>2 DEF Range
  <2> QED BY <2>1, <2>2 DEF Added
<1> QED BY <1>1, <1>2

LEMMA NewBlockFlagged ==
  ASSUME NEW raw, HasEvidence(raw), NEW b, b = NewBlock(raw)
  PROVE  Flagged(b)
<1>1. b.identity_source = IF Identity(raw) # None THEN "qr" ELSE "ocr_fallback"
  BY DEF NewBlock
<1>2. /\ DOMAIN b.lines = DOMAIN raw.lines
      /\ \A j \in DOMAIN b.lines : b.lines[j].review = IsFallbackMaterial(raw)
  BY DEF NewBlock, Line
<1> QED BY <1>1, <1>2 DEF Flagged, HasEvidence

LEMMA FlagAssembleStep ==
  ASSUME PagesInv, BlocksInv, FlagInv, guias = <<>>, AssemblePage
  PROVE  FlagInv'
<1> DEFINE raw == raws[seen + 1]
<1>1. stage' = "assemble" /\ guias' = guias
  BY DEF AssemblePage
<1>2. Range(Finished) = Range(blocks) \cup Range(block)
  BY FinishedRange DEF BlocksInv
<1>3. \A b \in Range(blocks') \cup Range(block') : Flagged(b)
  <2>1. CASE UNCHANGED <<block, blocks>>
    BY <2>1 DEF FlagInv
  <2>2. CASE HasEvidence(raw) /\ blocks' = Finished /\ block' = <<NewBlock(raw)>>
    <3>1. PICK b : b = NewBlock(raw)
      OBVIOUS
    <3>2. Flagged(b) /\ Range(block') = {b}
      BY <2>2, <3>1, NewBlockFlagged DEF Range
    <3> QED BY <1>2, <2>2, <3>2 DEF FlagInv
  <2>3. CASE /\ seen + 1 \in DOMAIN raws /\ HasEvidence(raw) /\ ~StartsBlock(raw)
             /\ block' = <<Absorbed(raw)>> /\ UNCHANGED blocks
    <3>1. PICK b : b = Absorbed(raw)
      OBVIOUS
    <3>2. PICK c : block = <<c>>
      BY <2>3 DEF BlocksInv, StartsBlock, Range
    <3>3. Placed(c)
      BY <1>2, <3>2 DEF BlocksInv, Range
    <3>4. b.identity_source = "qr"
      BY <2>3, <3>1, <3>2, <3>3, AbsorbedPlaced
    <3>5. Flagged(b) /\ Range(block') = {b}
      BY <2>3, <3>1, <3>4 DEF Flagged, Range
    <3> QED BY <2>3, <3>5 DEF FlagInv
  <2> QED BY <2>1, <2>2, <2>3 DEF AssemblePage
<1> QED BY <1>1, <1>3 DEF FlagInv, After, Persisting

LEMMA FlagApplySunatStep ==
  ASSUME BlocksInv, FlagInv, guias = <<>>, ApplySunat
  PROVE  FlagInv'
<1>1. /\ stage' = "vision" /\ UNCHANGED <<guias, block>>
      /\ blocks' = [i \in DOMAIN blocks |-> Enriched(i)]
  BY DEF ApplySunat
<1>2. ASSUME NEW i \in DOMAIN blocks PROVE Flagged(Enriched(i))
  <2> DEFINE b == blocks[i]
             official == OfficialLines(answers[b.url], b)
  <2>1. Flagged(b) /\ Placed(b)
    BY FinishedRange DEF FlagInv, BlocksInv, Range
  <2>2. CASE Enriched(i) = b
    BY <2>1, <2>2
  <2>3. CASE Enriched(i) = [b EXCEPT !.lines = official]
    <3>1. \A j \in DOMAIN official : official[j].review = (b.identity_source = "ocr_fallback")
      BY DEF OfficialLines, Line
    <3> HIDE DEF official
    <3>2. /\ Enriched(i).identity_source = b.identity_source
          /\ Enriched(i).lines = official
      BY <2>1, <2>3 DEF Placed
    <3> QED BY <2>1, <3>1, <3>2 DEF Flagged
  <2> QED BY <2>2, <2>3 DEF Enriched
<1>3. \A b \in Range(blocks') : Flagged(b)
  BY <1>1, <1>2 DEF Range
<1> QED BY <1>1, <1>3 DEF FlagInv, After, Persisting

LEMMA FlaggedGuia ==
  ASSUME NEW b, Flagged(b), NEW reading, NEW g, g = Guia(b, reading)
  PROVE  Flagged(g) /\ GuiaFields \subseteq DOMAIN g
BY DEF Guia, Flagged, GuiaFields

LEMMA FlagReadStep ==
  ASSUME BlocksInv, CapInv, FlagInv, ReadStamp \/ ReadStampsInBatch
  PROVE  FlagInv'
<1>1. stage' = "vision" /\ UNCHANGED <<blocks, block>>
  BY DEF ReadStamp, ReadStampsInBatch, assembly
<1>2. \A i \in DOMAIN blocks : Flagged(blocks[i])
  BY DEF FlagInv, Range
<1>3. DOMAIN blocks = 1 .. Len(blocks) /\ Len(blocks) \in Nat
  BY ListIsFunction DEF BlocksInv
<1>4. \A i \in DOMAIN guias' : Flagged(guias'[i]) /\ GuiaFields \subseteq DOMAIN guias'[i]
  <2>1. CASE ReadStamp
    <3> DEFINE n == Len(guias) + 1
    <3>1. PICK reading : guias' = Append(guias, Guia(blocks[n], reading))
      BY <2>1 DEF ReadStamp
    <3>2. PICK g : g = Guia(blocks[n], reading)
      OBVIOUS
    <3>3. Len(guias) \in Nat /\ n \in DOMAIN blocks
      BY <1>3, <2>1, ListIsFunction DEF ReadStamp, CapInv, Read
    <3>4. Flagged(g) /\ GuiaFields \subseteq DOMAIN g
      BY <1>2, <3>2, <3>3, FlaggedGuia
    <3>5. Added(guias, g, guias \o <<g>>)
      BY AddToList, Zenon DEF CapInv, Read
    <3>6. guias' = guias \o <<g>>
      BY <3>1, <3>2 DEF CapInv, Read, IsList
    <3>7. DOMAIN guias' = 1 .. Len(guias) + 1 /\ DOMAIN guias = 1 .. Len(guias)
      BY <3>5, <3>6, ListIsFunction DEF Added, CapInv, Read
    <3> QED BY <3>3, <3>4, <3>5, <3>6, <3>7 DEF Added, FlagInv
  <2>2. CASE ReadStampsInBatch
    <3>1. DOMAIN guias' = DOMAIN blocks
          /\ \A i \in DOMAIN blocks : \E reading : guias'[i] = Guia(blocks[i], reading)
      BY <2>2 DEF ReadStampsInBatch
    <3> QED BY <1>2, <3>1, FlaggedGuia
  <2> QED BY <2>1, <2>2
<1> QED BY <1>1, <1>4 DEF FlagInv, After, Persisting

LEMMA FlagNormalizeDatesStep ==
  ASSUME FlagInv, NormalizeDates
  PROVE  FlagInv'
<1>1. /\ stage' = "normalize" /\ UNCHANGED <<blocks, block>>
      /\ guias' = [i \in DOMAIN guias |-> Dated(guias[i])]
  BY DEF NormalizeDates, assembly
<1>2. ASSUME NEW g, Flagged(g), GuiaFields \subseteq DOMAIN g
      PROVE  Flagged(Dated(g)) /\ GuiaFields \subseteq DOMAIN Dated(g)
  <2>1. /\ DOMAIN Dated(g) = DOMAIN g
        /\ Dated(g).identity_source = g.identity_source
        /\ Dated(g).lines = g.lines
    BY <1>2 DEF Dated, GuiaFields
  <2> QED BY <1>2, <2>1 DEF Flagged
<1> QED BY <1>1, <1>2 DEF FlagInv, After, Persisting

LEMMA NormalizedUnderstood ==
  ASSUME NEW line, NEW answered, NEW n, n = Normalized(line, answered)
  PROVE  /\ "review" \in DOMAIN n
         /\ line.review => n.review
         /\ n.review \/ Parsed[n.raw] # None
<1> DEFINE method == Method(line.raw, answered)
<1>1. /\ DOMAIN n = {"raw", "unidad", "cantidad", "canonical", "method", "review"}
      /\ n.raw = line.raw
      /\ n.review = (line.review \/ method # "deterministic")
  BY DEF Normalized
<1>2. method = "deterministic" => Parsed[line.raw] # None
  BY DEF Method
<1> QED BY <1>1, <1>2

LEMMA FlagNormalizeStep ==
  ASSUME FlagInv, Normalize
  PROVE  FlagInv'
<1>1. PICK answered : guias' = NormalizedLines(2, guias, answered)
  BY DEF Normalize
<1>2. UNCHANGED <<blocks, block>> /\ stage = "normalize" /\ stage' = "reconcile"
  BY DEF Normalize, assembly
<1>3. /\ DOMAIN guias' = DOMAIN guias
      /\ \A i \in DOMAIN guias :
           guias'[i] = [guias[i] EXCEPT !.lines =
             [j \in DOMAIN guias[i].lines |->
                Normalized(guias[i].lines[j], <<2, i, j>> \in answered)]]
  BY <1>1 DEF NormalizedLines
<1>4. ASSUME NEW i \in DOMAIN guias
      PROVE  /\ Flagged(guias'[i]) /\ GuiaFields \subseteq DOMAIN guias'[i]
             /\ Understood(guias'[i])
  <2> DEFINE g == guias[i]
             lines == [j \in DOMAIN g.lines |->
                         Normalized(g.lines[j], <<2, i, j>> \in answered)]
  <2>1. Flagged(g) /\ GuiaFields \subseteq DOMAIN g
    BY DEF FlagInv
  <2>2. guias'[i] = [g EXCEPT !.lines = lines]
    BY <1>3
  <2>3. /\ DOMAIN lines = DOMAIN g.lines
        /\ \A j \in DOMAIN lines :
             /\ "review" \in DOMAIN lines[j]
             /\ g.lines[j].review => lines[j].review
             /\ lines[j].review \/ Parsed[lines[j].raw] # None
    BY NormalizedUnderstood
  <2> HIDE DEF lines
  <2>4. /\ DOMAIN guias'[i] = DOMAIN g /\ guias'[i].lines = lines
        /\ guias'[i].identity_source = g.identity_source
    BY <2>1, <2>2 DEF GuiaFields
  <2> QED BY <2>1, <2>3, <2>4 DEF Flagged, Understood
<1> QED BY <1>2, <1>3, <1>4 DEF FlagInv, After, Persisting

LEMMA FlagInvStep ==
  ASSUME PagesInv, BlocksInv, CapInv, FlagInv, [Next]_vars
  PROVE  FlagInv'
<1>0. stage \in Before \cup {"assemble", "sunat"} => guias = <<>>
  BY EmptySeq DEF CapInv, Read, IsList
<1>1. CASE Decode \/ Classify \/ ExtractDeclared \/ ExtractOcr
  BY <1>1 DEF Decode, Classify, ExtractDeclared, ExtractOcr, FlagInv, After, Persisting, assembly
<1>2. CASE AssemblePage
  BY <1>0, <1>2, FlagAssembleStep DEF AssemblePage
<1>3. CASE FinishAssembly
  <2>1. blocks' = Finished /\ block' = <<>> /\ stage' = "sunat" /\ UNCHANGED guias
    BY <1>3 DEF FinishAssembly
  <2>2. Range(Finished) = Range(blocks) \cup Range(block) /\ Range(<<>>) = {}
    BY FinishedRange, NoList DEF BlocksInv
  <2> QED BY <2>1, <2>2 DEF FlagInv, After, Persisting
<1>4. CASE FetchWave
  BY <1>4 DEF FetchWave, FlagInv, After, Persisting, assembly
<1>5. CASE ApplySunat
  BY <1>0, <1>5, FlagApplySunatStep DEF ApplySunat
<1>6. CASE ReadStamp \/ ReadStampsInBatch
  BY <1>6, FlagReadStep
<1>7. CASE NormalizeDates \/ Normalize
  BY <1>7, FlagNormalizeDatesStep, FlagNormalizeStep
<1>8. CASE Reconcile
  BY <1>8 DEF Reconcile, FlagInv, After, Persisting, assembly
<1>9. CASE WriteCache \/ WriteSidecar \/ AppendAudit
  BY <1>9 DEF WriteCache, WriteSidecar, AppendAudit, FlagInv, After, Persisting, assembly, locals
<1>10. CASE Fail
  BY <1>10, NoList DEF Fail, Forget, FlagInv, After, Persisting
<1>11. CASE Retry
  BY <1>11 DEF Retry, FlagInv, After, Persisting, assembly, locals
<1>12. CASE UNCHANGED vars
  BY <1>12 DEF vars, FlagInv, assembly, locals
<1> QED
  BY <1>1, <1>2, <1>3, <1>4, <1>5, <1>6, <1>7, <1>8, <1>9, <1>10, <1>11, <1>12 DEF Next

\* UnflaggedRowsAreSure, of one guía of a row of registro numero.
SureGuia(g, numero) ==
  LET ceiling == AuthoritativeFecha(declared, numero)
  IN /\ g.registro = numero
     /\ g.identity_source = "qr"
     /\ g.fecha # None /\ MonthDay(g.fecha) = g.fecha_raw
     /\ NotBefore(g.fecha, g.fecha_entrega) /\ NotAfter(g.fecha, ceiling)
     /\ ceiling # None => MonthDay(ceiling) = g.fecha_raw
     /\ \A line \in Range(g.lines) : Parsed[line.raw] # None

\* Grade-tolerant recovery moves lines only, and flags what it moves.
LEMMA RecoveredLines ==
  ASSUME NEW g, GuiaFields \subseteq DOMAIN g, Understood(g),
         NEW h, h = Recovered(declared, g)
  PROVE  /\ \A field \in GuiaFields \ {"lines"} : h[field] = g[field]
         /\ DOMAIN h.lines = DOMAIN g.lines
         /\ \A j \in DOMAIN h.lines : h.lines[j] = g.lines[j] \/ h.lines[j].review
<1> DEFINE lines == [j \in DOMAIN g.lines |-> Adopted(declared, g.registro, g.lines[j])]
<1>1. CASE g.registro = None
  BY <1>1 DEF Recovered
<1>2. CASE g.registro # None
  <2>1. h = [g EXCEPT !.lines = lines]
    BY <1>2 DEF Recovered
  <2>2. ASSUME NEW line, "review" \in DOMAIN line
        PROVE  LET a == Adopted(declared, g.registro, line) IN a = line \/ a.review
    BY <2>2 DEF Adopted
  <2>3. /\ DOMAIN lines = DOMAIN g.lines
        /\ \A j \in DOMAIN lines : lines[j] = g.lines[j] \/ lines[j].review
    BY <2>2 DEF Understood
  <2> HIDE DEF lines
  <2>4. h.lines = lines /\ \A field \in GuiaFields \ {"lines"} : h[field] = g[field]
    BY <2>1 DEF GuiaFields
  <2> QED BY <2>3, <2>4
<1> QED BY <1>1, <1>2

\* A guía that gives a row of numero nothing to review.
LEMMA UnflaggedGuiaIsSure ==
  ASSUME NEW g, GuiaFields \subseteq DOMAIN g, Flagged(g), Understood(g), LatestDate(g),
         NEW h, h = Recovered(declared, g), NEW numero, h.registro = numero,
         DOMAIN h.lines # {}, \A j \in DOMAIN h.lines : ~h.lines[j].review,
         h.fecha # None, ~h.delivery_floor_applied,
         LET ceiling == AuthoritativeFecha(declared, numero)
         IN /\ ~check_fecha_divergence(ceiling, h.fecha)
            /\ ~IsCeiled(h.fecha, ceiling)
  PROVE  SureGuia(g, numero) /\ h.guia_id = g.guia_id
<1> DEFINE ceiling == AuthoritativeFecha(declared, numero)
<1>1. /\ h.guia_id = g.guia_id /\ h.registro = g.registro /\ h.fecha = g.fecha
      /\ h.delivery_floor_applied = g.delivery_floor_applied
  <2>1. \A field \in GuiaFields \ {"lines"} : h[field] = g[field]
    BY RecoveredLines
  <2> QED BY <2>1 DEF GuiaFields
<1>2. /\ DOMAIN h.lines = DOMAIN g.lines
      /\ \A j \in DOMAIN g.lines : ~g.lines[j].review
  <2>1. /\ DOMAIN h.lines = DOMAIN g.lines
        /\ \A j \in DOMAIN h.lines : h.lines[j] = g.lines[j] \/ h.lines[j].review
    BY RecoveredLines
  <2> QED BY <2>1
<1>3. g.identity_source = "qr"
  BY <1>2 DEF Flagged
<1>4. \A line \in Range(g.lines) : Parsed[line.raw] # None
  BY <1>2 DEF Understood, Range
<1>5. /\ g.fecha # None /\ MonthDay(g.fecha) = g.fecha_raw
      /\ NotBefore(DateOf(YearOf(g.fecha), g.fecha_raw), g.fecha_entrega)
  BY <1>1 DEF LatestDate, Fits
<1>6. NotBefore(g.fecha, g.fecha_entrega)
  <2>1. DateOf(YearOf(g.fecha), MonthDay(g.fecha)) = g.fecha
    BY <1>5, DateParts DEF LatestDate, Bound
  <2> QED BY <1>5, <2>1
<1>7. NotAfter(g.fecha, ceiling) /\ (ceiling # None => MonthDay(ceiling) = g.fecha_raw)
  BY <1>1, <1>5 DEF IsCeiled, check_fecha_divergence
<1> QED BY <1>1, <1>3, <1>4, <1>5, <1>6, <1>7 DEF SureGuia

LEMMA RowsAreSure ==
  ASSUME DateInv, FlagInv, stage \in Persisting, NEW key \in DOMAIN rows,
         ~rows[key].requires_review, NEW c \in rows[key].guias
  PROVE  \E i \in DOMAIN guias : guias[i].guia_id = c.guia_id /\ SureGuia(guias[i], key[1])
<1> DEFINE recovered == [i \in DOMAIN guias |-> Recovered(declared, guias[i])]
           entries == GuiaEntries(recovered, key)
           contributing == Contributing(recovered, entries)
           ceiling == AuthoritativeFecha(declared, key[1])
           contributions == {Contribution(recovered, entries, i, ceiling) : i \in contributing}
<1>1. \E method :
        /\ rows[key].requires_review
             = RequiresReview(recovered, contributing, contributions, method)
        /\ rows[key].guias = contributions
  <2>1. rows = reconcile(declared, guias)
    BY DEF FlagInv
  <2>2. rows[key] = Row(declared, recovered, key)
    BY <2>1 DEF reconcile
  <2>3. rows[key].guias = contributions
    BY <2>2 DEF Row
  <2> DEFINE method == Worst(RowMethods(declared, recovered, key, contributing))
  <2>4. rows[key].requires_review
          = RequiresReview(recovered, contributing, contributions, method)
    BY <2>2 DEF Row
  <2> QED BY <2>3, <2>4
<1>2. PICK method :
        /\ ~RequiresReview(recovered, contributing, contributions, method)
        /\ rows[key].guias = contributions
  BY <1>1
<1> HIDE DEF recovered, entries, contributing
<1>3. PICK i \in contributing : c = Contribution(recovered, entries, i, ceiling)
  BY <1>2
<1>4. PICK e \in entries : e[1] = i
  BY <1>3 DEF contributing, Contributing
<1>5. /\ i \in DOMAIN recovered /\ e[2] \in DOMAIN recovered[i].lines
      /\ recovered[i].registro = key[1]
  BY <1>4 DEF entries, GuiaEntries, Key
<1>6. i \in DOMAIN guias /\ recovered[i] = Recovered(declared, guias[i])
  BY <1>5 DEF recovered
<1> DEFINE g == guias[i]
           h == recovered[i]
<1>7. /\ GuiaFields \subseteq DOMAIN g /\ Flagged(g) /\ Understood(g) /\ LatestDate(g)
  BY <1>6 DEF FlagInv, DateInv, After, Persisting
<1>8. /\ h.fecha # None
      /\ \A line \in Range(h.lines) : ~line.review
      /\ ~c.fecha_divergence /\ ~c.delivery_floor_applied
      /\ ~c.reception_ceiling_applied /\ ~c.delivery_after_protocolo
  BY <1>2, <1>3 DEF RequiresReview
<1>9. /\ c.guia_id = h.guia_id
      /\ ~check_fecha_divergence(ceiling, h.fecha)
      /\ ~h.delivery_floor_applied
      /\ ~IsCeiled(h.fecha, ceiling)
  BY <1>3, <1>8 DEF Contribution
<1>10. DOMAIN h.lines # {} /\ \A j \in DOMAIN h.lines : ~h.lines[j].review
  BY <1>5, <1>8 DEF Range
<1> HIDE DEF g, h
<1>11. SureGuia(g, key[1]) /\ h.guia_id = g.guia_id
  BY <1>5, <1>6, <1>7, <1>8, <1>9, <1>10, UnflaggedGuiaIsSure DEF g, h
<1> QED BY <1>6, <1>9, <1>11 DEF g

(* In every document and however often a run fails, a row that asks for no review
   rests on sure data alone: compact QRs, parsed lines, and stamps that were read
   and lie between delivery and Protocolo. *)
THEOREM UnflaggedRowsAlwaysSure == Spec => []UnflaggedRowsAreSure
<1> DEFINE Inv == PagesInv /\ BlocksInv /\ CapInv /\ DateInv /\ FlagInv
<1>1. Init => Inv
  <2>1. Init => DateInv
    BY DEF Init, Fresh, NoAnswers, DateInv, After
  <2>2. Init => FlagInv
    BY NoList DEF Init, Fresh, FlagInv, After, Persisting
  <2> QED BY <2>1, <2>2, BlocksInvInit, CapInvInit
<1>2. Inv /\ [Next]_vars => Inv'
  <2>1. BlocksInv => IsList(blocks)
    BY DEF BlocksInv
  <2>2. BlocksInv' => IsList(blocks')
    BY DEF BlocksInv
  <2> QED
    BY <2>1, <2>2, PagesInvStep, BlocksInvStep, CapInvStep, DateInvStep, FlagInvStep
<1>3. Inv => UnflaggedRowsAreSure
  BY RowsAreSure DEF UnflaggedRowsAreSure, SureGuia
<1> QED BY <1>1, <1>2, <1>3, PTL DEF Spec
=============================================================================
