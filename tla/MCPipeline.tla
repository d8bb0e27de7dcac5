----------------------------- MODULE MCPipeline -----------------------------
(* A small instance of Pipeline. *)
EXTENDS Pipeline

CONSTANTS guiaA, guiaB, uA, uB, uC, uD, r1, r2, s1

\* One description is parsed, one is not but resembles it, one is nothing.
Item(raw, unidad, cantidad) == [raw |-> raw, unidad |-> unidad, cantidad |-> cantidad]
MCParsed == [bar |-> "bar60", smudge |-> None, scrap |-> None]
MCInferred == [bar |-> None, smudge |-> None, scrap |-> "scrap"]
MCAttributes == [bar |-> "bar", smudge |-> "bar", scrap |-> None]

Blank ==
  [body |-> {}, title |-> {}, dominant |-> TRUE, qr |-> None, url |-> None,
   ocr |-> <<>>, form |-> None]
Registro(numero, fecha, lines) == [numero |-> numero, fecha |-> fecha, lines |-> lines]
DeclaredLine == [raw |-> "bar", unidad |-> "KG", cantidad |-> 5, review |-> FALSE]

Protocolo(numero, fecha) ==
  [Blank EXCEPT !.body = {"protocolo", "guia", "long"}, !.dominant = FALSE,
                !.form = Registro(numero, fecha, <<DeclaredLine>>)]
Detail(numero) ==
  [Blank EXCEPT !.body = {"detail", "long"}, !.dominant = FALSE,
                !.form = Registro(numero, None, <<DeclaredLine>>)]

GuiaPage(qr, url, ocr) == [Blank EXCEPT !.qr = qr, !.url = url, !.ocr = ocr]
FirstA == GuiaPage(guiaA, uA, <<Item("bar", "KG", 3)>>)
SecondA == GuiaPage(guiaA, None, <<Item("smudge", "KG", 2), Item("scrap", "TN", 1)>>)
EmptyB == GuiaPage(guiaB, uB, <<>>)
Unread(url) == GuiaPage(None, url, <<Item("bar", "KG", 2)>>)
NoQr == Unread(uB)
Photo == GuiaPage(None, None, <<Item("bar", "KG", 7)>>)
Cover == [Blank EXCEPT !.body = {"cover"}, !.title = {"guia"}, !.dominant = FALSE]
Filed == {FirstA, SecondA, EmptyB, NoQr, Photo, Cover}

MCDocuments ==
  {[pages |-> <<Protocolo(r1, 20260225), x, y, z>>, contents |-> <<1>>] :
     x \in {FirstA, NoQr}, y \in Filed \ {Cover}, z \in Filed}
  \cup
  {[pages |-> <<Detail(r1), x, Protocolo(r2, 20240229), y>>,
    contents |-> <<1, 3>>] :
     x \in {FirstA, NoQr}, y \in {FirstA, NoQr, Protocolo(r1, None)}}
  \cup
  {[pages |-> <<Unread(uA), Unread(uB), Unread(uC), Unread(uD)>>, contents |-> <<>>]}
  \cup
  {[pages |-> <<Detail(s1), FirstA>>, contents |-> <<1>>],
   [pages |-> <<FirstA, Detail(r1)>>, contents |-> <<2>>]}

Official(items, fecha_entrega) == [items |-> items, fecha_entrega |-> fecha_entrega]
MCSunatAnswers ==
  {Official(<<Item("bar", "KILOGRAMOS", 5)>>, 20260220),
   Official(<<Item("bar", "UND", 5)>>, 20260310)}

\* The stamp read whole, with a year to come, without a year, and not at all.
Reading(date, raw) == [date |-> date, raw |-> raw]
MCReadings ==
  {Reading(20260225, 225), Reading(20261231, 1231), Reading(None, 229), Reading(None, None)}
=============================================================================
