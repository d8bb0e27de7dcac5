--------------------------- MODULE PageClassifier ---------------------------
(***************************************************************************)
(* domain/classifier.py: what kind of page a page is.                      *)
(*                                                                         *)
(* The body of a page (its digital text without the header and footer of   *)
(* every page) is the set of marks the predicates of the module find in    *)
(* it: {} is an empty body, "long" one of more than _FORMA_HEADER_MAX_CHARS *)
(* characters, "other" stands for text without a mark.  An OCR title is    *)
(* such a set too, {} when no title was read.                              *)
(***************************************************************************)
EXTENDS Naturals, Sequences

Mark == {"protocolo", "guia", "cover", "contents", "planilla", "listado",
         "caratula", "detail", "long", "other"}
Kind == {"GUIA", "DECLARED", "IGNORED", "UNCLASSIFIED"}

Rule(signal, kind) == [signal |-> signal, kind |-> kind]

\* classify(): the first rule whose signal the page shows.
TextRules ==
  << Rule("protocolo", "DECLARED"), Rule("qr", "GUIA"), Rule("guia", "GUIA"),
     Rule("cover", "IGNORED"), Rule("contents", "IGNORED"),
     Rule("planilla", "IGNORED"), Rule("listado", "IGNORED"),
     Rule("caratula", "IGNORED"), Rule("detail", "DECLARED"),
     Rule("header", "GUIA") >>

\* _classify_from_hybrid(): the same for a page with an empty body.
ScanRules ==
  << Rule("qr", "GUIA"), Rule("protocolo", "DECLARED"), Rule("guia", "GUIA"),
     Rule("planilla", "IGNORED"), Rule("listado", "IGNORED"),
     Rule("header", "GUIA") >>

FirstMatch(rules, signals) ==
  LET matching == {i \in DOMAIN rules : rules[i].signal \in signals}
  IN IF matching = {} THEN "UNCLASSIFIED"
     ELSE rules[CHOOSE i \in matching : \A j \in matching : i <= j].kind

(* "header" is Condition B: the page is one image, under a header at most. *)
classify(body, ocr_title, qr_is_guia, image_dominant) ==
  LET read == IF body = {} THEN ocr_title ELSE body
      signals == read
                 \cup (IF qr_is_guia THEN {"qr"} ELSE {})
                 \cup (IF image_dominant /\ "long" \notin body THEN {"header"} ELSE {})
  IN FirstMatch(IF body = {} THEN ScanRules ELSE TextRules, signals)
=============================================================================
