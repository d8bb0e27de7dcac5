---------------------------- MODULE ReviewLedger ----------------------------
(***************************************************************************)
(* What a review promises to its operator, with no memory, file, thread    *)
(* or restart in sight (openspec/specs/review/spec.md, REV-008, as         *)
(* application/review_service.py sets out to implement it):                *)
(*   ledger    the saved edits, in the order they took effect              *)
(*   reported  the edits whose operator was told "saved"                   *)
(* An edit is saved before it is reported, the ledger only ever grows at   *)
(* its end, and a restart changes neither.  That is Spec.  Cut is no part  *)
(* of the promise: it is how far a program that breaks it may go.          *)
(***************************************************************************)
EXTENDS Naturals, Sequences

VARIABLES ledger, reported

Init == ledger = <<>> /\ reported = {}

\* The ledger grows at its end; usually by e alone, by more when an earlier
\* edit could not be saved at its own turn.
Save(e) ==
  /\ Len(ledger') > Len(ledger)
  /\ SubSeq(ledger', 1, Len(ledger)) = ledger
  /\ \E i \in 1 .. Len(ledger') : ledger'[i] = e
  /\ reported' = reported \cup {e}

\* An edit that an other caller's save carried to the ledger is reported.
Report(e) ==
  /\ \E i \in 1 .. Len(ledger) : ledger[i] = e
  /\ reported' = reported \cup {e}
  /\ UNCHANGED ledger

Next == \E e \in reported' : Save(e) \/ Report(e)

\* The newest edits are lost.
Cut ==
  /\ \E n \in 0 .. Len(ledger) : ledger' = SubSeq(ledger, 1, n)
  /\ UNCHANGED reported

Spec == Init /\ [][Next]_<<ledger, reported>>
=============================================================================
