------------------------ MODULE ReviewPromise_proofs ------------------------
(***************************************************************************)
(* When no thread runs beside another caller, the trail explains the       *)
(* state and the review keeps the promise of ReviewLedger.                 *)
(*                                                                         *)
(* The argument: every event of the trail is one a replay repeats, in the  *)
(* state its predecessors rebuild (Clean).  Between two calls the lists in *)
(* memory are what the trail rebuilds; inside the one call that commits    *)
(* they are that state or the one its event makes of it, list by list      *)
(* (CommitInv).  So after a crash the replay of a beginning of the trail   *)
(* rejects nothing and rebuilds that very trail.  A replay cut short       *)
(* leaves the file a beginning of what was saved (FileInv), and no other   *)
(* step takes a saved event back.                                          *)
(***************************************************************************)
EXTENDS ReviewUnique_proofs

-----------------------------------------------------------------------------
(* What Rebuilt computes *)

\* f lists the states that the first n events rebuild one after the other.
Steps(es, n, f) ==
  f = [k \in 0 .. n |-> IF k = 0 THEN Cached ELSE Applied(f[k - 1], es[k])]

LEMMA StepsExist ==
  ASSUME NEW es, NEW n \in Nat
  PROVE  \E f : Steps(es, n, f)
<1> DEFINE Stuck == {m \in Nat : ~ \E f : Steps(es, m, f)}
<1>1. SUFFICES ASSUME Stuck # {} PROVE FALSE
  OBVIOUS
<1> DEFINE m == FirstOf(Stuck)
<1>2. m \in Nat /\ (~ \E f : Steps(es, m, f)) /\ \A j \in Stuck : m <= j
  BY <1>1, FirstOfIsLeast
<1> HIDE DEF m
<1>3. CASE m = 0
  <2> DEFINE f == [k \in 0 .. 0 |-> Cached]
  <2>1. f = [k \in 0 .. m |-> IF k = 0 THEN Cached ELSE Applied(f[k - 1], es[k])]
    BY <1>3
  <2> QED
    BY <1>2, <2>1 DEF Steps
<1>4. CASE m # 0
  <2>1. m - 1 \in Nat /\ m - 1 \notin Stuck
    BY <1>2, <1>4
  <2>2. PICK f : Steps(es, m - 1, f)
    BY <2>1
  <2> DEFINE g == [k \in 0 .. m |-> IF k = m THEN Applied(f[m - 1], es[m]) ELSE f[k]]
  <2>3. \A k \in 0 .. m : g[k] = IF k = 0 THEN Cached ELSE Applied(g[k - 1], es[k])
    BY <1>2, <1>4, <2>2 DEF Steps
  <2>4. g = [k \in 0 .. m |-> g[k]]
    OBVIOUS
  <2> HIDE DEF g
  <2>5. g = [k \in 0 .. m |-> IF k = 0 THEN Cached ELSE Applied(g[k - 1], es[k])]
    BY <2>3, <2>4
  <2> QED
    BY <1>2, <2>5 DEF Steps
<1> QED
  BY <1>3, <1>4

\* Lists that begin alike rebuild the same states as long as they agree.
LEMMA StepsAgree ==
  ASSUME NEW es, NEW fs, NEW m \in Nat, NEW n \in Nat, NEW f, NEW g,
         Steps(es, m, f), Steps(fs, n, g),
         NEW k \in Nat, k <= m, k <= n, \A i \in 1 .. k : es[i] = fs[i]
  PROVE  f[k] = g[k]
<1> DEFINE Apart == {j \in 0 .. k : f[j] # g[j]}
<1>1. SUFFICES ASSUME Apart # {} PROVE FALSE
  OBVIOUS
<1> DEFINE d == FirstOf(Apart)
<1>2. d \in 0 .. k /\ f[d] # g[d] /\ \A j \in Apart : d <= j
  BY <1>1, FirstOfIsLeast
<1> HIDE DEF d
<1>3. d \in 0 .. m /\ d \in 0 .. n
  BY <1>2
<1>4. /\ f[d] = IF d = 0 THEN Cached ELSE Applied(f[d - 1], es[d])
      /\ g[d] = IF d = 0 THEN Cached ELSE Applied(g[d - 1], fs[d])
  BY <1>3 DEF Steps
<1>5. d # 0
  BY <1>2, <1>4
<1>6. d - 1 \in 0 .. k /\ d - 1 \notin Apart /\ d \in 1 .. k
  BY <1>2, <1>5
<1> QED
  BY <1>2, <1>4, <1>5, <1>6

LEMMA RebuiltSteps ==
  ASSUME NEW es, Len(es) \in Nat, NEW f, Steps(es, Len(es), f)
  PROVE  Rebuilt(es) = f[Len(es)]
<1>1. \E g : Steps(es, Len(es), g) /\ Rebuilt(es) = g[Len(es)]
  BY DEF Rebuilt, Steps
<1> QED
  BY <1>1, StepsAgree

\* restore_from_sidecar with nothing to replay leaves the cache as it is.
LEMMA RebuiltEmpty == Rebuilt(<<>>) = Cached
<1>1. PICK f : Steps(<<>>, 0, f)
  BY StepsExist
<1>2. Len(<<>>) = 0
  OBVIOUS
<1> QED
  BY <1>1, <1>2, RebuiltSteps DEF Steps

\* The last event is applied to what the others rebuild.
LEMMA RebuiltAppend ==
  ASSUME NEW es \in Seq(Event), NEW e \in Event
  PROVE  Rebuilt(Append(es, e)) = Applied(Rebuilt(es), e)
<1> DEFINE n == Len(es)
           fs == Append(es, e)
<1>1. n \in Nat /\ Len(fs) = n + 1 /\ fs[n + 1] = e /\ \A i \in 1 .. n : fs[i] = es[i]
  BY AppendProperties
<1> HIDE DEF fs, n
<1>2. PICK f : Steps(fs, n + 1, f)
  BY <1>1, StepsExist
<1>3. PICK g : Steps(es, n, g)
  BY <1>1, StepsExist
<1>4. f[n] = g[n]
  BY <1>1, <1>2, <1>3, StepsAgree
<1>5. f[n + 1] = Applied(f[n], fs[n + 1])
  BY <1>1, <1>2 DEF Steps
<1>6. Rebuilt(fs) = f[n + 1]
  BY <1>1, <1>2, RebuiltSteps
<1>7. Rebuilt(es) = g[n]
  BY <1>1, <1>3, RebuiltSteps DEF n
<1> QED
  BY <1>1, <1>4, <1>5, <1>6, <1>7 DEF fs

-----------------------------------------------------------------------------
(* Trails a replay repeats *)

\* The callers covered: no thread runs beside another actor.
Alone == \A t \in Threads, a \in Actors : a = t

Accepts(st, e) == ~Rejected(st, e) /\ ~NoOp(st, e)

\* A recovery brings lines.
Full(e) == e.kind \in {"recovered_guia", "recovered_discarded_page"} => e.guia.lines # <<>>

\* A replay of e in st does and records what e did.
Repeats(st, e) == Accepts(st, e) /\ Recorded(st.guias, e) = e /\ Full(e)

Upto(es, n) == SubSeq(es, 1, n)
Clean(es) == \A n \in 1 .. Len(es) : Repeats(Rebuilt(Upto(es, n - 1)), es[n])

LEMMA UptoSame ==
  ASSUME NEW s \in Seq(Event), NEW t \in Seq(Event), NEW n \in Nat, n <= Len(s), n <= Len(t),
         \A i \in 1 .. n : s[i] = t[i]
  PROVE  Upto(s, n) = Upto(t, n)
<1>1. /\ \A i \in 1 .. n : s[i] \in Event
      /\ \A i \in 1 .. n : t[i] \in Event
  OBVIOUS
<1>2. /\ Upto(s, n) \in Seq(Event) /\ Len(Upto(s, n)) = n
      /\ Upto(t, n) \in Seq(Event) /\ Len(Upto(t, n)) = n
      /\ \A i \in 1 .. n : Upto(s, n)[i] = s[i] /\ Upto(t, n)[i] = t[i]
  BY <1>1, SubSeqProperties DEF Upto
<1> HIDE DEF Upto
<1> QED
  BY <1>2, SeqEqual

LEMMA CleanEmpty == Clean(<<>>)
BY DEF Clean

LEMMA CleanStart ==
  ASSUME NEW s \in Seq(Event), NEW t \in Seq(Event), IsStart(s, t), Clean(t)
  PROVE  Clean(s)
<1>1. SUFFICES ASSUME NEW n \in 1 .. Len(s) PROVE Repeats(Rebuilt(Upto(s, n - 1)), s[n])
  BY DEF Clean
<1>2. n \in 1 .. Len(t) /\ n - 1 \in Nat /\ n - 1 <= Len(s) /\ n - 1 <= Len(t) /\ s[n] = t[n]
      /\ \A i \in 1 .. n - 1 : s[i] = t[i]
  BY DEF IsStart
<1>3. Upto(s, n - 1) = Upto(t, n - 1)
  BY <1>2, UptoSame
<1> QED
  BY <1>2, <1>3 DEF Clean

LEMMA CleanAppend ==
  ASSUME NEW es \in Seq(Event), NEW e \in Event, Clean(es), Repeats(Rebuilt(es), e)
  PROVE  Clean(Append(es, e))
<1> DEFINE fs == Append(es, e)
<1>1. /\ fs \in Seq(Event) /\ Len(es) \in Nat /\ Len(fs) = Len(es) + 1
      /\ fs[Len(es) + 1] = e /\ \A i \in 1 .. Len(es) : fs[i] = es[i]
  BY AppendProperties
<1> HIDE DEF fs
<1>2. SUFFICES ASSUME NEW n \in 1 .. Len(es) + 1 PROVE Repeats(Rebuilt(Upto(fs, n - 1)), fs[n])
  BY <1>1 DEF Clean, fs
<1>3. Upto(fs, n - 1) = Upto(es, n - 1)
  BY <1>1, UptoSame
<1>4. CASE n = Len(es) + 1
  <2>1. Upto(es, n - 1) = es
    BY <1>1, <1>4, SubSeqFull DEF Upto
  <2> QED
    BY <1>1, <1>3, <1>4, <2>1
<1>5. CASE n # Len(es) + 1
  <2>1. n \in 1 .. Len(es)
    BY <1>1, <1>5
  <2> QED
    BY <1>1, <1>3, <2>1 DEF Clean
<1> QED
  BY <1>4, <1>5

\* The event after a beginning of a clean trail repeats.
LEMMA CleanNext ==
  ASSUME NEW s \in Seq(Event), NEW t \in Seq(Event), t # <<>>, Clean(s \o t)
  PROVE  /\ Repeats(Rebuilt(s), Head(t))
         /\ Append(s, Head(t)) \o Tail(t) = s \o t
         /\ Head(t) \in Event /\ Tail(t) \in Seq(Event)
<1>1. /\ Head(t) \in Event /\ Tail(t) \in Seq(Event) /\ Len(Tail(t)) = Len(t) - 1
      /\ Head(t) = t[1] /\ \A i \in 1 .. Len(Tail(t)) : Tail(t)[i] = t[i + 1]
  BY HeadTailProperties
<1>2. Len(s) \in Nat /\ Len(t) \in Nat \ {0}
  BY EmptySeq
<1>3. /\ s \o t \in Seq(Event) /\ Len(s \o t) = Len(s) + Len(t)
      /\ \A i \in 1 .. Len(s) + Len(t) : (s \o t)[i] = IF i <= Len(s) THEN s[i] ELSE t[i - Len(s)]
  BY ConcatProperties
<1>4. (s \o t)[Len(s) + 1] = Head(t) /\ Len(s) + 1 \in 1 .. Len(s \o t)
  BY <1>1, <1>2, <1>3
<1>5. Upto(s \o t, Len(s)) = s
  <2>1. Upto(s \o t, Len(s)) = Upto(s, Len(s))
    <3>1. Len(s) <= Len(s \o t) /\ Len(s) <= Len(s) /\ \A i \in 1 .. Len(s) : (s \o t)[i] = s[i]
      BY <1>2, <1>3
    <3> HIDE DEF Upto
    <3> QED
      BY <1>2, <1>3, <3>1, UptoSame
  <2> QED
    BY <2>1, SubSeqFull DEF Upto
<1>6. Repeats(Rebuilt(s), Head(t))
  <2>1. Repeats(Rebuilt(Upto(s \o t, Len(s) + 1 - 1)), (s \o t)[Len(s) + 1])
    BY <1>4 DEF Clean
  <2>2. Len(s) + 1 - 1 = Len(s)
    BY <1>2
  <2> QED
    BY <1>4, <1>5, <2>1, <2>2
<1>7. Append(s, Head(t)) \o Tail(t) = s \o t
  <2> DEFINE u == Append(s, Head(t))
  <2>1. /\ u \in Seq(Event) /\ Len(u) = Len(s) + 1 /\ u[Len(s) + 1] = Head(t)
        /\ \A i \in 1 .. Len(s) : u[i] = s[i]
    BY <1>1, AppendProperties
  <2> HIDE DEF u
  <2>2. /\ u \o Tail(t) \in Seq(Event) /\ Len(u \o Tail(t)) = Len(u) + Len(Tail(t))
        /\ \A i \in 1 .. Len(u) + Len(Tail(t)) :
             (u \o Tail(t))[i] = IF i <= Len(u) THEN u[i] ELSE Tail(t)[i - Len(u)]
    BY <1>1, <2>1, ConcatProperties
  <2>3. Len(u \o Tail(t)) = Len(s \o t)
    BY <1>1, <1>2, <1>3, <2>1, <2>2
  <2>4. \A i \in 1 .. Len(s) + Len(t) : (u \o Tail(t))[i] = (s \o t)[i]
    <3>1. SUFFICES ASSUME NEW i \in 1 .. Len(s) + Len(t) PROVE (u \o Tail(t))[i] = (s \o t)[i]
      OBVIOUS
    <3>2. CASE i <= Len(s)
      BY <1>1, <1>2, <1>3, <2>1, <2>2, <3>2
    <3>3. CASE i = Len(s) + 1
      BY <1>1, <1>2, <1>3, <2>1, <2>2, <3>3
    <3>4. CASE i > Len(s) + 1
      <4>1. i - Len(u) \in 1 .. Len(Tail(t)) /\ i - Len(u) + 1 = i - Len(s)
        BY <1>1, <1>2, <2>1, <3>4
      <4> QED
        BY <1>1, <1>2, <1>3, <2>1, <2>2, <3>4, <4>1
    <3>5. i <= Len(s) \/ i = Len(s) + 1 \/ i > Len(s) + 1
      BY <1>2
    <3> QED
      BY <3>2, <3>3, <3>4, <3>5
  <2> QED
    BY <1>3, <2>2, <2>3, <2>4, SeqEqual DEF u
<1> QED
  BY <1>1, <1>6, <1>7

LEMMA BeginsConcat ==
  ASSUME NEW s \in Seq(Event), NEW t \in Seq(Event)
  PROVE  IsStart(s, s \o t)
<1>1. Len(s) \in Nat /\ Len(t) \in Nat /\ DOMAIN s = 1 .. Len(s)
  OBVIOUS
<1>2. /\ Len(s \o t) = Len(s) + Len(t)
      /\ \A i \in 1 .. Len(s) + Len(t) : (s \o t)[i] = IF i <= Len(s) THEN s[i] ELSE t[i - Len(s)]
  BY ConcatProperties
<1> QED
  BY <1>1, <1>2 DEF IsStart

\* A beginning of a list is the list cut at its length.
LEMMA StartIsCut ==
  ASSUME NEW s \in Seq(Event), NEW t \in Seq(Event), IsStart(s, t)
  PROVE  s = Upto(t, Len(s))
<1>1. Len(s) \in Nat /\ Len(s) <= Len(t) /\ \A i \in 1 .. Len(s) : t[i] = s[i]
  BY DEF IsStart
<1>2. Upto(t, Len(s)) = Upto(s, Len(s))
  BY <1>1, UptoSame
<1> QED
  BY <1>2, SubSeqFull DEF Upto

-----------------------------------------------------------------------------
(* What one accepted event does to the lists *)

HasLines(gs, id) == \E j \in DOMAIN gs : gs[j].guia_id = id /\ gs[j].lines # <<>>
StandsForEmpty(gs, x) ==
  x.block \in DOMAIN gs /\ gs[x.block].guia_id = x.guia_id /\ gs[x.block].lines = <<>>
EmptyIsKnown(gs, es, i) == (\E x \in es : x.block = i) \/ HasLines(gs, gs[i].guia_id)
Matches(st) ==
  /\ \A x \in st.errored : StandsForEmpty(st.guias, x)
  /\ \A i \in DOMAIN st.guias : st.guias[i].lines = <<>> => EmptyIsKnown(st.guias, st.errored, i)
SameRegistro(gs, new) ==
  \A i \in DOMAIN gs \cap DOMAIN new :
    gs[i].lines = <<>> /\ new[i].lines # <<>> => new[i].registro = gs[i].registro

Recovery(e) == e.kind \in {"recovered_guia", "recovered_discarded_page"}
StateType(st) ==
  st.guias \in Seq(GuiaRecord) /\ st.errored \subseteq ErroredRecord /\ st.discarded \subseteq Page

LEMMA KindsOfEvent ==
  ASSUME NEW e \in Event
  PROVE  \/ e.kind = "retry_attempted" /\ e \in RetryAttempted
         \/ e.kind = "recovered_guia" /\ e \in RecoveredGuia
         \/ e.kind = "recovered_discarded_page" /\ e \in RecoveredPage
         \/ e.kind = "reassignment" /\ e \in OperatorEdit
         \/ e.kind \in Positional /\ e \in OperatorEdit
BY KindOfEvent DEF Event, OperatorEdit, FieldEdit, LineEdit, Correction, Reassignment,
   RecoveredGuia, RecoveredPage, RetryAttempted, Positional

\* No edit gives a guía its first line or takes its last one.
LEMMA EditedLines ==
  ASSUME NEW g \in GuiaRecord, NEW e \in OperatorEdit,
         e.kind \in {"guia_line_edit", "manual_correction"} => FindLine(g, e) # 0
  PROVE  Edited(g, e).lines = <<>> <=> g.lines = <<>>
<1>1. g.lines \in Seq(Line)
  BY DEF GuiaRecord
<1>2. CASE e \in FieldEdit \cup Reassignment
  BY <1>2 DEF FieldEdit, Reassignment, Edited, GuiaRecord
<1>3. CASE e \in LineEdit \cup Correction
  <2>1. FindLine(g, e) \in DOMAIN g.lines
    BY <1>3, FindLineFinds DEF LineEdit, Correction
  <2>2. g.lines # <<>>
    BY <2>1
  <2>3. e.kind \in {"guia_line_edit", "manual_correction"}
    BY <1>3 DEF LineEdit, Correction
  <2>4. DOMAIN Edited(g, e).lines = DOMAIN g.lines
    BY <1>1, <2>3 DEF Edited, GuiaRecord
  <2> QED
    BY <2>1, <2>2, <2>4
<1> QED
  BY <1>2, <1>3 DEF OperatorEdit

\* What is recorded of an accepted event is what a replay repeats: a recovered
\* guía that has inherited its registro inherits nothing more.
LEMMA RecordedRepeats ==
  ASSUME NEW st, StateType(st), NEW e \in Event, Accepts(st, e), Full(e)
  PROVE  Repeats(st, Recorded(st.guias, e))
<1> DEFINE ev == Recorded(st.guias, e)
           at == FindGuia(st.guias, e.guia_id)
<1>1. ev \in Event /\ ev.kind = e.kind /\ ev.guia_id = e.guia_id
      /\ (e.kind # "recovered_guia" => ev = e)
  BY RecordedType DEF StateType
<1>2. CASE e.kind # "recovered_guia" \/ at = 0
  <2>1. ev = e
    BY <1>2 DEF Recorded
  <2> QED
    BY <2>1 DEF Repeats
<1>3. CASE e.kind = "recovered_guia" /\ at # 0
  <2>1. e \in RecoveredGuia /\ st.guias[at] \in GuiaRecord
    BY <1>3, KindOfEvent, FindGuiaFinds DEF StateType
  <2> DEFINE g == Inherit(e.guia, st.guias[at])
  <2>2. ev = [e EXCEPT !.guia = g]
    BY <1>3 DEF Recorded
  <2>3. /\ g.lines = e.guia.lines
        /\ g.registro = IF e.guia.registro = None THEN st.guias[at].registro
                                                  ELSE e.guia.registro
        /\ g \in GuiaRecord
    BY <2>1 DEF Inherit, RecoveredGuia, GuiaRecord
  <2>4. Inherit(g, st.guias[at]) = g
    <3>1. CASE g.registro # None
      BY <3>1 DEF Inherit
    <3>2. CASE g.registro = None
      <4>1. st.guias[at].registro = None
        BY <2>3, <3>2
      <4> HIDE DEF g
      <4>2. [g EXCEPT !.registro = None] = g
        BY <2>3, <3>2 DEF GuiaRecord
      <4> QED
        BY <3>2, <4>1, <4>2 DEF Inherit
    <3> QED
      BY <3>1, <3>2
  <2>5. ev.guia = g
    BY <2>1, <2>2 DEF RecoveredGuia
  <2>6. [ev EXCEPT !.guia = g] = ev
    BY <2>1, <2>2 DEF RecoveredGuia
  <2> HIDE DEF ev, g
  <2>7. Recorded(st.guias, ev) = ev
    BY <1>1, <1>3, <2>4, <2>5, <2>6 DEF Recorded
  <2>8. Accepts(st, ev)
    BY <1>1, <1>3 DEF Accepts, Rejected, NoOp
  <2>9. Full(ev)
    BY <1>1, <2>3, <2>5 DEF Full
  <2> QED
    BY <2>7, <2>8, <2>9 DEF Repeats, ev
<1> QED
  BY <1>2, <1>3

LEMMA AppliedRepeated ==
  ASSUME NEW st, NEW e, Repeats(st, e)
  PROVE  Applied(st, e) =
           LET at == FindGuia(st.guias, e.guia_id)
           IN  [guias |-> Placed(st.guias, at, Edited(st.guias[at], e), e),
                errored |-> ErroredAfter(st.errored, e),
                discarded |-> DiscardedAfter(st.discarded, e)]
BY DEF Repeats, Accepts, Applied

\* Only an edit in place uses the copy its call made.
LEMMA PlacedIgnoresCopy ==
  ASSUME NEW gs, NEW at, NEW c, NEW d, NEW e, e.kind \notin Positional
  PROVE  Placed(gs, at, c, e) = Placed(gs, at, d, e)
BY DEF Placed, Positional

\* Where an accepted event puts its guía.
LEMMA PlacedWhere ==
  ASSUME NEW st, StateType(st), NEW e \in Event, Repeats(st, e)
  PROVE  LET gs == st.guias
             at == FindGuia(gs, e.guia_id)
             new == Applied(st, e).guias
         IN  /\ e.kind = "retry_attempted" => new = gs
             /\ e.kind \in Positional \cup {"reassignment"} =>
                  /\ DOMAIN new = DOMAIN gs
                  /\ \A i \in DOMAIN gs : /\ new[i].guia_id = gs[i].guia_id
                                          /\ new[i].lines = <<>> <=> gs[i].lines = <<>>
             /\ e.kind = "recovered_guia" /\ at # 0 =>
                  /\ at \in DOMAIN gs /\ DOMAIN new = DOMAIN gs
                  /\ gs[at].guia_id = e.guia_id /\ gs[at].lines = <<>>
                  /\ new[at] = e.guia /\ \A i \in DOMAIN gs \ {at} : new[i] = gs[i]
             /\ e.kind = "recovered_discarded_page" \/ (e.kind = "recovered_guia" /\ at = 0) =>
                  /\ DOMAIN new = 1 .. Len(gs) + 1
                  /\ new[Len(gs) + 1] = e.guia /\ \A i \in DOMAIN gs : new[i] = gs[i]
<1> DEFINE gs == st.guias
           at == FindGuia(gs, e.guia_id)
           new == Placed(gs, at, Edited(gs[at], e), e)
<1>1. Applied(st, e).guias = new
  BY AppliedRepeated
<1>2. gs \in Seq(GuiaRecord) /\ DOMAIN gs = 1 .. Len(gs) /\ Len(gs) \in Nat
  BY DEF StateType
<1>3. at # 0 => at \in DOMAIN gs /\ gs[at].guia_id = e.guia_id
  BY <1>2, FindGuiaFinds
<1>4. CASE e.kind = "retry_attempted"
  BY <1>1, <1>4 DEF Placed, Positional
<1>5. CASE e.kind \in Positional /\ e \in OperatorEdit
  <2>1. new = [gs EXCEPT ![at] = Edited(gs[at], e)]
    BY <1>5 DEF Placed, Positional
  <2>2. at # 0 /\ gs[at] \in GuiaRecord
    BY <1>2, <1>5, AcceptedFinds DEF Repeats, Accepts
  <2>3. e.kind \in {"guia_line_edit", "manual_correction"} => FindLine(gs[at], e) # 0
    BY <2>2 DEF Repeats, Accepts, Rejected
  <2>4. /\ Edited(gs[at], e).guia_id = gs[at].guia_id
        /\ Edited(gs[at], e).lines = <<>> <=> gs[at].lines = <<>>
    BY <1>5, <2>2, <2>3, EditedType, EditedLines
  <2> HIDE DEF at, new, gs
  <2>5. DOMAIN new = DOMAIN gs /\ \A i \in DOMAIN gs :
          new[i] = IF i = at THEN Edited(gs[at], e) ELSE gs[i]
    BY <2>1
  <2>6. \A i \in DOMAIN gs : /\ new[i].guia_id = gs[i].guia_id
                             /\ new[i].lines = <<>> <=> gs[i].lines = <<>>
    BY <2>4, <2>5
  <2> QED
    <3>1. /\ e.kind # "retry_attempted" /\ e.kind # "recovered_guia"
          /\ e.kind # "recovered_discarded_page"
      BY <1>5 DEF Positional
    <3>2. DOMAIN Applied(st, e).guias = DOMAIN st.guias
      BY <1>1, <2>5 DEF gs
    <3>3. \A i \in DOMAIN st.guias :
            /\ Applied(st, e).guias[i].guia_id = st.guias[i].guia_id
            /\ Applied(st, e).guias[i].lines = <<>> <=> st.guias[i].lines = <<>>
      BY <1>1, <2>6 DEF gs
    <3> QED
      BY <3>1, <3>2, <3>3
<1>6. CASE e.kind = "reassignment" /\ e \in OperatorEdit
  <2>1. new = [i \in DOMAIN gs |-> IF gs[i].guia_id = e.guia_id THEN Edited(gs[i], e) ELSE gs[i]]
    BY <1>6 DEF Placed
  <2>2. \A i \in DOMAIN gs : /\ Edited(gs[i], e).guia_id = gs[i].guia_id
                             /\ Edited(gs[i], e).lines = <<>> <=> gs[i].lines = <<>>
    BY <1>2, <1>6, EditedType, EditedLines
  <2> HIDE DEF at, new, gs
  <2>3. DOMAIN new = DOMAIN gs
    BY <2>1
  <2>4. \A i \in DOMAIN gs : /\ new[i].guia_id = gs[i].guia_id
                             /\ new[i].lines = <<>> <=> gs[i].lines = <<>>
    BY <2>1, <2>2
  <2> QED
    <3>1. /\ e.kind # "retry_attempted" /\ e.kind # "recovered_guia"
          /\ e.kind # "recovered_discarded_page"
      BY <1>6
    <3>2. DOMAIN Applied(st, e).guias = DOMAIN st.guias
      BY <1>1, <2>3 DEF gs
    <3>3. \A i \in DOMAIN st.guias :
            /\ Applied(st, e).guias[i].guia_id = st.guias[i].guia_id
            /\ Applied(st, e).guias[i].lines = <<>> <=> st.guias[i].lines = <<>>
      BY <1>1, <2>4 DEF gs
    <3> QED
      BY <3>1, <3>2, <3>3
<1>7. CASE e.kind = "recovered_guia" /\ at # 0
  <2>1. new = [gs EXCEPT ![at] = e.guia]
    BY <1>7 DEF Placed
  <2>2. gs[at].lines = <<>>
    BY <1>7 DEF Repeats, Accepts, NoOp
  <2> HIDE DEF new
  <2> QED
    BY <1>1, <1>3, <1>7, <2>1, <2>2 DEF Positional
<1>8. CASE e.kind = "recovered_discarded_page" \/ (e.kind = "recovered_guia" /\ at = 0)
  <2>1. new = Append(gs, e.guia)
    BY <1>8 DEF Placed
  <2>2. e.guia \in GuiaRecord
    BY <1>8, KindsOfEvent DEF RecoveredGuia, RecoveredPage, Positional
  <2> HIDE DEF new, gs, at
  <2>3. /\ new \in Seq(GuiaRecord) /\ Len(new) = Len(gs) + 1 /\ new[Len(gs) + 1] = e.guia
        /\ \A i \in 1 .. Len(gs) : new[i] = gs[i]
    BY <1>2, <2>1, <2>2, AppendProperties
  <2>4. DOMAIN new = 1 .. Len(gs) + 1
    BY <2>3
  <2> QED
    BY <1>1, <1>2, <1>8, <2>3, <2>4 DEF Positional, gs, at
<1>9. \/ e.kind = "retry_attempted"
      \/ e.kind \in Positional /\ e \in OperatorEdit
      \/ e.kind = "reassignment" /\ e \in OperatorEdit
      \/ e.kind = "recovered_guia" /\ at # 0
      \/ e.kind = "recovered_discarded_page" \/ (e.kind = "recovered_guia" /\ at = 0)
  <2> HIDE DEF at
  <2> QED
    BY KindsOfEvent
<1> HIDE DEF gs, at, new
<1> QED
  BY <1>4, <1>5, <1>6, <1>7, <1>8, <1>9

\* The entries after an event stand for the same blocks, but a recovery drops
\* those of its guía.
LEMMA ErroredBlocks ==
  ASSUME NEW es \in SUBSET ErroredRecord, NEW e
  PROVE  /\ \A y \in ErroredAfter(es, e) :
              \E x \in es : x.block = y.block /\ x.guia_id = y.guia_id
         /\ \A x \in es :
              \/ e.kind = "recovered_guia" /\ x.guia_id = e.guia_id
              \/ \E y \in ErroredAfter(es, e) : y.block = x.block
         /\ e.kind = "recovered_guia" => \A y \in ErroredAfter(es, e) : y.guia_id # e.guia_id
<1>1. CASE e.kind = "retry_attempted"
  <2> DEFINE mark(x) == IF x \in Unmarked(es, e.guia_id)
                        THEN [x EXCEPT !.retry_attempted = TRUE] ELSE x
  <2>1. ErroredAfter(es, e) = {mark(x) : x \in es}
    BY <1>1 DEF ErroredAfter
  <2>2. \A x \in es : mark(x).block = x.block /\ mark(x).guia_id = x.guia_id
    BY DEF ErroredRecord
  <2> HIDE DEF mark
  <2>3. \A x \in es : mark(x) \in ErroredAfter(es, e)
    BY <2>1
  <2>4. \A y \in ErroredAfter(es, e) : \E x \in es : y = mark(x)
    BY <2>1
  <2> QED
    BY <1>1, <2>2, <2>3, <2>4
<1>2. CASE e.kind = "recovered_guia"
  <2>1. ErroredAfter(es, e) = {x \in es : x.guia_id # e.guia_id}
    BY <1>2 DEF ErroredAfter
  <2> QED
    BY <1>2, <2>1
<1>3. CASE e.kind \notin {"retry_attempted", "recovered_guia"}
  <2>1. ErroredAfter(es, e) = es
    BY <1>3 DEF ErroredAfter
  <2> QED
    BY <1>3, <2>1
<1> QED
  BY <1>1, <1>2, <1>3

\* The errored list goes on standing for the blocks without lines: a recovery
\* fills the first block of its guía and drops the entries of them all.
LEMMA MatchesKept ==
  ASSUME NEW st, StateType(st), NEW e \in Event, Repeats(st, e), Matches(st)
  PROVE  Matches(Applied(st, e))
<1> DEFINE gs == st.guias
           es == st.errored
           at == FindGuia(gs, e.guia_id)
           new == Applied(st, e).guias
           left == Applied(st, e).errored
<1>1. gs \in Seq(GuiaRecord) /\ DOMAIN gs = 1 .. Len(gs) /\ Len(gs) \in Nat
      /\ es \in SUBSET ErroredRecord
  BY DEF StateType
<1>2. left = ErroredAfter(es, e)
  BY AppliedRepeated
<1>3. /\ \A y \in left : \E x \in es : x.block = y.block /\ x.guia_id = y.guia_id
      /\ \A x \in es : \/ e.kind = "recovered_guia" /\ x.guia_id = e.guia_id
                      \/ \E y \in left : y.block = x.block
      /\ e.kind = "recovered_guia" => \A y \in left : y.guia_id # e.guia_id
  <2> HIDE DEF left
  <2> QED
    BY <1>1, <1>2, ErroredBlocks
<1>4. e.kind \in {"recovered_guia", "recovered_discarded_page"} =>
        e.guia.guia_id = e.guia_id /\ e.guia.lines # <<>>
  BY KindOfEvent DEF RecoveredGuia, RecoveredPage, Repeats, Full
<1>5. /\ \A x \in es : StandsForEmpty(gs, x)
      /\ \A i \in DOMAIN gs : gs[i].lines = <<>> => EmptyIsKnown(gs, es, i)
  BY DEF Matches
<1>6. SUFFICES /\ \A y \in left : StandsForEmpty(new, y)
               /\ \A i \in DOMAIN new : new[i].lines = <<>> => EmptyIsKnown(new, left, i)
  BY DEF Matches
<1> DEFINE Alike == /\ DOMAIN gs \subseteq DOMAIN new
                    /\ \A i \in DOMAIN gs : /\ new[i].guia_id = gs[i].guia_id
                                            /\ new[i].lines = <<>> <=> gs[i].lines = <<>>
                    /\ \A i \in DOMAIN new \ DOMAIN gs : new[i].lines # <<>>
                    /\ \A x \in es : \E y \in left : y.block = x.block
           Goal == /\ \A y \in left : StandsForEmpty(new, y)
                   /\ \A i \in DOMAIN new : new[i].lines = <<>> => EmptyIsKnown(new, left, i)
<1>7. Alike => Goal
  <2> HIDE DEF gs, es, new, left
  <2>1. SUFFICES ASSUME Alike PROVE Goal
    OBVIOUS
  <2>2. \A y \in left : StandsForEmpty(new, y)
    BY <1>3, <1>5, <2>1 DEF StandsForEmpty
  <2>3. ASSUME NEW i \in DOMAIN new, new[i].lines = <<>> PROVE EmptyIsKnown(new, left, i)
    <3>1. i \in DOMAIN gs /\ EmptyIsKnown(gs, es, i)
      BY <1>5, <2>1, <2>3
    <3> QED
      BY <2>1, <3>1 DEF EmptyIsKnown, HasLines
  <2> QED
    BY <2>2, <2>3
<1>8. CASE e.kind = "retry_attempted"
  <2>1. new = gs
    BY <1>8, PlacedWhere
  <2> HIDE DEF gs, es, new, left
  <2>2. Alike
    BY <1>3, <1>8, <2>1
  <2> QED
    BY <1>7, <2>2
<1>9. CASE e.kind \in Positional \cup {"reassignment"}
  <2>1. /\ DOMAIN new = DOMAIN gs
        /\ \A i \in DOMAIN gs : /\ new[i].guia_id = gs[i].guia_id
                                /\ new[i].lines = <<>> <=> gs[i].lines = <<>>
    BY <1>9, PlacedWhere
  <2>2. e.kind # "recovered_guia"
    BY <1>9 DEF Positional
  <2> HIDE DEF gs, es, new, left
  <2>3. Alike
    BY <1>3, <2>1, <2>2
  <2> QED
    BY <1>7, <2>3
<1>10. CASE e.kind = "recovered_guia" /\ at # 0
  <2>1. /\ at \in DOMAIN gs /\ DOMAIN new = DOMAIN gs
        /\ gs[at].guia_id = e.guia_id /\ gs[at].lines = <<>>
        /\ new[at] = e.guia /\ \A i \in DOMAIN gs \ {at} : new[i] = gs[i]
    BY <1>10, PlacedWhere
  <2> HIDE DEF gs, es, new, left, at
  <2>2. \A y \in left : StandsForEmpty(new, y)
    <3>1. SUFFICES ASSUME NEW y \in left PROVE StandsForEmpty(new, y)
      OBVIOUS
    <3>2. PICK x \in es : x.block = y.block /\ x.guia_id = y.guia_id
      BY <1>3
    <3>3. StandsForEmpty(gs, x) /\ y.guia_id # e.guia_id
      BY <1>3, <1>5, <1>10
    <3>4. y.block # at
      BY <2>1, <3>2, <3>3 DEF StandsForEmpty
    <3> QED
      BY <2>1, <3>2, <3>3, <3>4 DEF StandsForEmpty
  <2>3. ASSUME NEW i \in DOMAIN new, new[i].lines = <<>> PROVE EmptyIsKnown(new, left, i)
    <3>1. i \in DOMAIN gs /\ i # at /\ new[i] = gs[i] /\ EmptyIsKnown(gs, es, i)
      BY <1>4, <1>5, <1>10, <2>1, <2>3
    <3>2. CASE gs[i].guia_id = e.guia_id
      BY <1>4, <1>10, <2>1, <3>1, <3>2 DEF EmptyIsKnown, HasLines
    <3>3. CASE gs[i].guia_id # e.guia_id
      <4>1. ASSUME NEW x \in es, x.block = i PROVE \E y \in left : y.block = i
        <5>1. x.guia_id = gs[i].guia_id
          BY <1>5, <4>1 DEF StandsForEmpty
        <5> QED
          BY <1>3, <3>3, <4>1, <5>1
      <4>2. HasLines(gs, gs[i].guia_id) => HasLines(new, new[i].guia_id)
        BY <2>1, <3>1 DEF HasLines
      <4> QED
        BY <3>1, <4>1, <4>2 DEF EmptyIsKnown
    <3> QED
      BY <3>2, <3>3
  <2> QED
    BY <2>2, <2>3
<1>11. CASE e.kind = "recovered_discarded_page" \/ (e.kind = "recovered_guia" /\ at = 0)
  <2>1. /\ DOMAIN new = 1 .. Len(gs) + 1
        /\ new[Len(gs) + 1] = e.guia /\ \A i \in DOMAIN gs : new[i] = gs[i]
    BY <1>11, PlacedWhere
  <2>2. e.kind = "recovered_guia" => \A i \in DOMAIN gs : gs[i].guia_id # e.guia_id
    BY <1>1, <1>11, FindGuiaFinds
  <2> HIDE DEF gs, es, new, left, at
  <2>3. \A x \in es : \E y \in left : y.block = x.block
    BY <1>3, <1>5, <2>2 DEF StandsForEmpty
  <2>4. DOMAIN gs \subseteq DOMAIN new /\ \A i \in DOMAIN new \ DOMAIN gs : new[i] = e.guia
    BY <1>1, <2>1
  <2>5. Alike
    BY <1>4, <1>11, <2>1, <2>3, <2>4
  <2> QED
    BY <1>7, <2>5
<1>12. \/ e.kind = "retry_attempted"
       \/ e.kind \in Positional \cup {"reassignment"}
       \/ e.kind = "recovered_guia" /\ at # 0
       \/ e.kind = "recovered_discarded_page" \/ (e.kind = "recovered_guia" /\ at = 0)
  <2> HIDE DEF at
  <2> QED
    BY KindsOfEvent
<1> HIDE DEF gs, es, at, new, left
<1> QED
  BY <1>8, <1>9, <1>10, <1>11, <1>12

\* A guía that gets its lines keeps the registro of its placeholder: the event
\* had none of its own before it was recorded (add_recovered_guia).
LEMMA RecoveryInherits ==
  ASSUME NEW st, StateType(st), NEW e \in Event, Accepts(st, e), Full(e),
         e.kind = "recovered_guia" => e.guia.registro = None
  PROVE  SameRegistro(st.guias, Applied(st, Recorded(st.guias, e)).guias)
<1> DEFINE gs == st.guias
           ev == Recorded(gs, e)
           at == FindGuia(gs, ev.guia_id)
           new == Applied(st, ev).guias
<1>1. /\ ev \in Event /\ ev.kind = e.kind /\ ev.guia_id = e.guia_id
      /\ Repeats(st, ev)
  BY RecordedType, RecordedRepeats DEF StateType
<1>2. gs \in Seq(GuiaRecord) /\ DOMAIN gs = 1 .. Len(gs) /\ Len(gs) \in Nat
  BY DEF StateType
<1> SUFFICES ASSUME NEW i \in DOMAIN gs \cap DOMAIN new, gs[i].lines = <<>>, new[i].lines # <<>>
             PROVE  new[i].registro = gs[i].registro
  BY DEF SameRegistro
<1>3. CASE ev.kind = "retry_attempted"
  BY <1>1, <1>3, PlacedWhere
<1>4. CASE ev.kind \in Positional \cup {"reassignment"}
  BY <1>1, <1>4, PlacedWhere
<1>5. CASE ev.kind = "recovered_guia" /\ at # 0
  <2>1. new[at] = ev.guia /\ \A j \in DOMAIN gs \ {at} : new[j] = gs[j]
    BY <1>1, <1>5, PlacedWhere
  <2>2. i = at
    BY <2>1
  <2>3. e \in RecoveredGuia /\ gs[at] \in GuiaRecord
    <3>1. at \in DOMAIN gs
      BY <1>2, <1>5, FindGuiaFinds
    <3>2. e \in RecoveredGuia
      <4> HIDE DEF ev
      <4> QED
        BY <1>1, <1>5, KindOfEvent
    <3> HIDE DEF at
    <3> QED
      BY <1>2, <3>1, <3>2
  <2>4. ev.guia = Inherit(e.guia, gs[at])
    BY <1>1, <1>5, <2>3 DEF Recorded, RecoveredGuia
  <2>5. Inherit(e.guia, gs[at]).registro = gs[at].registro
    BY <1>1, <1>5, <2>3 DEF Inherit, RecoveredGuia, GuiaRecord
  <2> QED
    BY <2>1, <2>2, <2>4, <2>5
<1>6. CASE ev.kind = "recovered_discarded_page" \/ (ev.kind = "recovered_guia" /\ at = 0)
  <2>1. \A j \in DOMAIN gs : new[j] = gs[j]
    BY <1>1, <1>6, PlacedWhere
  <2> QED
    BY <2>1
<1>7. \/ ev.kind = "retry_attempted"
      \/ ev.kind \in Positional \cup {"reassignment"}
      \/ ev.kind = "recovered_guia" /\ at # 0
      \/ ev.kind = "recovered_discarded_page" \/ (ev.kind = "recovered_guia" /\ at = 0)
  <2> HIDE DEF at, ev
  <2> QED
    BY <1>1, KindsOfEvent
<1> HIDE DEF gs, at, new, ev
<1> QED
  BY <1>3, <1>4, <1>5, <1>6, <1>7

-----------------------------------------------------------------------------
(* The invariant *)

Past == Rebuilt(trail)
After(a) == Applied(Past, frame[a].event)

\* Nobody is inside a commit: the lists are what the trail rebuilds.
Quiet == \A a \in Actors : pc[a] \notin Held
QuietInv == Quiet => State = Past /\ rows = guias

\* What holds while a is inside its commit, one step after the other.
AtChecked(a) ==
  LET e == frame[a].event
      at == FindGuia(guias, e.guia_id)
  IN  /\ State = Past /\ rows = guias /\ Accepts(Past, e) /\ e.kind # "retry_attempted"
      /\ frame[a].at = at
      /\ frame[a].changed = IF Recovery(e) THEN None ELSE Edited(guias[at], e)
AtCopied(a) ==
  /\ State = Past /\ rows = guias /\ Repeats(Past, frame[a].event)
  /\ frame[a].event.kind # "retry_attempted"
  /\ frame[a].list = After(a).guias
  /\ SameRegistro(guias, frame[a].list)
AtDropping(a) ==
  /\ Repeats(Past, frame[a].event) /\ Recovery(frame[a].event)
  /\ guias = After(a).guias /\ errored = Past.errored /\ discarded = Past.discarded
AtFiltered(a) ==
  /\ Repeats(Past, frame[a].event)
  /\ frame[a].event.kind \in {"recovered_guia", "retry_attempted"}
  /\ guias = After(a).guias /\ frame[a].marks = After(a).errored /\ discarded = Past.discarded
  /\ frame[a].event.kind = "retry_attempted" => rows = guias
Done(a) == Repeats(Past, frame[a].event) /\ State = After(a)
AtComputed(a) == Done(a) /\ frame[a].list = guias
AtRecording(a) == Done(a) /\ rows = guias
AtSnapshotting(a) ==
  /\ State = Past /\ rows = guias
  /\ Len(sidecar) < Len(trail) /\ trail[Len(trail)] = frame[a].event
AtWriting(a) == AtSnapshotting(a) /\ frame[a].saved = trail

Stands(a) ==
  /\ pc[a] = "checked" => AtChecked(a)
  /\ pc[a] = "copied" => AtCopied(a)
  /\ pc[a] = "dropping" => AtDropping(a)
  /\ pc[a] = "filtered" => AtFiltered(a)
  /\ pc[a] = "reconciling" => Done(a)
  /\ pc[a] = "computed" => AtComputed(a)
  /\ pc[a] = "recording" => AtRecording(a)
  /\ pc[a] = "snapshotting" => AtSnapshotting(a)
  /\ pc[a] = "writing" => AtWriting(a)
CommitInv == \A a \in Actors : Stands(a)

\* A recovery brings lines and, before it is copied, no registro of its own.
FrameInv ==
  \A a \in Actors :
    pc[a] # "idle" =>
      /\ Full(frame[a].event)
      /\ pc[a] \in {"outside", "ready", "checked"} /\ frame[a].event.kind = "recovered_guia"
           => frame[a].event.guia.registro = None

\* A replay of the trail repeats every event of it.
TrailInv == Clean(trail) /\ StateType(Past) /\ Matches(Past)

\* So does a replay of the file, and what is left of one.
FileInv ==
  /\ Clean(sidecar)
  /\ mode = "serving" => IsStart(sidecar, trail)
  /\ mode = "down" => trail = <<>>
  /\ mode = "replaying" => Clean(trail \o replay) /\ IsStart(sidecar, trail \o replay)

LedgerInv == QuietInv /\ CommitInv /\ FrameInv /\ TrailInv /\ FileInv

\* All that is known of a reachable state.
Known == TypeInv /\ ControlInv /\ PlaceInv /\ LedgerInv

LEMMA StateTyped == TypeInv => StateType(State)
BY DEF TypeInv, TypeOK, StateType, State

\* Whoever may run is alone in its commit.
LEMMA OthersOutside ==
  ASSUME Alone, ControlInv, NEW a \in Actors, MayRun(a), NEW b \in Actors \ {a}
  PROVE  pc[b] \notin Held
<1>1. a \in Tasks /\ b \in Tasks
  BY DEF Alone, Actors
<1>2. pc[b] \in Held => loop = b
  BY <1>1 DEF ControlInv, LoopHeld
<1>3. loop # b
  BY <1>1, ActorsAssumption DEF MayRun
<1> QED
  BY <1>2, <1>3

\* A step outside the commits touches nothing they rely on.
LEMMA OutsideKept ==
  ASSUME QuietInv, CommitInv, UNCHANGED <<guias, errored, discarded, rows, trail, sidecar>>,
         \A b \in Actors : pc[b] \in Held \/ pc'[b] \in Held =>
           pc'[b] = pc[b] /\ frame'[b] = frame[b]
  PROVE  QuietInv' /\ CommitInv'
<1>1. State' = State /\ Past' = Past
  BY DEF State, Past
<1>2. QuietInv'
  BY <1>1 DEF QuietInv, Quiet
<1>3. SUFFICES ASSUME NEW b \in Actors PROVE Stands(b)'
  BY <1>2 DEF CommitInv
<1>4. CASE pc'[b] \notin Held
  BY <1>4 DEF Stands, Held
<1>5. CASE pc'[b] \in Held
  <2>1. pc'[b] = pc[b] /\ frame'[b] = frame[b] /\ Stands(b)
    BY <1>5 DEF CommitInv
  <2>2. After(b)' = After(b)
    BY <1>1, <2>1 DEF After
  <2> QED
    BY <1>1, <2>1, <2>2 DEF Stands, AtChecked, AtCopied, AtDropping, AtFiltered, Done,
       AtComputed, AtRecording, AtSnapshotting, AtWriting
<1> QED
  BY <1>4, <1>5

\* After a step of the one caller in a commit only it counts.
LEMMA CommitStep ==
  ASSUME NEW a \in Actors, \A b \in Actors \ {a} : pc'[b] \notin Held,
         Stands(a)', pc'[a] \notin Held => (State = Past /\ rows = guias)'
  PROVE  QuietInv' /\ CommitInv'
<1>1. QuietInv'
  BY DEF QuietInv, Quiet
<1>2. \A b \in Actors \ {a} : Stands(b)'
  BY DEF Stands, Held
<1> QED
  BY <1>1, <1>2 DEF CommitInv

LEMMA FilesKept ==
  ASSUME TrailInv, FileInv, UNCHANGED <<mode, trail, sidecar, replay>>
  PROVE  TrailInv' /\ FileInv'
BY DEF TrailInv, FileInv, Past

LEMMA FramesKept ==
  ASSUME FrameInv, NEW a \in Actors,
         \A b \in Actors \ {a} : pc'[b] = pc[b] /\ frame'[b].event = frame[b].event,
         pc'[a] # "idle" =>
           /\ Full(frame'[a].event)
           /\ pc'[a] \in {"outside", "ready", "checked"}
                /\ frame'[a].event.kind = "recovered_guia" => frame'[a].event.guia.registro = None
  PROVE  FrameInv'
BY DEF FrameInv

-----------------------------------------------------------------------------
(* Steps outside a commit *)

\* The routes build recoveries that bring lines and no registro.
LEMMA RequestsAreFull ==
  ASSUME TypeInv
  PROVE  /\ \A e \in Edits : Full(e) /\ e.kind # "recovered_guia"
         /\ \A x \in errored : \A s, f : LET e == RecoveredFrom(x.guia_id, s, f)
                                          IN  Full(e) /\ e.guia.registro = None
         /\ \A p \in discarded :
              LET e == [kind |-> "recovered_discarded_page", guia_id |-> RecoveredId(p), page |-> p,
                        guia |-> [guia_id |-> RecoveredId(p), registro |-> PageRegistro[p],
                                  fecha |-> None, lines |-> RecoveredLines,
                                  identity_source |-> "operator"]]
              IN  Full(e) /\ e.kind # "recovered_guia"
<1>1. \A e \in Edits : Full(e) /\ e.kind # "recovered_guia"
  BY ActorsAssumption DEF Full, OperatorEdit, FieldEdit, LineEdit, Correction, Reassignment
<1>2. RecoveredLines # <<>>
  BY ActorsAssumption
<1> QED
  BY <1>1, <1>2 DEF Full, RecoveredFrom

LEMMA ReceiveLedger ==
  ASSUME Known, NEW a \in Actors, NEW e, NEW to \in {"outside", "ready"}, Receive(a, to, e),
         Full(e), e.kind = "recovered_guia" => e.guia.registro = None
  PROVE  LedgerInv'
<1>1. /\ UNCHANGED <<guias, errored, discarded, rows, trail, sidecar, mode, replay>>
      /\ pc[a] = "idle" /\ pc'[a] = to /\ frame'[a].event = e
      /\ \A b \in Actors \ {a} : pc'[b] = pc[b] /\ frame'[b] = frame[b]
  BY DEF Receive, Goto, service, Known, TypeInv, TypeOK, Frame
<1>2. QuietInv' /\ CommitInv'
  BY <1>1, OutsideKept DEF Known, LedgerInv, Held
<1>3. FrameInv'
  BY <1>1, FramesKept DEF Known, LedgerInv
<1>4. TrailInv' /\ FileInv'
  BY <1>1, FilesKept DEF Known, LedgerInv
<1> QED
  BY <1>2, <1>3, <1>4 DEF LedgerInv

LEMMA RequestsLedger ==
  ASSUME Known,
         \/ \E t \in Threads : OperatorRequest(t) \/ RetryRequest(t)
         \/ \E c \in Tasks : ReprocessRequest(c) \/ PageRequest(c)
  PROVE  LedgerInv'
<1>0. TypeInv
  BY DEF Known
<1>1. ASSUME NEW t \in Threads, OperatorRequest(t) PROVE LedgerInv'
  BY <1>0, <1>1, RequestsAreFull, ReceiveLedger DEF OperatorRequest, Actors
<1>2. ASSUME NEW t \in Threads, RetryRequest(t) PROVE LedgerInv'
  <2>1. PICK x \in errored : Receive(t, "outside", RecoveredFrom(x.guia_id, "qr", SunatFecha))
    BY <1>2 DEF RetryRequest
  <2>2. LET e == RecoveredFrom(x.guia_id, "qr", SunatFecha) IN Full(e) /\ e.guia.registro = None
    BY <1>0, RequestsAreFull
  <2> QED
    BY <2>1, <2>2, ReceiveLedger DEF Actors
<1>3. ASSUME NEW c \in Tasks, ReprocessRequest(c) PROVE LedgerInv'
  <2>1. PICK x \in errored : Receive(c, "outside", RecoveredFrom(x.guia_id, "vision", None))
    BY <1>3 DEF ReprocessRequest
  <2>2. LET e == RecoveredFrom(x.guia_id, "vision", None) IN Full(e) /\ e.guia.registro = None
    BY <1>0, RequestsAreFull
  <2> QED
    BY <2>1, <2>2, ReceiveLedger DEF Actors
<1>4. ASSUME NEW c \in Tasks, PageRequest(c) PROVE LedgerInv'
  <2>1. PICK e : Receive(c, "outside", e) /\ Full(e) /\ e.kind # "recovered_guia"
    BY <1>0, <1>4, RequestsAreFull DEF PageRequest
  <2> QED
    BY <2>1, ReceiveLedger DEF Actors
<1> QED
  BY <1>1, <1>2, <1>3, <1>4

\* The answers of SUNAT, OCR and vision, and the refusals.
LEMMA OutsideLedger ==
  ASSUME Known, NEW a \in Actors,
         Answered(a) \/ RetryUnanswered(a) \/ RecoveryUnanswered(a) \/ Refuse(a)
  PROVE  LedgerInv'
<1> USE DEF Known, TypeInv, TypeOK
<1>1. frame[a] \in Frame
  OBVIOUS
<1>2. /\ UNCHANGED <<guias, errored, discarded, rows, trail, sidecar, mode, replay>>
      /\ pc[a] \in {"outside", "ready"}
      /\ pc'[a] = "idle" \/ (pc'[a] = "ready" /\ pc[a] = "outside")
      /\ \A b \in Actors \ {a} : pc'[b] = pc[b] /\ frame'[b] = frame[b]
  <2>1. CASE Answered(a) \/ RetryUnanswered(a)
    BY <2>1 DEF Answered, RetryUnanswered, Goto, service
  <2>2. CASE RecoveryUnanswered(a) \/ Refuse(a)
    <3>1. /\ Return(a) /\ pc[a] \in {"outside", "ready"}
          /\ UNCHANGED <<guias, errored, discarded, rows, trail, sidecar, mode, replay>>
      BY <2>2 DEF RecoveryUnanswered, Refuse, service
    <3>2. pc'[a] = "idle" /\ \A b \in Actors \ {a} : pc'[b] = pc[b] /\ frame'[b] = frame[b]
      BY <3>1 DEF Return
    <3> QED
      BY <3>1, <3>2
  <2> QED
    BY <2>1, <2>2
<1>3. QuietInv' /\ CommitInv'
  <2>1. \A b \in Actors : pc[b] \in Held \/ pc'[b] \in Held =>
           pc'[b] = pc[b] /\ frame'[b] = frame[b]
    BY <1>2 DEF Held
  <2> QED
    BY <1>2, <2>1, OutsideKept DEF LedgerInv
<1>4. pc'[a] # "idle" => frame'[a].event = frame[a].event \/ frame'[a].event.kind = "retry_attempted"
  <2>1. CASE Answered(a)
    BY <2>1 DEF Answered
  <2>2. CASE RetryUnanswered(a)
    BY <1>1, <2>2 DEF RetryUnanswered, Frame
  <2>3. CASE RecoveryUnanswered(a) \/ Refuse(a)
    BY <2>3 DEF RecoveryUnanswered, Refuse, Return
  <2> QED
    BY <2>1, <2>2, <2>3
<1>5. FrameInv'
  <2>1. pc'[a] # "idle" =>
           /\ Full(frame'[a].event)
           /\ pc'[a] \in {"outside", "ready", "checked"}
                /\ frame'[a].event.kind = "recovered_guia" => frame'[a].event.guia.registro = None
    BY <1>2, <1>4 DEF LedgerInv, FrameInv, Full
  <2> QED
    BY <1>2, <2>1, FramesKept DEF LedgerInv
<1>6. TrailInv' /\ FileInv'
  BY <1>2, FilesKept DEF LedgerInv
<1> QED
  BY <1>3, <1>5, <1>6 DEF LedgerInv

-----------------------------------------------------------------------------
(* Steps inside a commit *)

\* A step of a commit: what is left to show is where its caller stands.
LEMMA HeldStep ==
  ASSUME Alone, Known, NEW a \in Actors, MayRun(a),
         UNCHANGED <<mode, trail, sidecar, replay>>,
         \A b \in Actors \ {a} : pc'[b] = pc[b] /\ frame'[b] = frame[b],
         pc'[a] \notin {"outside", "ready", "checked"} \/ frame'[a].event = frame[a].event,
         pc'[a] = "checked" => pc[a] = "ready",
         pc'[a] # "idle" => Full(frame'[a].event) /\ pc'[a] \in Held,
         Stands(a)', pc'[a] = "idle" => (State = Past /\ rows = guias)'
  PROVE  LedgerInv'
<1>1. \A b \in Actors \ {a} : pc'[b] \notin Held
  BY OthersOutside DEF Known
<1>2. QuietInv' /\ CommitInv'
  BY <1>1, CommitStep DEF Held
<1>3. FrameInv'
  BY FramesKept DEF Known, LedgerInv, FrameInv, Held
<1>4. TrailInv' /\ FileInv'
  BY FilesKept DEF Known, LedgerInv
<1> QED
  BY <1>2, <1>3, <1>4 DEF LedgerInv

LEMMA CheckLedger ==
  ASSUME Alone, Known, NEW a \in Actors, Check(a)
  PROVE  LedgerInv'
<1> DEFINE e == frame[a].event
           at == FindGuia(guias, e.guia_id)
<1>1. /\ MayRun(a) /\ pc[a] = "ready" /\ e \in Event /\ frame[a] \in Frame
      /\ UNCHANGED <<mode, guias, errored, discarded, rows, trail, sidecar, replay>>
      /\ \A b \in Actors \ {a} : pc'[b] = pc[b] /\ frame'[b] = frame[b]
  BY DEF Check, Goto, service, Known, TypeInv, TypeOK, BusyHasEvent
<1>2. Quiet
  BY <1>1, OthersOutside DEF Known, Quiet, Held
<1>3. State = Past /\ rows = guias /\ Accepts(Past, e) /\ Full(e)
  BY <1>1, <1>2 DEF Known, LedgerInv, QuietInv, FrameInv, Check, Accepts
<1>4. State' = State /\ Past' = Past
  BY <1>1 DEF State, Past
<1>5. CASE e.kind = "retry_attempted"
  <2>1. /\ pc'[a] = "filtered" /\ frame'[a].event = e
        /\ frame'[a].marks = ErroredAfter(errored, e)
    BY <1>1, <1>5 DEF Check, Goto, Known, TypeInv, TypeOK, Frame
  <2> HIDE DEF e
  <2>2. Repeats(Past, e)
    BY <1>3, <1>5 DEF Repeats, Recorded
  <2>3. Applied(Past, e).guias = Past.guias /\ Applied(Past, e).errored = ErroredAfter(Past.errored, e)
    <3>1. StateType(Past)
      BY <1>3, StateTyped DEF Known
    <3> QED
      BY <1>1, <1>5, <2>2, <3>1, PlacedWhere, AppliedRepeated
  <2>4. Past.guias = guias /\ Past.errored = errored /\ Past.discarded = discarded
    BY <1>3 DEF State
  <2>5. AtFiltered(a)'
    BY <1>1, <1>3, <1>4, <1>5, <2>1, <2>2, <2>3, <2>4 DEF AtFiltered, After
  <2>6. Stands(a)'
    BY <2>1, <2>5 DEF Stands
  <2>7. pc'[a] \in Held /\ pc'[a] # "checked" /\ Full(frame'[a].event) /\ pc'[a] # "idle"
    BY <1>3, <2>1 DEF Held
  <2> QED
    BY <1>1, <2>1, <2>6, <2>7, HeldStep DEF e
<1>6. CASE e.kind # "retry_attempted"
  <2>1. /\ pc'[a] = "checked" /\ frame'[a].event = e /\ frame'[a].at = at
        /\ frame'[a].changed = IF Recovery(e) THEN None ELSE Edited(guias[at], e)
    BY <1>1, <1>6 DEF Check, Goto, Known, TypeInv, TypeOK, Frame, Recovery
  <2>2. AtChecked(a)'
    BY <1>1, <1>3, <1>4, <1>6, <2>1 DEF AtChecked
  <2>3. Stands(a)'
    BY <2>1, <2>2 DEF Stands
  <2>4. pc'[a] \in Held /\ Full(frame'[a].event) /\ pc'[a] # "idle"
    BY <1>3, <2>1 DEF Held
  <2> QED
    BY <1>1, <2>1, <2>3, <2>4, HeldStep
<1> QED
  BY <1>5, <1>6

LEMMA CopyLedger ==
  ASSUME Alone, Known, NEW a \in Actors, CopyGuias(a)
  PROVE  LedgerInv'
<1> DEFINE e == frame[a].event
           ev == Recorded(guias, e)
           at == FindGuia(guias, e.guia_id)
<1>1. /\ MayRun(a) /\ pc[a] = "checked" /\ e \in Event
      /\ UNCHANGED <<mode, guias, errored, discarded, rows, trail, sidecar, replay>>
      /\ \A b \in Actors \ {a} : pc'[b] = pc[b] /\ frame'[b] = frame[b]
  BY DEF CopyGuias, Goto, service, Known, TypeInv, TypeOK, BusyHasEvent
<1>2. AtChecked(a) /\ Full(e) /\ (e.kind = "recovered_guia" => e.guia.registro = None)
  BY <1>1 DEF Known, LedgerInv, CommitInv, Stands, FrameInv
<1>3. /\ State = Past /\ rows = guias /\ Accepts(Past, e) /\ Past.guias = guias
      /\ e.kind # "retry_attempted" /\ frame[a].at = at
      /\ e.kind \in Positional => frame[a].changed = Edited(guias[at], e)
  BY <1>2 DEF AtChecked, State, Positional, Recovery
<1>4. StateType(Past)
  BY <1>3, StateTyped DEF Known
<1>5. /\ pc'[a] = "copied" /\ frame'[a].event = ev
      /\ frame'[a].list = Placed(guias, at, frame[a].changed, ev)
  <2>1. frame[a] \in Frame
    BY DEF Known, TypeInv, TypeOK
  <2> HIDE DEF at
  <2> QED
    BY <1>3, <2>1 DEF CopyGuias, Goto, Known, TypeInv, TypeOK, Frame
<1>6. /\ Repeats(Past, ev) /\ SameRegistro(guias, Applied(Past, ev).guias)
      /\ ev.kind = e.kind /\ ev.guia_id = e.guia_id /\ (e.kind # "recovered_guia" => ev = e)
  <2> HIDE DEF e
  <2>1. /\ Repeats(Past, Recorded(Past.guias, e))
        /\ SameRegistro(Past.guias, Applied(Past, Recorded(Past.guias, e)).guias)
    BY <1>1, <1>2, <1>3, <1>4, RecordedRepeats, RecoveryInherits
  <2>2. /\ ev.kind = e.kind /\ ev.guia_id = e.guia_id /\ (e.kind # "recovered_guia" => ev = e)
    BY <1>1, <1>3, <1>4, RecordedType DEF StateType
  <2> QED
    BY <1>3, <2>1, <2>2
<1>7. Applied(Past, ev).guias = Placed(guias, at, Edited(guias[at], ev), ev)
  <2> HIDE DEF e, ev
  <2> QED
    BY <1>3, <1>6, AppliedRepeated
<1>8. Placed(guias, at, Edited(guias[at], ev), ev) = Placed(guias, at, frame[a].changed, ev)
  <2> HIDE DEF e, ev, at
  <2>1. CASE e.kind \in Positional
    BY <1>3, <1>6, <2>1 DEF Positional
  <2>2. CASE e.kind \notin Positional
    BY <1>6, <2>2, PlacedIgnoresCopy
  <2> QED
    BY <2>1, <2>2
<1> HIDE DEF e, ev, at
<1>9. State' = State /\ Past' = Past
  BY <1>1 DEF State, Past
<1>10. AtCopied(a)'
  BY <1>1, <1>3, <1>5, <1>6, <1>7, <1>8, <1>9 DEF AtCopied, After
<1>11. Stands(a)'
  BY <1>5, <1>10 DEF Stands
<1>12. pc'[a] \in Held /\ pc'[a] \notin {"outside", "ready", "checked", "idle"}
       /\ Full(frame'[a].event)
  BY <1>5, <1>6 DEF Held, Repeats
<1> QED
  BY <1>1, <1>11, <1>12, HeldStep

\* A state with the lists of After(a) is the state after a's event.
LEMMA StateIsAfter ==
  ASSUME NEW st, NEW e, Repeats(st, e), NEW gs, NEW es, NEW ds,
         gs = Applied(st, e).guias, es = Applied(st, e).errored, ds = Applied(st, e).discarded
  PROVE  [guias |-> gs, errored |-> es, discarded |-> ds] = Applied(st, e)
BY AppliedRepeated

\* Which lists an event leaves alone.
LEMMA SideLists ==
  ASSUME NEW st, NEW e, Repeats(st, e)
  PROVE  /\ e.kind \notin {"recovered_guia", "retry_attempted"} => Applied(st, e).errored = st.errored
         /\ e.kind # "recovered_discarded_page" => Applied(st, e).discarded = st.discarded
         /\ Applied(st, e).errored = ErroredAfter(st.errored, e)
         /\ Applied(st, e).discarded = DiscardedAfter(st.discarded, e)
<1>1. /\ Applied(st, e).errored = ErroredAfter(st.errored, e)
      /\ Applied(st, e).discarded = DiscardedAfter(st.discarded, e)
  BY AppliedRepeated
<1>2. e.kind \notin {"recovered_guia", "retry_attempted"} => ErroredAfter(st.errored, e) = st.errored
  BY DEF ErroredAfter
<1>3. e.kind # "recovered_discarded_page" => DiscardedAfter(st.discarded, e) = st.discarded
  BY DEF DiscardedAfter
<1> QED
  BY <1>1, <1>2, <1>3

LEMMA AssignGuiasLedger ==
  ASSUME Alone, Known, NEW a \in Actors, AssignGuias(a)
  PROVE  LedgerInv'
<1> DEFINE e == frame[a].event
<1>1. /\ MayRun(a) /\ pc[a] = "copied" /\ guias' = frame[a].list
      /\ UNCHANGED <<mode, errored, discarded, rows, trail, sidecar, replay, frame>>
      /\ pc'[a] = IF Recovery(e) THEN "dropping" ELSE "reconciling"
      /\ \A b \in Actors \ {a} : pc'[b] = pc[b]
  BY DEF AssignGuias, Goto, Known, TypeInv, TypeOK, Recovery
<1>2. AtCopied(a)
  BY <1>1 DEF Known, LedgerInv, CommitInv, Stands
<1>3. /\ Repeats(Past, e) /\ guias' = Applied(Past, e).guias /\ e.kind # "retry_attempted"
      /\ errored = Past.errored /\ discarded = Past.discarded /\ Past' = Past
      /\ After(a)' = Applied(Past, e)
  BY <1>1, <1>2 DEF AtCopied, After, State, Past
<1>4. pc'[a] \in Held /\ pc'[a] \notin {"outside", "ready", "checked", "idle"}
      /\ Full(frame'[a].event)
  BY <1>1, <1>3 DEF Held, Repeats
<1> HIDE DEF e
<1>5. Stands(a)'
  <2>1. CASE Recovery(e)
    <3>1. AtDropping(a)'
      BY <1>1, <1>3, <2>1 DEF AtDropping, e
    <3> QED
      BY <1>1, <2>1, <3>1 DEF Stands
  <2>2. CASE ~Recovery(e)
    <3>1. State' = Applied(Past, e)
      <4>1. errored' = Applied(Past, e).errored /\ discarded' = Applied(Past, e).discarded
        BY <1>1, <1>3, <2>2, SideLists DEF Recovery
      <4> QED
        BY <1>3, <4>1, StateIsAfter DEF State
    <3>2. Done(a)'
      BY <1>1, <1>3, <3>1 DEF Done, e
    <3> QED
      BY <1>1, <2>2, <3>2 DEF Stands
  <2> QED
    BY <2>1, <2>2
<1> QED
  BY <1>1, <1>4, <1>5, HeldStep

LEMMA FilterErroredLedger ==
  ASSUME Alone, Known, NEW a \in Actors, FilterErrored(a)
  PROVE  LedgerInv'
<1> DEFINE e == frame[a].event
<1>1. /\ MayRun(a) /\ pc[a] = "dropping" /\ e.kind = "recovered_guia"
      /\ UNCHANGED <<mode, guias, errored, discarded, rows, trail, sidecar, replay>>
      /\ \A b \in Actors \ {a} : pc'[b] = pc[b] /\ frame'[b] = frame[b]
      /\ pc'[a] = "filtered"
  BY DEF FilterErrored, Goto, service, Known, TypeInv, TypeOK
<1>2. frame'[a].event = e /\ frame'[a].marks = ErroredAfter(errored, e)
  <2>1. frame[a] \in Frame
    BY DEF Known, TypeInv, TypeOK
  <2> QED
    BY <2>1 DEF FilterErrored, Known, TypeInv, TypeOK, Frame
<1>3. AtDropping(a)
  BY <1>1 DEF Known, LedgerInv, CommitInv, Stands
<1> HIDE DEF e
<1>4. /\ Repeats(Past, e) /\ guias' = Applied(Past, e).guias
      /\ errored = Past.errored /\ discarded' = Past.discarded /\ Past' = Past
      /\ After(a)' = Applied(Past, e)
  BY <1>1, <1>2, <1>3 DEF AtDropping, After, Past, e
<1>5. frame'[a].marks = Applied(Past, e).errored
  BY <1>2, <1>4, SideLists
<1>6. AtFiltered(a)'
  BY <1>1, <1>2, <1>4, <1>5 DEF AtFiltered
<1>7. Stands(a)'
  BY <1>1, <1>6 DEF Stands
<1>8. pc'[a] \in Held /\ pc'[a] \notin {"outside", "ready", "checked", "idle"}
      /\ Full(frame'[a].event)
  BY <1>1, <1>2, <1>4 DEF Held, Repeats
<1> QED
  BY <1>1, <1>7, <1>8, HeldStep

LEMMA DropPageLedger ==
  ASSUME Alone, Known, NEW a \in Actors, DropPage(a)
  PROVE  LedgerInv'
<1> DEFINE e == frame[a].event
<1>1. /\ MayRun(a) /\ pc[a] = "dropping" /\ e.kind = "recovered_discarded_page"
      /\ UNCHANGED <<mode, guias, errored, rows, trail, sidecar, replay, frame>>
      /\ \A b \in Actors \ {a} : pc'[b] = pc[b]
      /\ pc'[a] = "reconciling" /\ discarded' = DiscardedAfter(discarded, e)
  BY DEF DropPage, Goto, Known, TypeInv, TypeOK
<1>2. AtDropping(a)
  BY <1>1 DEF Known, LedgerInv, CommitInv, Stands
<1> HIDE DEF e
<1>3. /\ Repeats(Past, e) /\ guias' = Applied(Past, e).guias
      /\ errored' = Past.errored /\ discarded = Past.discarded /\ Past' = Past
      /\ After(a)' = Applied(Past, e)
  BY <1>1, <1>2 DEF AtDropping, After, Past, e
<1>4. errored' = Applied(Past, e).errored /\ discarded' = Applied(Past, e).discarded
  BY <1>1, <1>3, SideLists
<1>5. State' = Applied(Past, e)
  BY <1>3, <1>4, StateIsAfter DEF State
<1>6. Done(a)'
  BY <1>1, <1>3, <1>5 DEF Done, e
<1>7. Stands(a)'
  BY <1>1, <1>6 DEF Stands
<1>8. pc'[a] \in Held /\ pc'[a] \notin {"outside", "ready", "checked", "idle"}
      /\ Full(frame'[a].event)
  BY <1>1, <1>3 DEF Held, Repeats, e
<1> QED
  BY <1>1, <1>7, <1>8, HeldStep

LEMMA AssignErroredLedger ==
  ASSUME Alone, Known, NEW a \in Actors, AssignErrored(a)
  PROVE  LedgerInv'
<1> DEFINE e == frame[a].event
<1>1. /\ MayRun(a) /\ pc[a] = "filtered"
      /\ UNCHANGED <<mode, guias, discarded, rows, trail, sidecar, replay, frame>>
      /\ \A b \in Actors \ {a} : pc'[b] = pc[b]
      /\ pc'[a] = IF e.kind = "retry_attempted" THEN "recording" ELSE "reconciling"
      /\ errored' = frame[a].marks
  BY DEF AssignErrored, Goto, Known, TypeInv, TypeOK
<1>2. AtFiltered(a)
  BY <1>1 DEF Known, LedgerInv, CommitInv, Stands
<1> HIDE DEF e
<1>3. /\ Repeats(Past, e) /\ guias' = Applied(Past, e).guias
      /\ errored' = Applied(Past, e).errored /\ discarded' = Past.discarded /\ Past' = Past
      /\ After(a)' = Applied(Past, e)
      /\ e.kind \in {"recovered_guia", "retry_attempted"}
      /\ e.kind = "retry_attempted" => rows' = guias'
  BY <1>1, <1>2 DEF AtFiltered, After, Past, e
<1>4. discarded' = Applied(Past, e).discarded
  BY <1>3, SideLists
<1>5. State' = Applied(Past, e)
  BY <1>3, <1>4, StateIsAfter DEF State
<1>6. Done(a)'
  BY <1>1, <1>3, <1>5 DEF Done, e
<1>7. Stands(a)'
  BY <1>1, <1>3, <1>6 DEF Stands, AtRecording
<1>8. pc'[a] \in Held /\ pc'[a] \notin {"outside", "ready", "checked", "idle"}
      /\ Full(frame'[a].event)
  BY <1>1, <1>3 DEF Held, Repeats, e
<1> QED
  BY <1>1, <1>7, <1>8, HeldStep

LEMMA RowsLedger ==
  ASSUME Alone, Known, NEW a \in Actors, ReadGuias(a) \/ AssignRows(a)
  PROVE  LedgerInv'
<1> DEFINE e == frame[a].event
<1>1. /\ MayRun(a) /\ UNCHANGED <<mode, guias, errored, discarded, trail, sidecar, replay>>
      /\ \A b \in Actors \ {a} : pc'[b] = pc[b] /\ frame'[b] = frame[b]
      /\ frame[a] \in Frame
  BY DEF ReadGuias, AssignRows, Goto, service, Known, TypeInv, TypeOK
<1>2. State' = State /\ Past' = Past
  BY <1>1 DEF State, Past
<1>3. CASE ReadGuias(a)
  <2>1. pc[a] = "reconciling" /\ pc'[a] = "computed" /\ frame'[a].event = e
        /\ frame'[a].list = guias
    BY <1>1, <1>3 DEF ReadGuias, Goto, Known, TypeInv, TypeOK, Frame
  <2>2. Done(a)
    BY <2>1 DEF Known, LedgerInv, CommitInv, Stands
  <2>3. AtComputed(a)'
    BY <1>1, <1>2, <2>1, <2>2 DEF AtComputed, Done, After
  <2>4. Stands(a)'
    BY <2>1, <2>3 DEF Stands
  <2>5. pc'[a] \in Held /\ pc'[a] \notin {"outside", "ready", "checked", "idle"}
        /\ Full(frame'[a].event)
    BY <2>1, <2>2 DEF Held, Repeats, Done
  <2> QED
    BY <1>1, <2>4, <2>5, HeldStep
<1>4. CASE AssignRows(a)
  <2>1. pc[a] = "computed" /\ pc'[a] = "recording" /\ frame' = frame /\ rows' = frame[a].list
    BY <1>4 DEF AssignRows, Goto, Known, TypeInv, TypeOK
  <2>2. AtComputed(a)
    BY <2>1 DEF Known, LedgerInv, CommitInv, Stands
  <2>3. AtRecording(a)'
    BY <1>1, <1>2, <2>1, <2>2 DEF AtComputed, AtRecording, Done, After
  <2>4. Stands(a)'
    BY <2>1, <2>3 DEF Stands
  <2>5. pc'[a] \in Held /\ pc'[a] \notin {"outside", "ready", "checked", "idle"}
        /\ Full(frame'[a].event)
    BY <2>1, <2>2 DEF Held, Repeats, Done, AtComputed
  <2> QED
    BY <1>1, <2>4, <2>5, HeldStep
<1> QED
  BY <1>3, <1>4

\* The event joins the trail: the lists already are what it makes of them.
LEMMA RecordLedger ==
  ASSUME Alone, Known, NEW a \in Actors, RecordEvent(a)
  PROVE  LedgerInv'
<1> DEFINE e == frame[a].event
<1>1. /\ MayRun(a) /\ pc[a] = "recording" /\ pc'[a] = "snapshotting"
      /\ UNCHANGED <<mode, guias, errored, discarded, rows, sidecar, replay, frame>>
      /\ trail' = Append(trail, e)
      /\ e \in Event /\ trail \in Seq(Event) /\ sidecar \in Seq(Event)
      /\ \A b \in Actors \ {a} : pc'[b] = pc[b] /\ frame'[b] = frame[b]
  BY DEF RecordEvent, Goto, Known, TypeInv, TypeOK, BusyHasEvent
<1>2. AtRecording(a) /\ TrailInv /\ FileInv
  BY <1>1 DEF Known, LedgerInv, CommitInv, Stands
<1> HIDE DEF e
<1>3. Repeats(Past, e) /\ State = Applied(Past, e) /\ rows = guias
  BY <1>2 DEF AtRecording, Done, After, e
<1>4. State' = State /\ Past' = State
  <2>1. Past' = Applied(Past, e)
    BY <1>1, RebuiltAppend DEF Past
  <2> QED
    BY <1>1, <1>3, <2>1 DEF State
<1>5. TrailInv'
  <2>1. Clean(trail')
    BY <1>1, <1>2, <1>3, CleanAppend DEF TrailInv, Past
  <2>2. StateType(State)
    BY StateTyped DEF Known
  <2>3. Matches(State)
    BY <1>1, <1>2, <1>3, MatchesKept DEF TrailInv
  <2> QED
    BY <1>4, <2>1, <2>2, <2>3 DEF TrailInv
<1>6. IsStart(sidecar, trail') /\ Len(sidecar) < Len(trail')
  BY <1>1, <1>2, StartOfLonger DEF FileInv, MayRun
<1>7. FileInv'
  BY <1>1, <1>2, <1>6 DEF FileInv, MayRun
<1>8. AtSnapshotting(a)'
  <2>1. trail'[Len(trail')] = e
    BY <1>1, AppendIsLonger
  <2> QED
    BY <1>1, <1>3, <1>4, <1>6, <2>1 DEF AtSnapshotting, e
<1>9. QuietInv' /\ CommitInv'
  <2>1. \A b \in Actors \ {a} : pc'[b] \notin Held
    BY <1>1, OthersOutside DEF Known
  <2>2. Stands(a)' /\ pc'[a] \in Held
    BY <1>1, <1>8 DEF Stands, Held
  <2> QED
    BY <2>1, <2>2, CommitStep
<1>10. FrameInv'
  BY <1>1, <1>3, FramesKept DEF Known, LedgerInv, Repeats, e
<1> QED
  BY <1>5, <1>7, <1>9, <1>10 DEF LedgerInv

LEMMA SnapshotLedger ==
  ASSUME Alone, Known, NEW a \in Actors, SnapshotTrail(a)
  PROVE  LedgerInv'
<1>1. /\ MayRun(a) /\ pc[a] = "snapshotting" /\ pc'[a] = "writing"
      /\ UNCHANGED <<mode, guias, errored, discarded, rows, trail, sidecar, replay>>
      /\ frame[a] \in Frame /\ frame'[a] = [frame[a] EXCEPT !.saved = trail]
      /\ \A b \in Actors \ {a} : pc'[b] = pc[b] /\ frame'[b] = frame[b]
  BY DEF SnapshotTrail, Goto, service, Known, TypeInv, TypeOK
<1>2. frame'[a].event = frame[a].event /\ frame'[a].saved = trail
  BY <1>1 DEF Frame
<1>3. AtSnapshotting(a)
  BY <1>1 DEF Known, LedgerInv, CommitInv, Stands
<1>4. AtWriting(a)'
  BY <1>1, <1>2, <1>3 DEF AtWriting, AtSnapshotting, State, Past
<1>5. Stands(a)'
  BY <1>1, <1>4 DEF Stands
<1>6. pc'[a] \in Held /\ pc'[a] \notin {"outside", "ready", "checked", "idle"}
      /\ Full(frame'[a].event)
  BY <1>1, <1>2 DEF Held, Known, LedgerInv, FrameInv
<1> QED
  BY <1>1, <1>5, <1>6, HeldStep

\* A call ends with its event in the trail (saved or not), or with nothing done.
LEMMA EndLedger ==
  ASSUME Alone, Known, NEW a \in Actors,
         WriteSidecar(a) \/ WriteFails(a) \/ CopyOutOfRange(a)
  PROVE  LedgerInv'
<1>1. /\ MayRun(a) /\ pc[a] \in {"writing", "checked"} /\ Return(a)
      /\ UNCHANGED <<mode, guias, errored, discarded, rows, trail, replay>>
      /\ sidecar' # sidecar => pc[a] = "writing" /\ sidecar' = frame[a].saved
  BY DEF WriteSidecar, WriteFails, CopyOutOfRange, service
<1>2. pc'[a] = "idle" /\ \A b \in Actors \ {a} : pc'[b] = pc[b] /\ frame'[b] = frame[b]
  BY <1>1 DEF Return, Known, TypeInv, TypeOK
<1>3. State = Past /\ rows = guias
  BY <1>1 DEF Known, LedgerInv, CommitInv, Stands, AtWriting, AtSnapshotting, AtChecked
<1>4. State' = State /\ Past' = Past
  BY <1>1 DEF State, Past
<1>5. QuietInv' /\ CommitInv'
  <2>1. \A b \in Actors \ {a} : pc'[b] \notin Held
    BY <1>1, <1>2, OthersOutside DEF Known
  <2>2. Stands(a)' /\ (State = Past /\ rows = guias)'
    BY <1>1, <1>2, <1>3, <1>4 DEF Stands
  <2> QED
    BY <2>1, <2>2, CommitStep
<1>6. FrameInv'
  BY <1>2, FramesKept DEF Known, LedgerInv
<1>7. TrailInv'
  BY <1>1, <1>4 DEF Known, LedgerInv, TrailInv
<1>8. FileInv'
  <2>1. sidecar' = sidecar \/ sidecar' = trail
    BY <1>1 DEF Known, LedgerInv, CommitInv, Stands, AtWriting
  <2>2. IsStart(trail, trail)
    BY DEF IsStart
  <2> QED
    BY <1>1, <2>1, <2>2 DEF Known, LedgerInv, TrailInv, FileInv, MayRun
<1> QED
  BY <1>5, <1>6, <1>7, <1>8 DEF LedgerInv

-----------------------------------------------------------------------------
(* Crash, restart, replay *)

\* The pipeline lists as errored the blocks it found no line for.
LEMMA CachedState == StateType(Cached) /\ Matches(Cached)
<1>1. Matches(Cached)
  <2>1. \A x \in CachedErrored : StandsForEmpty(CachedGuias, x)
    BY DEF CachedErrored, StandsForEmpty
  <2>2. ASSUME NEW i \in DOMAIN CachedGuias, CachedGuias[i].lines = <<>>
        PROVE  EmptyIsKnown(CachedGuias, CachedErrored, i)
    <3> DEFINE x == [guia_id |-> CachedGuias[i].guia_id, block |-> i, retry_attempted |-> FALSE]
    <3>1. x \in CachedErrored
      BY <2>2 DEF CachedErrored
    <3> QED
      BY <3>1 DEF EmptyIsKnown
  <2> QED
    BY <2>1, <2>2 DEF Matches, Cached
<1>2. StateType(Cached)
  BY CachedErroredType, ConstantsAssumption DEF StateType, Cached
<1> QED
  BY <1>1, <1>2

LEMMA CachedLedger ==
  ASSUME mode \in {"serving", "down"}, State = Cached, rows = guias, trail = <<>>,
         \A a \in Actors : pc[a] = "idle", Clean(sidecar), mode = "serving" => sidecar = <<>>
  PROVE  LedgerInv
<1>1. Past = Cached
  BY RebuiltEmpty DEF Past
<1>2. QuietInv /\ CommitInv /\ FrameInv
  BY <1>1 DEF QuietInv, CommitInv, Stands, FrameInv
<1>3. TrailInv
  BY <1>1, CachedState, CleanEmpty DEF TrailInv
<1>4. IsStart(<<>>, <<>>)
  BY DEF IsStart
<1> QED
  BY <1>2, <1>3, <1>4 DEF LedgerInv, FileInv

LEMMA InitLedger == Init => LedgerInv
BY CachedLedger, CleanEmpty DEF Init, State, Cached

LEMMA CrashLedger ==
  ASSUME Known, Crash \/ ReplayFails
  PROVE  LedgerInv'
<1>1. /\ mode' = "down" /\ State' = Cached /\ rows' = guias' /\ trail' = <<>>
      /\ \A a \in Actors : pc'[a] = "idle"
      /\ sidecar' = sidecar /\ Clean(sidecar)
  BY DEF Crash, ReplayFails, Forget, State, Cached, Known, LedgerInv, FileInv
<1>2. Past' = Cached
  BY <1>1, RebuiltEmpty DEF Past
<1>3. QuietInv' /\ CommitInv' /\ FrameInv'
  BY <1>1, <1>2 DEF QuietInv, CommitInv, Stands, FrameInv
<1>4. TrailInv'
  BY <1>1, <1>2, CachedState, CleanEmpty DEF TrailInv
<1> QED
  BY <1>1, <1>3, <1>4 DEF LedgerInv, FileInv

LEMMA HydrateLedger ==
  ASSUME Known, Hydrate
  PROVE  LedgerInv'
<1>1. /\ mode = "down" /\ trail = <<>> /\ sidecar \in Seq(Event) /\ Clean(sidecar)
      /\ UNCHANGED <<guias, errored, discarded, rows, trail, sidecar, pc, frame>>
      /\ replay' = sidecar /\ mode' = IF sidecar = <<>> THEN "serving" ELSE "replaying"
  BY DEF Hydrate, service, actors, Known, TypeInv, TypeOK, LedgerInv, FileInv
<1>2. QuietInv' /\ CommitInv'
  BY <1>1, OutsideKept DEF Known, LedgerInv
<1>3. FrameInv' /\ TrailInv'
  BY <1>1 DEF Known, LedgerInv, FrameInv, TrailInv, Past
<1>4. FileInv'
  <2>1. trail \o sidecar = sidecar /\ IsStart(<<>>, <<>>) /\ IsStart(sidecar, sidecar)
    BY <1>1, ConcatEmptySeq DEF IsStart
  <2> QED
    BY <1>1, <2>1 DEF FileInv
<1> QED
  BY <1>2, <1>3, <1>4 DEF LedgerInv

\* A replayed event is accepted, recorded as it was, and makes the same lists.
LEMMA ReplayLedger ==
  ASSUME Known, ReplayEvent
  PROVE  LedgerInv' /\ sidecar' = trail' /\ trail' \o replay' = trail \o replay
<1> DEFINE e == Head(replay)
<1>1. /\ mode = "replaying" /\ trail \in Seq(Event) /\ replay \in Seq(Event) /\ replay # <<>>
      /\ UNCHANGED <<pc, frame>> /\ \A a \in Actors : pc[a] = "idle"
      /\ Clean(trail \o replay) /\ TrailInv /\ replay' = Tail(replay)
  BY DEF ReplayEvent, actors, Known, TypeInv, TypeOK, ReplayPending, ControlInv, IdleWhenDown,
     LedgerInv, FileInv
<1>2. State = Past /\ rows = guias
  BY <1>1 DEF Known, LedgerInv, QuietInv, Quiet, Held
<1>3. /\ Repeats(Past, e) /\ e \in Event /\ Tail(replay) \in Seq(Event)
      /\ Append(trail, e) \o Tail(replay) = trail \o replay
  BY <1>1, CleanNext DEF Past
<1> HIDE DEF e
<1>4. ~(Rejected(State, e) \/ NoOp(State, e)) /\ Recorded(State.guias, e) = e
  BY <1>2, <1>3 DEF Repeats, Accepts
<1>5. TrailAfter(State, trail, e) = Append(trail, e)
  BY <1>4 DEF TrailAfter
<1>6. trail' = Append(trail, e) /\ sidecar' = trail'
  BY <1>4, <1>5 DEF ReplayEvent, e
<1>7. Past' = Applied(Past, e)
  BY <1>1, <1>3, <1>6, RebuiltAppend DEF Past
<1>8. State' = Past'
  <2>1. /\ guias' = Applied(State, e).guias /\ errored' = Applied(State, e).errored
        /\ discarded' = Applied(State, e).discarded
    BY DEF ReplayEvent, e
  <2> QED
    BY <1>2, <1>3, <1>7, <2>1, StateIsAfter DEF State
<1>9. rows' = guias'
  <2>1. /\ guias' = Applied(Past, e).guias
        /\ rows' = IF e.kind = "retry_attempted" THEN rows ELSE Applied(Past, e).guias
    BY <1>2, <1>4 DEF ReplayEvent, e
  <2>2. e.kind = "retry_attempted" => Applied(Past, e).guias = guias
    <3>1. Past.guias = guias /\ StateType(Past)
      BY <1>1, <1>2 DEF State, TrailInv
    <3> QED
      BY <1>3, <3>1, PlacedWhere
  <2> QED
    BY <1>2, <2>1, <2>2
<1>10. QuietInv' /\ CommitInv' /\ FrameInv'
  BY <1>1, <1>8, <1>9 DEF QuietInv, CommitInv, Stands, FrameInv
<1>11. TrailInv'
  <2>1. Clean(trail')
    BY <1>1, <1>3, <1>6, CleanAppend DEF TrailInv, Past
  <2>2. StateType(Past')
    <3>1. Next
      BY DEF Next
    <3>2. TypeInv'
      BY <3>1, NextType DEF Known
    <3> QED
      BY <1>8, <3>2 DEF State, StateType, TypeInv, TypeOK
  <2>3. Matches(Past')
    BY <1>1, <1>3, <1>7, MatchesKept DEF TrailInv
  <2> QED
    BY <2>1, <2>2, <2>3 DEF TrailInv
<1>12. trail' \o replay' = trail \o replay
  BY <1>1, <1>3, <1>6
<1>13. FileInv'
  <2>1. IsStart(trail', trail')
    BY DEF IsStart
  <2>2. mode' \in {"serving", "replaying"}
    BY DEF ReplayEvent
  <2>3. IsStart(trail', trail' \o replay')
    BY <1>1, <1>3, <1>6, BeginsConcat, AppendProperties
  <2> QED
    BY <1>1, <1>6, <1>11, <1>12, <2>1, <2>2, <2>3 DEF FileInv, TrailInv
<1> QED
  BY <1>6, <1>10, <1>11, <1>12, <1>13 DEF LedgerInv

-----------------------------------------------------------------------------
(* The theorems *)

LEMMA ActorLedger ==
  ASSUME Alone, Known, NEW a \in Actors,
         Check(a) \/ CopyGuias(a) \/ InnerStep(a) \/ EndingStep(a)
  PROVE  LedgerInv'
<1>1. CASE Answered(a) \/ RetryUnanswered(a) \/ RecoveryUnanswered(a) \/ Refuse(a)
  BY <1>1, OutsideLedger
<1>2. CASE Check(a) \/ CopyGuias(a)
  BY <1>2, CheckLedger, CopyLedger
<1>3. CASE AssignGuias(a) \/ FilterErrored(a) \/ AssignErrored(a) \/ DropPage(a)
  BY <1>3, AssignGuiasLedger, FilterErroredLedger, AssignErroredLedger, DropPageLedger
<1>4. CASE ReadGuias(a) \/ AssignRows(a)
  BY <1>4, RowsLedger
<1>5. CASE RecordEvent(a) \/ SnapshotTrail(a)
  BY <1>5, RecordLedger, SnapshotLedger
<1>6. CASE WriteSidecar(a) \/ WriteFails(a) \/ CopyOutOfRange(a)
  BY <1>6, EndLedger
<1> QED
  BY <1>1, <1>2, <1>3, <1>4, <1>5, <1>6 DEF InnerStep, EndingStep

LEMMA NextLedger == Alone /\ Known /\ [Next]_vars => Known'
<1> SUFFICES ASSUME Alone, Known, [Next]_vars PROVE LedgerInv'
  BY NextType, NextControl, NextPlaces DEF Known
<1>1. CASE UNCHANGED vars
  <2>1. QuietInv' /\ CommitInv'
    BY <1>1, OutsideKept DEF vars, service, actors, Known, LedgerInv
  <2>2. TrailInv' /\ FileInv'
    BY <1>1, FilesKept DEF vars, service, actors, Known, LedgerInv
  <2> QED
    BY <1>1, <2>1, <2>2 DEF vars, service, actors, Known, LedgerInv, FrameInv
<1>2. ASSUME NEW t \in Threads, ThreadStep(t) PROVE LedgerInv'
  <2>1. Check(t) \/ CopyGuias(t) \/ InnerStep(t) \/ EndingStep(t)
    BY <1>2, CommitSteps DEF ThreadStep, InnerStep
  <2> QED
    BY <2>1, ActorLedger DEF Actors
<1>3. ASSUME NEW c \in Tasks, TaskStep(c) PROVE LedgerInv'
  <2>1. Check(c) \/ CopyGuias(c) \/ InnerStep(c) \/ EndingStep(c)
    BY <1>3, CommitSteps DEF TaskStep, InnerStep, EndingStep
  <2> QED
    BY <2>1, ActorLedger DEF Actors
<1> QED
  BY <1>1, <1>2, <1>3, RequestsLedger, CrashLedger, HydrateLedger, ReplayLedger DEF Next

LEMMA InitKnown == Init => Known
BY InitType, InitControl, InitPlaces, InitLedger DEF Known

\* Whenever no call is under way, replaying the trail from the extraction cache
\* gives back the three lists in memory: what restore_from_sidecar will find.
THEOREM TrailIsEnough ==
  ASSUME Alone
  PROVE  Spec => []TrailExplainsState
<1>1. Known => TrailExplainsState
  BY DEF Known, LedgerInv, QuietInv, Quiet, Held, Past, TrailExplainsState, AtRest, Untouched
<1> QED
  BY <1>1, InitKnown, NextLedger, PTL DEF Spec

\* Whenever no call is under way, self._rows were reconciled from self._guias as
\* they are: every mutator reconciles after it assigns, and so does a replay.
THEOREM RowsStayFresh ==
  ASSUME Alone
  PROVE  Spec => []RowsFresh
<1>1. Known => RowsFresh
  BY DEF Known, LedgerInv, QuietInv, Quiet, Held, RowsFresh, AtRest, Untouched
<1> QED
  BY <1>1, InitKnown, NextLedger, PTL DEF Spec

\* Whenever no call is under way, an errored entry stands for a block that has
\* no line yet, and a block without lines is errored unless another block of its
\* guía has lines: add_recovered_guia keeps the two lists together, and no edit
\* gives a guía its first line or takes its last one.
THEOREM ErroredListAgrees ==
  ASSUME Alone
  PROVE  Spec => []ErroredMatchesPlaceholders
<1>1. Known => ErroredMatchesPlaceholders
  <2> SUFFICES ASSUME Known, AtRest PROVE ErroredMatchesPlaceholders
    BY DEF ErroredMatchesPlaceholders
  <2>1. State = Past /\ Matches(Past)
    BY DEF Known, LedgerInv, QuietInv, Quiet, Held, TrailInv, AtRest, Untouched
  <2>2. Matches(State)
    BY <2>1
  <2>3. State.guias = guias /\ State.errored = errored
    BY DEF State
  <2> QED
    BY <2>2, <2>3 DEF Matches, StandsForEmpty, EmptyIsKnown, HasLines, ErroredMatchesPlaceholders
<1> QED
  BY <1>1, InitKnown, NextLedger, PTL DEF Spec

\* While it serves, the file holds a beginning of the trail, also after any
\* number of crashes and replays: a failed write only leaves it shorter.
THEOREM FileStaysAPrefix ==
  ASSUME Alone
  PROVE  Spec => []SidecarIsPrefix
<1>1. Known => SidecarIsPrefix
  BY DEF Known, LedgerInv, FileInv, IsStart, SidecarIsPrefix
<1> QED
  BY <1>1, InitKnown, NextLedger, PTL DEF Spec

\* While it serves, only AssignGuias replaces the list of guías.
LEMMA GuiasReplaced ==
  ASSUME TypeInv, [Next]_vars, mode = "serving", mode' = "serving"
  PROVE  guias' = guias \/ \E a \in Actors : AssignGuias(a)
<1>1. ASSUME NEW a \in Actors, Check(a) \/ CopyGuias(a) \/ InnerStep(a) \/ EndingStep(a)
      PROVE  guias' = guias \/ AssignGuias(a)
  BY <1>1 DEF Check, CopyGuias, InnerStep, EndingStep, Answered, RetryUnanswered, FilterErrored,
     AssignErrored, DropPage, ReadGuias, AssignRows, RecordEvent, SnapshotTrail,
     RecoveryUnanswered, Refuse, CopyOutOfRange, WriteSidecar, WriteFails, service
<1>2. ASSUME NEW t \in Threads, ThreadStep(t) PROVE guias' = guias \/ AssignGuias(t)
  <2>1. Check(t) \/ CopyGuias(t) \/ InnerStep(t) \/ EndingStep(t)
    BY <1>2, CommitSteps DEF ThreadStep, InnerStep
  <2> QED
    BY <1>1, <2>1 DEF Actors
<1>3. ASSUME NEW c \in Tasks, TaskStep(c) PROVE guias' = guias \/ AssignGuias(c)
  <2>1. Check(c) \/ CopyGuias(c) \/ InnerStep(c) \/ EndingStep(c)
    BY <1>3, CommitSteps DEF TaskStep, InnerStep, EndingStep
  <2> QED
    BY <1>1, <2>1 DEF Actors
<1>4. ASSUME NEW t, OperatorRequest(t) \/ RetryRequest(t) PROVE guias' = guias
  BY <1>4 DEF OperatorRequest, RetryRequest, Receive, service
<1>5. ASSUME NEW c, ReprocessRequest(c) \/ PageRequest(c) PROVE guias' = guias
  BY <1>5 DEF ReprocessRequest, PageRequest, Receive, service
<1>6. ~Crash /\ ~Hydrate /\ ~ReplayEvent /\ ~ReplayFails
  BY DEF Crash, Forget, Hydrate, ReplayEvent, ReplayFails
<1> QED
  BY <1>2, <1>3, <1>4, <1>5, <1>6 DEF Next, vars, service, Actors

\* A placeholder that gets its lines stays in the registro it is in at that
\* moment (add_recovered_guia inherits it from the placeholder it replaces).
THEOREM RecoveriesKeepRegistro ==
  ASSUME Alone
  PROVE  Spec => RecoveryKeepsRegistro
<1> DEFINE Kept == mode = "serving" /\ mode' = "serving" =>
                     \A i \in DOMAIN guias \cap DOMAIN guias' :
                       guias[i].lines = <<>> /\ guias'[i].lines # <<>> =>
                         guias'[i].registro = guias[i].registro
<1>1. Known /\ [Next]_vars => Kept
  <2> SUFFICES ASSUME Known, [Next]_vars, mode = "serving", mode' = "serving"
               PROVE  SameRegistro(guias, guias')
    BY DEF SameRegistro
  <2>1. CASE guias' = guias
    BY <2>1 DEF SameRegistro
  <2>2. ASSUME NEW a \in Actors, AssignGuias(a) PROVE SameRegistro(guias, guias')
    <3>1. AtCopied(a) /\ guias' = frame[a].list
      BY <2>2 DEF AssignGuias, Goto, Known, LedgerInv, CommitInv, Stands
    <3> QED
      BY <3>1 DEF AtCopied
  <2> QED
    BY <2>1, <2>2, GuiasReplaced DEF Known
<1> QED
  BY <1>1, InitKnown, NextLedger, PTL DEF Spec, RecoveryKeepsRegistro

-----------------------------------------------------------------------------
(* The promise *)

\* The one step that reports: what it adds to the file ends with its event.
LEMMA WriteSaves ==
  ASSUME Known, NEW a \in Actors, WriteSidecar(a)
  PROVE  Promise!Save(frame[a].event)
<1> DEFINE e == frame[a].event
<1>1. /\ mode = "serving" /\ mode' = mode /\ sidecar' = trail
      /\ sidecar \in Seq(Event) /\ trail \in Seq(Event)
      /\ acked' = acked \cup {e}
      /\ Len(sidecar) < Len(trail) /\ trail[Len(trail)] = e /\ IsStart(sidecar, trail)
  BY DEF WriteSidecar, MayRun, Known, TypeInv, TypeOK, LedgerInv, CommitInv, Stands, AtWriting,
     AtSnapshotting, FileInv
<1> HIDE DEF e
<1>2. Ledger = sidecar /\ Ledger' = trail
  BY <1>1 DEF Ledger
<1>3. Len(sidecar) \in Nat /\ Len(trail) \in Nat /\ Len(trail) \in 1 .. Len(trail)
  BY <1>1
<1>4. SubSeq(trail, 1, Len(sidecar)) = sidecar
  BY <1>1, StartIsCut DEF Upto
<1> QED
  BY <1>1, <1>2, <1>3, <1>4 DEF Promise!Save, e

\* A replay cut short leaves the file it had written so far, a beginning of the
\* saved edits.
LEMMA BreakingOffCuts ==
  ASSUME Known, Crash \/ ReplayFails
  PROVE  (Ledger' = Ledger /\ acked' = acked) \/ (BreaksOff /\ Promise!Cut)
<1>1. mode' = "down" /\ sidecar' = sidecar /\ acked' = acked
  BY DEF Crash, ReplayFails, Forget
<1>2. Ledger' = sidecar
  BY <1>1 DEF Ledger
<1>3. CASE mode # "replaying"
  BY <1>1, <1>2, <1>3 DEF Ledger
<1>4. CASE mode = "replaying"
  <2>1. /\ Ledger = trail \o replay /\ IsStart(sidecar, Ledger)
        /\ sidecar \in Seq(Event) /\ trail \in Seq(Event) /\ replay \in Seq(Event)
    BY <1>4 DEF Ledger, Known, TypeInv, TypeOK, LedgerInv, FileInv
  <2>2. Ledger \in Seq(Event)
    BY <2>1, ConcatProperties
  <2> HIDE DEF Ledger
  <2>3. sidecar = SubSeq(Ledger, 1, Len(sidecar))
    BY <2>1, <2>2, StartIsCut DEF Upto
  <2>4. Len(sidecar) \in 0 .. Len(Ledger)
    BY <2>1, <2>2 DEF IsStart
  <2>5. Promise!Cut
    BY <1>1, <1>2, <2>3, <2>4 DEF Promise!Cut
  <2> QED
    BY <1>1, <1>4, <2>5 DEF BreaksOff
<1> QED
  BY <1>3, <1>4

\* Everything else leaves the ledger and the reports alone.
LEMMA StepsKeepPromise ==
  ASSUME Known, [Next]_vars
  PROVE  [Promise!Next \/ (BreaksOff /\ Promise!Cut)]_<<Ledger, acked>>
<1> SUFFICES \/ \E a \in Actors : WriteSidecar(a)
             \/ BreaksOff /\ Promise!Cut
             \/ Ledger' = Ledger /\ acked' = acked
  <2>1. ASSUME NEW a \in Actors, WriteSidecar(a) PROVE Promise!Next
    <3>1. frame[a].event \in acked'
      BY <2>1 DEF WriteSidecar
    <3> QED
      BY <2>1, <3>1, WriteSaves DEF Promise!Next
  <2> QED
    BY <2>1
<1>1. ASSUME NEW a \in Actors, Check(a) \/ CopyGuias(a) \/ InnerStep(a) \/ EndingStep(a)
      PROVE  WriteSidecar(a) \/ (Ledger' = Ledger /\ acked' = acked)
  <2>1. CASE Check(a) \/ CopyGuias(a) \/ InnerStep(a)
    <3>1. mode = "serving" /\ mode' = mode /\ sidecar' = sidecar /\ acked' = acked
      BY <2>1 DEF Check, CopyGuias, InnerStep, Answered, RetryUnanswered, AssignGuias,
         FilterErrored, AssignErrored, DropPage, ReadGuias, AssignRows, RecordEvent,
         SnapshotTrail, MayRun, service
    <3> QED
      BY <3>1 DEF Ledger
  <2>2. CASE RecoveryUnanswered(a) \/ Refuse(a) \/ CopyOutOfRange(a) \/ WriteFails(a)
    <3>1. mode = "serving" /\ mode' = mode /\ sidecar' = sidecar /\ acked' = acked
      BY <2>2 DEF RecoveryUnanswered, Refuse, CopyOutOfRange, WriteFails, MayRun, service
    <3> QED
      BY <3>1 DEF Ledger
  <2> QED
    BY <1>1, <2>1, <2>2 DEF EndingStep
<1>2. ASSUME NEW t \in Threads, ThreadStep(t)
      PROVE  WriteSidecar(t) \/ (Ledger' = Ledger /\ acked' = acked)
  <2>1. Check(t) \/ CopyGuias(t) \/ InnerStep(t) \/ EndingStep(t)
    BY <1>2, CommitSteps DEF ThreadStep, InnerStep
  <2> QED
    BY <1>1, <2>1 DEF Actors
<1>3. ASSUME NEW c \in Tasks, TaskStep(c)
      PROVE  WriteSidecar(c) \/ (Ledger' = Ledger /\ acked' = acked)
  <2>1. Check(c) \/ CopyGuias(c) \/ InnerStep(c) \/ EndingStep(c)
    BY <1>3, CommitSteps DEF TaskStep, InnerStep, EndingStep
  <2> QED
    BY <1>1, <2>1 DEF Actors
<1>4. ASSUME NEW a, NEW e, NEW to, Receive(a, to, e) PROVE Ledger' = Ledger /\ acked' = acked
  BY <1>4 DEF Receive, MayRun, service, Ledger
<1>5. ASSUME NEW t, OperatorRequest(t) \/ RetryRequest(t)
      PROVE  Ledger' = Ledger /\ acked' = acked
  BY <1>4, <1>5 DEF OperatorRequest, RetryRequest
<1>6. ASSUME NEW c, ReprocessRequest(c) \/ PageRequest(c)
      PROVE  Ledger' = Ledger /\ acked' = acked
  BY <1>4, <1>6 DEF ReprocessRequest, PageRequest
<1>7. CASE Crash \/ ReplayFails
  BY <1>7, BreakingOffCuts
<1>8. CASE Hydrate
  <2>1. /\ mode = "down" /\ trail = <<>> /\ sidecar \in Seq(Event)
        /\ mode' \in {"serving", "replaying"}
        /\ sidecar' = sidecar /\ trail' = trail /\ replay' = sidecar /\ acked' = acked
    BY <1>8 DEF Hydrate, service, Known, TypeInv, TypeOK, LedgerInv, FileInv
  <2>2. trail \o sidecar = sidecar
    BY <2>1, ConcatEmptySeq
  <2> QED
    BY <2>1, <2>2 DEF Ledger
<1>9. CASE ReplayEvent
  <2>1. /\ mode = "replaying" /\ mode' = (IF Len(replay) = 1 THEN "serving" ELSE "replaying")
        /\ replay' = Tail(replay) /\ replay \in Seq(Event) /\ replay # <<>> /\ acked' = acked
    BY <1>9 DEF ReplayEvent, Known, TypeInv, TypeOK, ReplayPending
  <2>2. sidecar' = trail' /\ trail' \o replay' = trail \o replay
    BY <1>9, ReplayLedger
  <2>3. CASE Len(replay) = 1
    <3>1. replay' = <<>>
      BY <2>1, <2>3, HeadTailProperties, EmptySeq
    <3>2. trail' \in Seq(Event)
      <4>1. Next
        BY <1>9 DEF Next
      <4> QED
        BY <4>1, NextType DEF Known, TypeInv, TypeOK
    <3>3. trail' \o replay' = trail'
      BY <3>1, <3>2, ConcatEmptySeq
    <3> QED
      BY <2>1, <2>2, <2>3, <3>3 DEF Ledger
  <2>4. CASE Len(replay) # 1
    BY <2>1, <2>2, <2>4 DEF Ledger
  <2> QED
    BY <2>3, <2>4
<1>10. CASE UNCHANGED vars
  BY <1>10 DEF vars, service, Ledger
<1> QED
  BY <1>2, <1>3, <1>5, <1>6, <1>7, <1>8, <1>9, <1>10 DEF Next, Actors

\* The review is a ledger, whatever crashes and whichever write fails: an edit is
\* saved before its caller is told so, and the saved edits only grow at their
\* end.  Only a replay cut short, by a crash or by a failing write of its own,
\* takes saved edits back, and then the newest (_persist, restore_from_sidecar;
\* REV-008).
THEOREM ReviewKeepsPromise ==
  ASSUME Alone
  PROVE  Spec => KeepsPromise
<1>1. Init => Promise!Init
  BY DEF Init, Promise!Init, Ledger
<1>2. Known /\ [Next]_vars => [Promise!Next \/ (BreaksOff /\ Promise!Cut)]_<<Ledger, acked>>
  BY StepsKeepPromise
<1> QED
  BY <1>1, <1>2, InitKnown, NextLedger, PTL DEF Spec, KeepsPromise

\* As long as no replay is cut short the review implements the ledger as it is
\* specified, with nothing taken back.
THEOREM ReviewImplementsLedger ==
  ASSUME Alone
  PROVE  Spec /\ [][~BreaksOff]_vars => Promise!Spec
<1>1. Init => Promise!Init
  BY DEF Init, Promise!Init, Ledger
<1>2. Known /\ [Next]_vars /\ [~BreaksOff]_vars => [Promise!Next]_<<Ledger, acked>>
  <2>1. [~BreaksOff]_vars => ~BreaksOff
    BY DEF BreaksOff, vars
  <2> QED
    BY <2>1, StepsKeepPromise
<1> QED
  BY <1>1, <1>2, InitKnown, NextLedger, PTL DEF Spec, Promise!Spec

Saved == \A e \in acked : \E i \in DOMAIN Ledger : Ledger[i] = e

\* As long as no replay is cut short, an edit whose caller was answered 200 is in
\* the file a restart replays, at every later moment at which the review serves:
\* crashes between calls and inside them, and writes that fail then, lose none
\* (_persist before the return).
THEOREM AckedStaysDurable ==
  ASSUME Alone
  PROVE  Spec /\ [][~BreaksOff]_vars => []AckedDurable
<1>1. Init => Saved
  BY DEF Init, Saved
<1>2. Known /\ Saved /\ [Next]_vars /\ [~BreaksOff]_vars => Saved'
  <2> SUFFICES ASSUME Known, Saved, [Next]_vars, [~BreaksOff]_vars PROVE Saved'
    OBVIOUS
  <2>1. CASE Ledger' = Ledger /\ acked' = acked
    BY <2>1 DEF Saved
  <2>2. CASE Promise!Next
    <3>1. /\ Ledger \in Seq(Event) /\ Ledger' \in Seq(Event)
      <4>1. TypeOK /\ TypeOK'
        BY NextType DEF Known, TypeInv
      <4> QED
        BY <4>1, ConcatProperties DEF TypeOK, Ledger
    <3>2. PICK e : Promise!Save(e) \/ Promise!Report(e)
      BY <2>2 DEF Promise!Next
    <3>3. CASE Promise!Report(e)
      BY <3>1, <3>3 DEF Promise!Report, Saved
    <3>4. CASE Promise!Save(e)
      <4>1. /\ Len(Ledger') > Len(Ledger) /\ Upto(Ledger', Len(Ledger)) = Ledger
            /\ \E i \in 1 .. Len(Ledger') : Ledger'[i] = e
            /\ acked' = acked \cup {e}
        BY <3>4 DEF Promise!Save, Upto
      <4>2. \A i \in DOMAIN Ledger : i \in DOMAIN Ledger' /\ Ledger'[i] = Ledger[i]
        <5>1. Len(Ledger) \in Nat /\ Len(Ledger') \in Nat /\ DOMAIN Ledger = 1 .. Len(Ledger)
              /\ DOMAIN Ledger' = 1 .. Len(Ledger')
          BY <3>1
        <5>2. \A i \in 1 .. Len(Ledger) : Upto(Ledger', Len(Ledger))[i] = Ledger'[i]
          <6>1. \A i \in 1 .. Len(Ledger) : Ledger'[i] \in Event
            BY <3>1, <4>1, <5>1
          <6> QED
            BY <5>1, <6>1, SubSeqProperties DEF Upto
        <5> QED
          BY <4>1, <5>1, <5>2
      <4> HIDE DEF Ledger
      <4> QED
        BY <3>1, <4>1, <4>2 DEF Saved
    <3> QED
      BY <3>2, <3>3, <3>4
  <2>3. ~BreaksOff
    BY DEF BreaksOff, vars
  <2> QED
    BY <2>1, <2>2, <2>3, StepsKeepPromise
<1>3. Saved => AckedDurable
  BY DEF Saved, AckedDurable, Ledger
<1> QED
  BY <1>1, <1>2, <1>3, InitKnown, NextLedger, PTL DEF Spec
=============================================================================
