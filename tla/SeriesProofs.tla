---------------------------- MODULE SeriesProofs ----------------------------
(***************************************************************************)
(* What Series promises for any occurrences, contents and recurrences, and *)
(* for any number of changes by people, failures, lost answers and stops:  *)
(* an occurrence is only hidden on evidence, and Reconcile Now tells of    *)
(* what its full pass left out of step.                                    *)
(*                                                                         *)
(* The first part says what each step does to the run and its agenda.  The *)
(* invariants after it speak of the agenda as a set of items: what they    *)
(* were read from, what they still concern, and who is bound to be decided *)
(* before a full pass ends.                                                *)
(***************************************************************************)
EXTENDS Series, SequenceTheorems, TLAPS

ItemsOf(agenda) == {agenda[i] : i \in 1..Len(agenda)}

Asked == ItemsOf(run.agenda)
Decisions == {item \in Asked : item.do = "decide"}

(***************************************************************************)
(* Agendas as sequences and as sets.                                       *)
(***************************************************************************)
LEMMA ItemsOfNone == ItemsOf(<<>>) = {}
  BY DEF ItemsOf

LEMMA ItemsOfOne ==
  ASSUME NEW a
  PROVE  /\ ItemsOf(<<a>>) = {a} /\ <<a>> # <<>>
         /\ Head(<<a>>) = a /\ Tail(<<a>>) = <<>>
<1>1. Len(<<a>>) = 1 /\ <<a>>[1] = a /\ 1..1 = {1}
  OBVIOUS
<1>2. ItemsOf(<<a>>) = {a}
  BY <1>1 DEF ItemsOf
<1> QED BY <1>2

LEMMA ItemsOfConcat ==
  ASSUME NEW S, NEW s \in Seq(S), NEW t \in Seq(S)
  PROVE  /\ s \o t \in Seq(S)
         /\ ItemsOf(s \o t) = ItemsOf(s) \cup ItemsOf(t)
<1>1. /\ s \o t \in Seq(S) /\ Len(s) \in Nat /\ Len(t) \in Nat
      /\ Len(s \o t) = Len(s) + Len(t)
      /\ \A i \in 1..Len(s) + Len(t) :
           (s \o t)[i] = IF i <= Len(s) THEN s[i] ELSE t[i - Len(s)]
  BY ConcatProperties, LenProperties
<1>2. ASSUME NEW x \in ItemsOf(s \o t)
      PROVE  x \in ItemsOf(s) \cup ItemsOf(t)
  <2>1. PICK i \in 1..Len(s) + Len(t) : x = (s \o t)[i]
    BY <1>1 DEF ItemsOf
  <2>2. i \in 1..Len(s) \/ i - Len(s) \in 1..Len(t)
    BY <1>1
  <2>3. CASE i \in 1..Len(s)
    BY <1>1, <2>1, <2>3 DEF ItemsOf
  <2>4. CASE i \notin 1..Len(s) /\ i - Len(s) \in 1..Len(t)
    BY <1>1, <2>1, <2>4 DEF ItemsOf
  <2> QED BY <2>2, <2>3, <2>4
<1>3. ASSUME NEW x \in ItemsOf(s)
      PROVE  x \in ItemsOf(s \o t)
  BY <1>1 DEF ItemsOf
<1>4. ASSUME NEW x \in ItemsOf(t)
      PROVE  x \in ItemsOf(s \o t)
  <2>1. PICK j \in 1..Len(t) : x = t[j]
    BY DEF ItemsOf
  <2>2. /\ j + Len(s) \in 1..Len(s) + Len(t) /\ ~(j + Len(s) <= Len(s))
        /\ (j + Len(s)) - Len(s) = j
    BY <1>1
  <2>3. (s \o t)[j + Len(s)] = x
    BY <1>1, <2>1, <2>2
  <2> QED BY <1>1, <2>2, <2>3 DEF ItemsOf
<1> QED BY <1>1, <1>2, <1>3, <1>4

LEMMA ItemsOfTail ==
  ASSUME NEW S, NEW s \in Seq(S), s # <<>>
  PROVE  /\ Tail(s) \in Seq(S) /\ Head(s) \in S /\ Head(s) \in ItemsOf(s)
         /\ ItemsOf(s) = {Head(s)} \cup ItemsOf(Tail(s))
<1>1. /\ Head(s) \in S /\ Tail(s) \in Seq(S) /\ Len(Tail(s)) = Len(s) - 1
      /\ \A i \in 1..Len(Tail(s)) : Tail(s)[i] = s[i + 1]
      /\ Len(s) \in Nat \ {0} /\ Head(s) = s[1]
  BY HeadTailProperties, EmptySeq
<1>2. ASSUME NEW x \in ItemsOf(s) PROVE x \in {Head(s)} \cup ItemsOf(Tail(s))
  <2>1. PICK i \in 1..Len(s) : x = s[i]
    BY DEF ItemsOf
  <2>2. CASE i = 1
    BY <1>1, <2>1, <2>2
  <2>3. CASE i # 1
    <3>1. i - 1 \in 1..Len(Tail(s)) /\ (i - 1) + 1 = i
      BY <1>1, <2>3
    <3> QED BY <1>1, <2>1, <3>1 DEF ItemsOf
  <2> QED BY <2>2, <2>3
<1>3. ASSUME NEW x \in ItemsOf(Tail(s)) PROVE x \in ItemsOf(s)
  <2>1. PICK i \in 1..Len(Tail(s)) : x = Tail(s)[i]
    BY DEF ItemsOf
  <2>2. i + 1 \in 1..Len(s) /\ x = s[i + 1]
    BY <1>1, <2>1
  <2> QED BY <2>2 DEF ItemsOf
<1>4. Head(s) \in ItemsOf(s)
  BY <1>1 DEF ItemsOf
<1> QED BY <1>1, <1>2, <1>3, <1>4

\* What is asked for first, before what was asked for already.
LEMMA FirstOf ==
  ASSUME NEW S, NEW a \in S, NEW s \in Seq(S)
  PROVE  /\ <<a>> \o s \in Seq(S) /\ <<a>> \o s # <<>>
         /\ Head(<<a>> \o s) = a /\ Tail(<<a>> \o s) = s
<1>1. <<a>> \in Seq(S) /\ Len(<<a>>) = 1 /\ <<a>>[1] = a
  OBVIOUS
<1>2. /\ <<a>> \o s \in Seq(S) /\ Len(s) \in Nat /\ Len(<<a>> \o s) = 1 + Len(s)
      /\ \A i \in 1..1 + Len(s) :
           (<<a>> \o s)[i] = IF i <= 1 THEN <<a>>[i] ELSE s[i - 1]
  BY <1>1, ConcatProperties, LenProperties
<1>3. <<a>> \o s # <<>>
  BY <1>2, EmptySeq
<1>4. /\ Head(<<a>> \o s) = (<<a>> \o s)[1] /\ Tail(<<a>> \o s) \in Seq(S)
      /\ Len(Tail(<<a>> \o s)) = Len(s)
      /\ \A i \in 1..Len(s) : Tail(<<a>> \o s)[i] = (<<a>> \o s)[i + 1]
  BY <1>2, <1>3, HeadTailProperties
<1>5. Head(<<a>> \o s) = a
  BY <1>1, <1>2, <1>4
<1>6. \A i \in 1..Len(s) : Tail(<<a>> \o s)[i] = s[i]
  BY <1>2, <1>4
<1>7. Tail(<<a>> \o s) = s
  BY <1>4, <1>6, SeqEqual
<1> QED BY <1>2, <1>3, <1>5, <1>7

-----------------------------------------------------------------------------
(***************************************************************************)
(* What a step makes of the run.  The feeds, and what people changed since *)
(* they were read, are not touched by the run's own steps.                 *)
(***************************************************************************)
Alike(r, s) ==
  /\ r.full = s.full /\ r.calm = s.calm /\ r.srcSaw = s.srcSaw /\ r.dstSaw = s.dstSaw
  /\ r.srcSince = s.srcSince

\* Neither do most of them touch what is to be read, or what is known.
Kept(r, s) ==
  /\ Alike(r, s)
  /\ r.srcTodo = s.srcTodo /\ r.dstTodo = s.dstTodo
  /\ r.handled = s.handled /\ r.repaired = s.repaired /\ r.live = s.live /\ r.known = s.known

LEMMA AskFields ==
  ASSUME NEW r \in Runs, NEW items \in Seq(Items)
  PROVE  Ask(r, items) \in Runs /\ Kept(Ask(r, items), r) /\ Ask(r, items).agenda = items \o r.agenda
<1>1. r.agenda \in Seq(Items)
  BY DEF Runs
<1>2. items \o r.agenda \in Seq(Items)
  BY <1>1, ConcatProperties
<1> QED BY <1>2 DEF Ask, Runs, Kept, Alike

LEMMA DoneFields ==
  ASSUME run \in Runs, run.agenda # <<>>
  PROVE  /\ Done \in Runs /\ Kept(Done, run) /\ Done.agenda = Tail(run.agenda)
         /\ Item \in Items /\ Item \in Asked
         /\ Tail(run.agenda) \in Seq(Items) /\ Asked = {Item} \cup ItemsOf(Tail(run.agenda))
<1>1. run.agenda \in Seq(Items)
  BY DEF Runs
<1>2. /\ Tail(run.agenda) \in Seq(Items) /\ Head(run.agenda) \in Items
      /\ ItemsOf(run.agenda) = {Head(run.agenda)} \cup ItemsOf(Tail(run.agenda))
  BY <1>1, ItemsOfTail
<1> QED BY <1>2 DEF Done, Runs, Kept, Alike, Item, Asked

\* The typing of what people change, and of what is read.
LEMMA Viewed ==
  ASSUME SeriesAssumption, NEW s \in SourceSeries, NEW start \in Starts
  PROVE  SourceView(s, start) \in Masters \cup {"absent", "moved", "cancelled"}
BY DEF SeriesAssumption, SourceSeries, SourceView

LEMMA ViewedThere ==
  ASSUME SeriesAssumption, NEW d \in DestinationSeries, NEW start \in Starts
  PROVE  DestinationView(d, start) \in Views
BY DEF SeriesAssumption, DestinationSeries, DestinationView, Views, Contents, Hidden

LEMMA ReadTyped ==
  ASSUME NEW s \in SourceSeries
  PROVE  Read(s) \in SeriesRead
BY DEF Read, SourceSeries, SeriesRead

LEMMA SyncTyped ==
  ASSUME NEW series \in SeriesRead, NEW actual \in Masters \cup {"fresh", None}
  PROVE  Sync(series, actual) \in Items
BY DEF Sync, Items

LEMMA ThenTyped ==
  ASSUME NEW series \in SeriesRead, NEW what \in {"reverify", "complete", "replay", "replayed"}
  PROVE  Then(what, series) \in Items
BY DEF Then, Items

LEMMA DecideTyped ==
  ASSUME NEW series \in SeriesRead, NEW some \in SUBSET Starts, NEW wants \in [some -> Views],
         NEW current \in BOOLEAN, NEW again \in BOOLEAN
  PROVE  Decide(series, wants, current, again) \in Items
<1>1. wants \in UNION {[other -> Views] : other \in SUBSET Starts}
  OBVIOUS
<1> QED BY <1>1 DEF Decide, Items

\* What an item says.
LEMMA ItemKinds ==
  ASSUME NEW item \in Items
  PROVE  /\ item.series \in SeriesRead
         /\ item.do \in {"sync", "reverify", "complete", "replay", "replayed", "decide"}
         /\ item.do = "sync" => item.actual \in Masters \cup {"fresh", None}
         /\ item.do = "decide" =>
              /\ item.current \in BOOLEAN /\ item.again \in BOOLEAN
              /\ DOMAIN item.wants \subseteq Starts /\ item.wants \in [DOMAIN item.wants -> Views]
<1>1. CASE item.do = "decide"
  <2>1. item.wants \in UNION {[some -> Views] : some \in SUBSET Starts}
    BY <1>1 DEF Items
  <2>2. PICK some \in SUBSET Starts : item.wants \in [some -> Views]
    BY <2>1
  <2>3. DOMAIN item.wants \subseteq Starts /\ item.wants \in [DOMAIN item.wants -> Views]
    BY <2>2
  <2> QED BY <1>1, <2>3 DEF Items
<1>2. CASE item.do # "decide"
  BY <1>2 DEF Items
<1> QED BY <1>1, <1>2

(***************************************************************************)
(* The type invariant.  A run records the series it wrote in the Series    *)
(* Mapping, so a series decided from a stale reading must still be mapped: *)
(* such a decision is the only thing the agenda holds, and the destination *)
(* series that was read as gone is still gone.  The revision stays within  *)
(* its bound because a change of the source spends one.                    *)
(***************************************************************************)
Budget == src.rev + left.source <= MaxSource + 1

AgendaOrdered ==
  Running /\ run.agenda # <<>> =>
    /\ \A item \in ItemsOf(Tail(run.agenda)) : item.do # "sync"
    /\ Item.do = "sync" /\ Item.actual # "fresh" =>
         /\ Tail(run.agenda) = <<>> /\ mapping # None /\ "series" \in run.handled
         /\ IF Item.actual = None THEN ~(mapping.linked /\ dst.live) ELSE mapping.linked

GoneStays == Running /\ "series" \in run.dstTodo /\ dst.live => run.dstSaw.live

Typed == TypeOK /\ Budget /\ AgendaOrdered /\ GoneStays

LEMMA RunTyped ==
  ASSUME TypeOK, Running
  PROVE  /\ run \in Runs /\ run # None /\ run.agenda \in Seq(Items)
         /\ run.srcSaw \in SourceSeries /\ run.dstSaw \in DestinationSeries
BY DEF TypeOK, Running, Runs

LEMMA InitTyped ==
  ASSUME SeriesAssumption, Init
  PROVE  Typed
<1>1. src \in SourceSeries /\ src.rev = 1 /\ src.master \in Masters
  BY DEF Init, SourceSeries
<1>2. (CHOOSE m \in Masters : TRUE) \in Masters
  BY <1>1
<1>3. dst \in DestinationSeries
  BY <1>2 DEF Init, DestinationSeries, SeriesAssumption
<1>4. PICK b \in Bounds : left = [source |-> b.source, dest |-> b.dest, faults |-> b.faults, touched |-> FALSE]
  BY DEF Init
<1>5. b.source \in 0..MaxSource /\ b.dest \in Nat /\ b.faults \in Nat /\ MaxSource \in Nat
  BY DEF SeriesAssumption
<1>6. left \in [source : Nat, dest : Nat, faults : Nat, touched : BOOLEAN] /\ Budget
  BY <1>1, <1>4, <1>5 DEF Budget
<1> QED BY <1>1, <1>3, <1>6 DEF Init, Typed, TypeOK, AgendaOrdered, GoneStays, Running

(***************************************************************************)
(* One lemma for each step of a run: what it does, and that the run it     *)
(* leaves is well typed.                                                   *)
(***************************************************************************)
Still == UNCHANGED <<src, dst, mapping, recorded, replays, synced, due, srcNews, dstNews, skipped, left>>

Knowing(r, s) == r.repaired = s.repaired /\ r.live = s.live /\ r.known = s.known

LEMMA HandleSeriesStep ==
  ASSUME Typed, HandleSeries
  PROVE  /\ Still /\ Running /\ run.agenda = <<>> /\ "series" \in run.srcTodo
         /\ run' \in Runs /\ Alike(run', run) /\ Knowing(run', run)
         /\ run'.srcTodo = run.srcTodo \ {"series"} /\ run'.dstTodo = run.dstTodo
         /\ run'.handled = run.handled \cup {"series"}
         /\ run'.agenda = <<Sync(Read(run.srcSaw), "fresh")>>
<1> DEFINE r == [run EXCEPT !.srcTodo = @ \ {"series"}, !.handled = @ \cup {"series"}]
           items == <<Sync(Read(run.srcSaw), "fresh")>>
<1>1. /\ Running /\ run.agenda = <<>> /\ "series" \in run.srcTodo /\ Still
      /\ run' = Ask(r, items)
  BY DEF HandleSeries, Free, Only, Still, store, cursors
<1>2. run \in Runs /\ run.srcSaw \in SourceSeries
  BY <1>1, RunTyped DEF Typed
<1>3. /\ r \in Runs /\ Alike(r, run) /\ Knowing(r, run) /\ r.agenda = <<>>
      /\ r.srcTodo = run.srcTodo \ {"series"} /\ r.dstTodo = run.dstTodo
      /\ r.handled = run.handled \cup {"series"}
  BY <1>1, <1>2 DEF Runs, Alike, Knowing, Parts
<1>4. items \in Seq(Items)
  BY <1>2, ReadTyped, SyncTyped
<1> HIDE DEF r, items
<1>5. items \o r.agenda = items
  BY <1>3, <1>4, ConcatEmptySeq
<1>6. Ask(r, items) \in Runs /\ Kept(Ask(r, items), r) /\ Ask(r, items).agenda = items
  BY <1>3, <1>4, <1>5, AskFields
<1> QED BY <1>1, <1>3, <1>6 DEF Alike, Kept, Knowing, items

\* What the source showed at an original start, to be applied there.
Wanted(start) == Decide(Read(src), At(start, SourceView(run.srcSaw, start)), TRUE, FALSE)

LEMMA AtTyped ==
  ASSUME NEW start \in Starts, NEW want \in Views
  PROVE  /\ At(start, want) \in [{start} -> Views] /\ {start} \in SUBSET Starts
         /\ DOMAIN At(start, want) = {start} /\ At(start, want)[start] = want
BY DEF At

LEMMA ViewsTyped == Masters \cup {"absent", "moved", "cancelled"} \subseteq Views
BY DEF Views, Contents, Hidden

LEMMA HandleExceptionStep ==
  ASSUME SeriesAssumption, Typed, NEW start \in Starts, HandleException(start)
  PROVE  /\ Still /\ Running /\ run.agenda = <<>> /\ "series" \notin run.srcTodo /\ start \in run.srcTodo
         /\ run' \in Runs /\ Alike(run', run) /\ Knowing(run', run)
         /\ run'.srcTodo = run.srcTodo \ {start} /\ run'.dstTodo = run.dstTodo
         /\ \/ /\ start \in run.handled \/ SourceView(run.srcSaw, start) = "absent"
               /\ run'.handled = run.handled /\ run'.agenda = <<>>
            \/ /\ mapping = None /\ "series" \notin run.handled
               /\ run'.handled = run.handled \cup {start, "series"}
               /\ run'.agenda = <<Sync(Read(src), "fresh")>> \o <<Wanted(start)>>
            \/ /\ start \notin run.handled /\ run'.handled = run.handled
               /\ run'.agenda = <<Wanted(start)>>
         /\ Wanted(start) \in Items /\ Sync(Read(src), "fresh") \in Items
<1> DEFINE r == [run EXCEPT !.srcTodo = @ \ {start}]
           rs == [r EXCEPT !.handled = @ \cup {start, "series"}]
           decide == Wanted(start)
           sync == Sync(Read(src), "fresh")
<1>1. /\ Running /\ run.agenda = <<>> /\ "series" \notin run.srcTodo /\ start \in run.srcTodo /\ Still
      /\ run' = IF start \in run.handled \/ SourceView(run.srcSaw, start) = "absent" THEN r
                ELSE IF mapping = None /\ "series" \notin run.handled THEN Ask(rs, <<sync, decide>>)
                ELSE Ask(r, <<decide>>)
  BY DEF HandleException, Free, Only, Still, store, cursors, Wanted
<1>2. run \in Runs /\ run.srcSaw \in SourceSeries /\ src \in SourceSeries
  BY <1>1, RunTyped DEF Typed, TypeOK
<1>3. /\ r \in Runs /\ Alike(r, run) /\ Knowing(r, run) /\ r.agenda = <<>>
      /\ r.srcTodo = run.srcTodo \ {start} /\ r.dstTodo = run.dstTodo /\ r.handled = run.handled
  BY <1>1, <1>2 DEF Runs, Alike, Knowing
<1>4. /\ rs \in Runs /\ Alike(rs, run) /\ Knowing(rs, run) /\ rs.agenda = <<>>
      /\ rs.srcTodo = run.srcTodo \ {start} /\ rs.dstTodo = run.dstTodo
      /\ rs.handled = run.handled \cup {start, "series"}
  <2>1. {start, "series"} \subseteq Parts
    BY DEF Parts
  <2> HIDE DEF r
  <2> QED BY <1>3, <2>1 DEF Runs, Alike, Knowing
<1>5. decide \in Items
  <2>1. SourceView(run.srcSaw, start) \in Views
    BY <1>2, Viewed, ViewsTyped
  <2> QED BY <1>2, <2>1, AtTyped, ReadTyped, DecideTyped DEF Wanted
<1>6. sync \in Items
  BY <1>2, ReadTyped, SyncTyped
<1> HIDE DEF r, rs, decide, sync
<1>7. /\ Ask(r, <<decide>>) \in Runs /\ Kept(Ask(r, <<decide>>), r)
      /\ Ask(r, <<decide>>).agenda = <<decide>>
  <2>1. <<decide>> \in Seq(Items)
    BY <1>5
  <2>2. <<decide>> \o r.agenda = <<decide>>
    BY <1>3, <2>1, ConcatEmptySeq
  <2> QED BY <1>3, <2>1, <2>2, AskFields
<1>8. /\ Ask(rs, <<sync, decide>>) \in Runs /\ Kept(Ask(rs, <<sync, decide>>), rs)
      /\ Ask(rs, <<sync, decide>>).agenda = <<sync>> \o <<decide>>
  <2>1. <<sync, decide>> \in Seq(Items) /\ <<sync, decide>> = <<sync>> \o <<decide>>
    BY <1>5, <1>6
  <2>2. <<sync, decide>> \o rs.agenda = <<sync, decide>>
    BY <1>4, <2>1, ConcatEmptySeq
  <2> QED BY <1>4, <2>1, <2>2, AskFields
<1>9. CASE start \in run.handled \/ SourceView(run.srcSaw, start) = "absent"
  BY <1>1, <1>3, <1>5, <1>6, <1>9 DEF decide, sync
<1>10. CASE /\ ~(start \in run.handled \/ SourceView(run.srcSaw, start) = "absent")
            /\ mapping = None /\ "series" \notin run.handled
  BY <1>1, <1>4, <1>5, <1>6, <1>8, <1>10 DEF decide, sync, Alike, Kept, Knowing
<1>11. CASE /\ ~(start \in run.handled \/ SourceView(run.srcSaw, start) = "absent")
            /\ ~(mapping = None /\ "series" \notin run.handled)
  BY <1>1, <1>3, <1>5, <1>6, <1>7, <1>11 DEF decide, sync, Alike, Kept, Knowing
<1> QED BY <1>9, <1>10, <1>11

LEMMA RepairSeriesStep ==
  ASSUME SeriesAssumption, Typed, RepairSeries
  PROVE  /\ Still /\ Running /\ run.agenda = <<>> /\ run.srcTodo = {} /\ "series" \in run.dstTodo
         /\ run' \in Runs /\ Alike(run', run) /\ Knowing(run', run)
         /\ run'.srcTodo = run.srcTodo /\ run'.dstTodo = run.dstTodo \ {"series"}
         /\ \/ run'.handled = run.handled /\ run'.agenda = <<>>
            \/ /\ mapping # None /\ "series" \notin run.handled
               /\ run'.handled = run.handled \cup {"series"}
               /\ \E actual \in Masters \cup {None} :
                    /\ Sync(Read(src), actual) \in Items
                    /\ run'.agenda = <<Sync(Read(src), actual)>>
                    /\ IF mapping.linked /\ run.dstSaw.live THEN actual # None ELSE actual = None
<1> DEFINE r == [run EXCEPT !.dstTodo = @ \ {"series"}]
           rs == [r EXCEPT !.handled = @ \cup {"series"}]
           actual == IF mapping.linked /\ run.dstSaw.live THEN run.dstSaw.master ELSE None
           sync == Sync(Read(src), actual)
<1>1. /\ Running /\ run.agenda = <<>> /\ run.srcTodo = {} /\ "series" \in run.dstTodo /\ Still
      /\ run' = IF mapping = None \/ "series" \in run.handled THEN r
                ELSE IF OwnSeries THEN r
                ELSE Ask(rs, <<sync>>)
  BY DEF RepairSeries, Free, Only, Still, store, cursors
<1>2. run \in Runs /\ run.dstSaw \in DestinationSeries /\ src \in SourceSeries
  BY <1>1, RunTyped DEF Typed, TypeOK
<1>3. /\ r \in Runs /\ Alike(r, run) /\ Knowing(r, run) /\ r.agenda = <<>>
      /\ r.srcTodo = run.srcTodo /\ r.dstTodo = run.dstTodo \ {"series"} /\ r.handled = run.handled
  BY <1>1, <1>2 DEF Runs, Alike, Knowing
<1>4. /\ rs \in Runs /\ Alike(rs, run) /\ Knowing(rs, run) /\ rs.agenda = <<>>
      /\ rs.srcTodo = run.srcTodo /\ rs.dstTodo = run.dstTodo \ {"series"}
      /\ rs.handled = run.handled \cup {"series"}
  <2>1. "series" \in Parts
    BY DEF Parts
  <2> HIDE DEF r
  <2> QED BY <1>3, <2>1 DEF Runs, Alike, Knowing
<1>5. /\ actual \in Masters \cup {None}
      /\ IF mapping.linked /\ run.dstSaw.live THEN actual # None ELSE actual = None
  BY <1>2 DEF DestinationSeries, SeriesAssumption
<1>6. sync \in Items
  BY <1>2, <1>5, ReadTyped, SyncTyped
<1> HIDE DEF r, rs, actual
<1>7. <<sync>> \in Seq(Items) /\ <<sync>> \o rs.agenda = <<sync>>
  BY <1>4, <1>6, ConcatEmptySeq
<1>8. Ask(rs, <<sync>>) \in Runs /\ Kept(Ask(rs, <<sync>>), rs) /\ Ask(rs, <<sync>>).agenda = <<sync>>
  BY <1>4, <1>7, AskFields
<1>9. CASE mapping = None \/ "series" \in run.handled \/ OwnSeries
  BY <1>1, <1>3, <1>9
<1>10. CASE ~(mapping = None \/ "series" \in run.handled \/ OwnSeries)
  BY <1>1, <1>4, <1>5, <1>6, <1>8, <1>10 DEF Alike, Kept, Knowing
<1> QED BY <1>9, <1>10

\* What the source shows at an original start now, to be applied there.
Repeated(start) == Decide(Read(src), At(start, SourceView(src, start)), FALSE, FALSE)

LEMMA RepairOccurrenceStep ==
  ASSUME SeriesAssumption, Typed, NEW start \in Starts, RepairOccurrence(start)
  PROVE  /\ Still /\ Running /\ run.agenda = <<>> /\ run.srcTodo = {} /\ start \in run.dstTodo
         /\ run' \in Runs /\ Alike(run', run) /\ Knowing(run', run)
         /\ run'.srcTodo = run.srcTodo /\ run'.dstTodo = run.dstTodo \ {start}
         /\ run'.handled = run.handled /\ Repeated(start) \in Items
         /\ \/ /\ run'.agenda = <<>>
               /\ mapping = None \/ ~mapping.linked \/ ~run.full \/ start \in run.handled
            \/ run'.agenda = <<Repeated(start)>> /\ start \notin run.handled
<1> DEFINE r == [run EXCEPT !.dstTodo = @ \ {start}]
           decide == Repeated(start)
<1>1. /\ Running /\ run.agenda = <<>> /\ run.srcTodo = {} /\ start \in run.dstTodo /\ Still
      /\ run' = IF mapping = None THEN r
                ELSE IF ~mapping.linked \/ OwnOccurrence(start) \/ start \in run.handled THEN r
                ELSE Ask(r, <<decide>>)
  BY DEF RepairOccurrence, Free, Only, Still, store, cursors, Repeated
<1>2. run \in Runs /\ src \in SourceSeries
  BY <1>1, RunTyped DEF Typed, TypeOK
<1>3. /\ r \in Runs /\ Alike(r, run) /\ Knowing(r, run) /\ r.agenda = <<>>
      /\ r.srcTodo = run.srcTodo /\ r.dstTodo = run.dstTodo \ {start} /\ r.handled = run.handled
  BY <1>1, <1>2 DEF Runs, Alike, Knowing
<1>5. decide \in Items
  <2>1. SourceView(src, start) \in Views
    BY <1>2, Viewed, ViewsTyped
  <2> QED BY <1>2, <2>1, AtTyped, ReadTyped, DecideTyped DEF Repeated
<1> HIDE DEF r, decide
<1>7. <<decide>> \in Seq(Items) /\ <<decide>> \o r.agenda = <<decide>>
  BY <1>3, <1>5, ConcatEmptySeq
<1>8. Ask(r, <<decide>>) \in Runs /\ Kept(Ask(r, <<decide>>), r) /\ Ask(r, <<decide>>).agenda = <<decide>>
  BY <1>3, <1>7, AskFields
<1>9. CASE mapping = None \/ ~mapping.linked \/ OwnOccurrence(start) \/ start \in run.handled
  BY <1>1, <1>3, <1>5, <1>9 DEF decide, OwnOccurrence
<1>10. CASE ~(mapping = None \/ ~mapping.linked \/ OwnOccurrence(start) \/ start \in run.handled)
  BY <1>1, <1>3, <1>5, <1>8, <1>10 DEF Alike, Kept, Knowing, decide
<1> QED BY <1>9, <1>10

Limits == [source : Nat, dest : Nat, faults : Nat, touched : BOOLEAN]

LEMMA OneLess ==
  ASSUME NEW T, NEW l \in [source : Nat, dest : Nat, faults : Nat, touched : T], NEW t \in T
  PROVE  /\ l.source > 0 =>
              LET next == [[l EXCEPT !.source = l.source - 1] EXCEPT !.touched = t] IN
              /\ next \in [source : Nat, dest : Nat, faults : Nat, touched : T]
              /\ next.source = l.source - 1 /\ next.dest = l.dest
         /\ l.dest > 0 =>
              LET next == [[l EXCEPT !.dest = l.dest - 1] EXCEPT !.touched = t] IN
              /\ next \in [source : Nat, dest : Nat, faults : Nat, touched : T]
              /\ next.source = l.source /\ next.dest = l.dest - 1
         /\ l.faults > 0 =>
              LET next == [[l EXCEPT !.faults = l.faults - 1] EXCEPT !.touched = t] IN
              /\ next \in [source : Nat, dest : Nat, faults : Nat, touched : T]
              /\ next.source = l.source /\ next.dest = l.dest
<1>1. PICK a \in Nat, b \in Nat, c \in Nat, u \in T :
        l = [source |-> a, dest |-> b, faults |-> c, touched |-> u]
  <2>1. l = [source |-> l.source, dest |-> l.dest, faults |-> l.faults, touched |-> l.touched]
    OBVIOUS
  <2> QED BY <2>1
<1>2. l.source = a /\ l.dest = b /\ l.faults = c
  BY <1>1
<1>3. ASSUME NEW k, NEW x, NEW y, NEW z,
             k = [source |-> x, dest |-> y, faults |-> z, touched |-> u]
      PROVE  [k EXCEPT !.touched = t] = [source |-> x, dest |-> y, faults |-> z, touched |-> t]
  BY ONLY <1>3
<1>4. ASSUME NEW e
      PROVE  [[l EXCEPT !.source = e] EXCEPT !.touched = t] =
               [source |-> e, dest |-> b, faults |-> c, touched |-> t]
  <2>1. [l EXCEPT !.source = e] = [source |-> e, dest |-> b, faults |-> c, touched |-> u]
    BY ONLY <1>1
  <2> QED BY <1>3, <2>1, Zenon
<1>5. ASSUME NEW e
      PROVE  [[l EXCEPT !.dest = e] EXCEPT !.touched = t] =
               [source |-> a, dest |-> e, faults |-> c, touched |-> t]
  <2>1. [l EXCEPT !.dest = e] = [source |-> a, dest |-> e, faults |-> c, touched |-> u]
    BY ONLY <1>1
  <2> QED BY <1>3, <2>1, Zenon
<1>6. ASSUME NEW e
      PROVE  [[l EXCEPT !.faults = e] EXCEPT !.touched = t] =
               [source |-> a, dest |-> b, faults |-> e, touched |-> t]
  <2>1. [l EXCEPT !.faults = e] = [source |-> a, dest |-> b, faults |-> e, touched |-> u]
    BY ONLY <1>1
  <2> QED BY <1>3, <2>1, Zenon
<1>7. /\ [[l EXCEPT !.source = l.source - 1] EXCEPT !.touched = t] =
           [source |-> l.source - 1, dest |-> b, faults |-> c, touched |-> t]
      /\ [[l EXCEPT !.dest = l.dest - 1] EXCEPT !.touched = t] =
           [source |-> a, dest |-> l.dest - 1, faults |-> c, touched |-> t]
      /\ [[l EXCEPT !.faults = l.faults - 1] EXCEPT !.touched = t] =
           [source |-> a, dest |-> b, faults |-> l.faults - 1, touched |-> t]
  BY <1>4, <1>5, <1>6, Zenon
<1>8. /\ l.source > 0 => l.source - 1 \in Nat
      /\ l.dest > 0 => l.dest - 1 \in Nat
      /\ l.faults > 0 => l.faults - 1 \in Nat
  BY <1>2
<1> QED BY <1>2, <1>7, <1>8

LEMMA SpendStep ==
  ASSUME left \in Limits, NEW what \in {"source", "dest", "faults"}, Spend(what)
  PROVE  /\ left' \in Limits
         /\ what = "source" => left.source > 0 /\ left'.source = left.source - 1
         /\ what # "source" => left'.source = left.source
         /\ what = "dest" => left.dest > 0 /\ left'.dest = left.dest - 1
         /\ what # "dest" => left'.dest = left.dest
<1> DEFINE touched == left.touched \/ what = "dest"
<1>1. touched \in BOOLEAN
  OBVIOUS
<1>2. /\ left[what] > 0
      /\ left' = [[left EXCEPT ![what] = left[what] - 1] EXCEPT !.touched = touched]
  BY DEF Spend
<1> HIDE DEF touched
<1>3. left \in [source : Nat, dest : Nat, faults : Nat, touched : BOOLEAN]
  BY DEF Limits
<1>4. CASE what = "source"
  <2>1. /\ left.source > 0
        /\ left' = [[left EXCEPT !.source = left.source - 1] EXCEPT !.touched = touched]
    BY <1>2, <1>4
  <2> QED BY <1>1, <1>3, <1>4, <2>1, OneLess DEF Limits
<1>5. CASE what = "dest"
  <2>1. /\ left.dest > 0
        /\ left' = [[left EXCEPT !.dest = left.dest - 1] EXCEPT !.touched = touched]
    BY <1>2, <1>5
  <2> QED BY <1>1, <1>3, <1>5, <2>1, OneLess DEF Limits
<1>6. CASE what = "faults"
  <2>1. /\ left.faults > 0
        /\ left' = [[left EXCEPT !.faults = left.faults - 1] EXCEPT !.touched = touched]
    BY <1>2, <1>6
  <2> QED BY <1>1, <1>3, <1>6, <2>1, OneLess DEF Limits
<1> QED BY <1>4, <1>5, <1>6

\* A write that was carried out, and the answer or the commit that was lost after it.
Committed(m, rec, rep, r) ==
  /\ mapping' = m /\ recorded' = rec /\ replays' = rep
  /\ run' \in Runs /\ run' # None /\ Kept(run', r) /\ run'.agenda = r.agenda
  /\ left' = left

Lost ==
  /\ run' = None /\ recorded' = recorded /\ replays' = replays
  /\ mapping' = IF Creating /\ mapping # None THEN [mapping EXCEPT !.linked = FALSE] ELSE mapping
  /\ left'.source = left.source /\ left'.dest = left.dest

\* What every step of a run leaves as it was or keeps typed.
Bystanders ==
  /\ src' = src /\ synced' = synced /\ due' = due /\ srcNews' = srcNews
  /\ dstNews' \subseteq Parts /\ left' \in Limits /\ left'.source = left.source

LEMMA WriteStep ==
  ASSUME Typed, Running, NEW next, NEW kept \in SUBSET Parts, NEW parts \in SUBSET Parts,
         NEW m, NEW rec, NEW rep, NEW r \in Runs, Write(next, kept, parts, m, rec, rep, r)
  PROVE  /\ Bystanders /\ dst' = Surviving(next)
         /\ skipped' = IF Creating THEN skipped \cup (run.handled \cap Starts) ELSE skipped
         /\ Committed(m, rec, rep, r) \/ Lost
<1> DEFINE changed == parts \cup (IF Surviving(next).live THEN {} ELSE {"series"})
<1>1. changed \in SUBSET Parts
  BY DEF Parts
<1>2. dstNews \subseteq Parts /\ left \in Limits /\ left.source = left.source
  BY DEF Typed, TypeOK, Limits
<1>3. /\ dst' = Surviving(next) /\ src' = src /\ synced' = synced /\ due' = due /\ srcNews' = srcNews
      /\ skipped' = IF Creating THEN skipped \cup (run.handled \cap Starts) ELSE skipped
      /\ \/ /\ mapping' = m /\ recorded' = rec /\ replays' = rep /\ dstNews' = kept \cup changed
            /\ run' = [r EXCEPT !.dstSince = @ \cup changed] /\ left' = left
         \/ /\ Spend("faults") /\ dstNews' = dstNews \cup changed /\ run' = None
            /\ mapping' = IF Creating /\ mapping # None THEN [mapping EXCEPT !.linked = FALSE] ELSE mapping
            /\ recorded' = recorded /\ replays' = replays
  BY DEF Write, cursors
<1> HIDE DEF changed
<1>4. CASE /\ mapping' = m /\ recorded' = rec /\ replays' = rep /\ dstNews' = kept \cup changed
           /\ run' = [r EXCEPT !.dstSince = @ \cup changed] /\ left' = left
  <2>1. run' \in Runs /\ Kept(run', r) /\ run'.agenda = r.agenda
    BY <1>1, <1>4 DEF Runs, Kept, Alike
  <2>2. run' # None
    BY <2>1, NoneAssumption
  <2> QED BY <1>1, <1>2, <1>3, <1>4, <2>1, <2>2 DEF Committed, Bystanders
<1>5. CASE /\ Spend("faults") /\ dstNews' = dstNews \cup changed /\ run' = None
           /\ mapping' = IF Creating /\ mapping # None THEN [mapping EXCEPT !.linked = FALSE] ELSE mapping
           /\ recorded' = recorded /\ replays' = replays
  <2>1. left' \in Limits /\ left'.source = left.source /\ left'.dest = left.dest
    BY <1>2, <1>5, SpendStep
  <2> QED BY <1>1, <1>2, <1>3, <1>5, <2>1 DEF Lost, Bystanders
<1> QED BY <1>3, <1>4, <1>5

\* What a run decides on.
LEMMA DoingStep ==
  ASSUME Typed, NEW what \in {"sync", "reverify", "complete", "replay", "replayed", "decide"}, Doing(what)
  PROVE  /\ Running /\ run \in Runs /\ run # None /\ run.agenda # <<>> /\ Item.do = what
         /\ Done \in Runs /\ Kept(Done, run) /\ Done.agenda = Tail(run.agenda)
         /\ Item \in Items /\ Item.series \in SeriesRead /\ Tail(run.agenda) \in Seq(Items)
         /\ Item \in Asked /\ Asked = {Item} \cup ItemsOf(Tail(run.agenda))
         /\ \A item \in ItemsOf(Tail(run.agenda)) : item.do # "sync"
<1>1. Running /\ run.agenda # <<>> /\ Item.do = what
  BY DEF Doing
<1>2. run \in Runs /\ run # None
  BY <1>1, RunTyped DEF Typed
<1>3. Item \in Items
  BY <1>1, <1>2, DoneFields
<1> QED BY <1>1, <1>2, <1>3, DoneFields, ItemKinds DEF Typed, AgendaOrdered

\* What a run decides a series from.
LEMMA ActualTyped ==
  ASSUME SeriesAssumption, Typed, Doing("sync")
  PROVE  /\ Actual \in Masters \cup {None}
         /\ Actual # None => mapping # None
         /\ Actual # None /\ Item.actual = "fresh" => Linked /\ dst.live /\ Actual = dst.master
         /\ Actual = None => ~(Linked /\ dst.live)
         /\ Actual # None => Linked
<1>1. /\ Running /\ run.agenda # <<>> /\ Item.do = "sync" /\ Item \in Items
  BY DoingStep
<1>2. Item.actual \in Masters \cup {"fresh", None}
  BY <1>1, ItemKinds
<1>3. Item.actual # "fresh" =>
        /\ mapping # None
        /\ IF Item.actual = None THEN ~(mapping.linked /\ dst.live) ELSE mapping.linked
  BY <1>1 DEF Typed, AgendaOrdered
<1>4. dst.master \in Masters
  BY DEF Typed, TypeOK, DestinationSeries
<1> QED BY <1>2, <1>3, <1>4 DEF Actual, Linked, SeriesAssumption

(***************************************************************************)
(* The destination as it is after a write or a change by people.           *)
(***************************************************************************)
Visible(d) == d.live /\ \E start \in Starts : DestinationView(d, start) \notin Hidden

LEMMA SurvivingFields ==
  ASSUME NEW d \in DestinationSeries
  PROVE  /\ Surviving(d) \in DestinationSeries
         /\ Surviving(d).live <=> Visible(d)
         /\ Surviving(d).master = d.master /\ Surviving(d).key = d.key /\ Surviving(d).occ = d.occ
<1> DEFINE live == Visible(d)
<1>1. live \in BOOLEAN
  BY DEF Visible
<1>2. Surviving(d) = [d EXCEPT !.live = live]
  BY DEF Surviving, Visible
<1> HIDE DEF live
<1>3. [d EXCEPT !.live = live] \in DestinationSeries
  BY <1>1 DEF DestinationSeries
<1>4. /\ [d EXCEPT !.live = live].live = live
      /\ [d EXCEPT !.live = live].master = d.master /\ [d EXCEPT !.live = live].key = d.key
      /\ [d EXCEPT !.live = live].occ = d.occ
  BY DEF DestinationSeries
<1>5. /\ Surviving(d) \in DestinationSeries /\ Surviving(d).live = live
      /\ Surviving(d).master = d.master /\ Surviving(d).key = d.key /\ Surviving(d).occ = d.occ
  BY <1>2, <1>3, <1>4
<1> QED BY <1>5, Zenon DEF live

\* The same series without its life, with another life, or with another exception.
LEMMA EndedFields ==
  ASSUME NEW d \in DestinationSeries, NEW live \in BOOLEAN
  PROVE  LET e == [d EXCEPT !.live = live] IN
         /\ e \in DestinationSeries /\ e.live = live
         /\ e.master = d.master /\ e.key = d.key /\ e.occ = d.occ
BY DEF DestinationSeries

LEMMA WrittenFields ==
  ASSUME NEW d \in DestinationSeries, NEW start \in Starts, NEW how \in Contents \cup {"follows", "cancelled"}
  PROVE  LET e == [d EXCEPT !.occ[start] = how] IN
         /\ e \in DestinationSeries /\ e.live = d.live /\ e.master = d.master /\ e.key = d.key
         /\ e.occ = [d.occ EXCEPT ![start] = how]
BY DEF DestinationSeries

LEMMA ReshapedDestination ==
  ASSUME NEW d \in DestinationSeries, NEW m \in Masters
  PROVE  LET e == Reshaped(d, m) IN
         /\ e \in DestinationSeries /\ e.live = d.live /\ e.master = m /\ e.key = d.key
         /\ e.occ = [start \in Starts |-> IF start \in Recurs[m] THEN d.occ[start] ELSE "follows"]
<1> DEFINE occ == [start \in Starts |-> IF start \in Recurs[m] THEN d.occ[start] ELSE "follows"]
<1>1. occ \in [Starts -> Contents \cup {"follows", "cancelled"}]
  BY DEF DestinationSeries
<1>2. Reshaped(d, m) = [[d EXCEPT !.master = m] EXCEPT !.occ = occ]
  BY DEF Reshaped, DestinationSeries
<1> HIDE DEF occ
<1>3. PICK e : e = [d EXCEPT !.master = m]
  OBVIOUS
<1>4. /\ e \in DestinationSeries /\ e.live = d.live /\ e.master = m /\ e.key = d.key
  BY <1>3 DEF DestinationSeries
<1>5. PICK f : f = [e EXCEPT !.occ = occ]
  OBVIOUS
<1>6. /\ f \in DestinationSeries /\ f.live = e.live /\ f.master = e.master /\ f.key = e.key /\ f.occ = occ
  BY <1>1, <1>4, <1>5 DEF DestinationSeries
<1>7. Reshaped(d, m) = f
  BY <1>2, <1>3, <1>5
<1> QED BY <1>4, <1>6, <1>7 DEF occ

LEMMA ReshapedSource ==
  ASSUME NEW s \in SourceSeries, NEW m \in Masters, s.rev + 1 <= MaxSource + 1, MaxSource \in Nat
  PROVE  LET e == [Reshaped(s, m) EXCEPT !.rev = @ + 1] IN
         /\ e \in SourceSeries /\ e.master = m /\ e.rev = s.rev + 1
         /\ e.occ = [start \in Starts |-> IF start \in Recurs[m] THEN s.occ[start] ELSE "follows"]
<1> DEFINE occ == [start \in Starts |-> IF start \in Recurs[m] THEN s.occ[start] ELSE "follows"]
           rev == s.rev + 1
<1>1. occ \in [Starts -> Masters \cup {"follows", "moved", "cancelled"}] /\ rev \in 1..(MaxSource + 1)
  BY DEF SourceSeries
<1>2. Reshaped(s, m) = [[s EXCEPT !.master = m] EXCEPT !.occ = occ]
  BY DEF Reshaped, SourceSeries
<1> HIDE DEF occ
<1>3. PICK e : e = [s EXCEPT !.master = m]
  OBVIOUS
<1>4. /\ e \in SourceSeries /\ e.master = m /\ e.rev = s.rev
  BY <1>3 DEF SourceSeries
<1>5. PICK f : f = [e EXCEPT !.occ = occ]
  OBVIOUS
<1>6. /\ f \in SourceSeries /\ f.master = e.master /\ f.rev = e.rev /\ f.occ = occ
  BY <1>1, <1>4, <1>5 DEF SourceSeries
<1>7. Reshaped(s, m) = f
  BY <1>2, <1>3, <1>5
<1>8. [Reshaped(s, m) EXCEPT !.rev = @ + 1] = [f EXCEPT !.rev = f.rev + 1] /\ f.rev = s.rev
  BY <1>4, <1>6, <1>7
<1>9. PICK g : g = [f EXCEPT !.rev = f.rev + 1]
  OBVIOUS
<1>10. g \in SourceSeries /\ g.master = m /\ g.rev = s.rev + 1 /\ g.occ = occ
  BY <1>1, <1>4, <1>6, <1>8, <1>9 DEF SourceSeries
<1> QED BY <1>8, <1>9, <1>10 DEF occ

LEMMA SyncRemoveStep ==
  ASSUME SeriesAssumption, Typed, SyncRemove
  PROVE  /\ Doing("sync") /\ Item.series.master = "cancelled"
         /\ \/ mapping = None /\ Still /\ run' = Done
            \/ LET ended == [dst EXCEPT !.live = dst.live /\ ~mapping.linked]
                   r == [Done EXCEPT !.known = None]
               IN /\ mapping # None /\ Bystanders /\ dst' = Surviving(ended) /\ skipped' = skipped
                  /\ r \in Runs /\ Alike(r, run) /\ r.srcTodo = run.srcTodo /\ r.dstTodo = run.dstTodo
                  /\ r.handled = run.handled /\ r.repaired = run.repaired /\ r.live = run.live
                  /\ r.known = None /\ r.agenda = Tail(run.agenda)
                  /\ Committed(None, [start \in Starts |-> None], FALSE, r) \/ Lost
<1> DEFINE ended == [dst EXCEPT !.live = dst.live /\ ~mapping.linked]
           r == [Done EXCEPT !.known = None]
           rec == [start \in Starts |-> None]
           parts == IF mapping.linked THEN {"series"} ELSE {}
<1>1. /\ Doing("sync") /\ Item.series.master = "cancelled" /\ ~Creating
      /\ IF mapping = None THEN Only(Done) ELSE Write(ended, dstNews, parts, None, rec, FALSE, r)
  BY DEF SyncRemove, Creating
<1>2. /\ Running /\ run \in Runs /\ Done \in Runs /\ Kept(Done, run) /\ Done.agenda = Tail(run.agenda)
  BY <1>1, DoingStep
<1>3. CASE mapping = None
  BY <1>1, <1>3 DEF Only, Still, store, cursors
<1>4. CASE mapping # None
  <2>1. /\ r \in Runs /\ Alike(r, run) /\ r.srcTodo = run.srcTodo /\ r.dstTodo = run.dstTodo
        /\ r.handled = run.handled /\ r.repaired = run.repaired /\ r.live = run.live
        /\ r.known = None /\ r.agenda = Tail(run.agenda)
    BY <1>2 DEF Runs, Kept, Alike
  <2>2. parts \in SUBSET Parts /\ dstNews \in SUBSET Parts
    BY DEF Parts, Typed, TypeOK
  <2>3. Write(ended, dstNews, parts, None, rec, FALSE, r)
    BY <1>1, <1>4
  <2> HIDE DEF ended, r, rec, parts
  <2>4. /\ Bystanders /\ dst' = Surviving(ended) /\ skipped' = skipped
        /\ Committed(None, rec, FALSE, r) \/ Lost
    BY <1>1, <1>2, <2>1, <2>2, <2>3, WriteStep
  <2> QED BY <1>1, <1>4, <2>1, <2>4 DEF ended, r, rec
<1> QED BY <1>3, <1>4

LEMMA ItemsJoined ==
  ASSUME NEW s \in Seq(Items), NEW t \in Seq(Items)
  PROVE  s \o t \in Seq(Items) /\ ItemsOf(s \o t) = ItemsOf(s) \cup ItemsOf(t)
BY ItemsOfConcat, Zenon

LEMMA ItemsAssociate ==
  ASSUME NEW s \in Seq(Items), NEW t \in Seq(Items), NEW u \in Seq(Items)
  PROVE  (s \o t) \o u = s \o (t \o u)
<1>1. \A S : \A a, b, c \in Seq(S) : (a \o b) \o c = a \o (b \o c)
  BY ConcatAssociative
<1> QED BY <1>1

\* What is to be done after a series was written.
LEMMA ReverifyItems ==
  ASSUME NEW series \in SeriesRead
  PROVE  /\ Reverify(series) \in Seq(Items)
         /\ ItemsOf(Reverify(series)) = {Then("reverify", series), Then("complete", series)}
         /\ Then("replay", series) \in Items
         /\ Then("reverify", series) \in Items /\ Then("complete", series) \in Items
<1>1. /\ Then("reverify", series) \in Items /\ Then("complete", series) \in Items
      /\ Then("replay", series) \in Items
  BY ThenTyped
<1>2. Reverify(series) = <<Then("reverify", series), Then("complete", series)>>
  BY DEF Reverify
<1>3. /\ Len(Reverify(series)) = 2 /\ Reverify(series)[1] = Then("reverify", series)
      /\ Reverify(series)[2] = Then("complete", series) /\ 1..2 = {1, 2}
  BY <1>2
<1>4. ItemsOf(Reverify(series)) = {Then("reverify", series), Then("complete", series)}
  BY <1>3 DEF ItemsOf
<1> QED BY <1>1, <1>2, <1>4

Found == Acknowledged(Item.series)

Created(series) ==
  [live |-> TRUE, master |-> series.master, key |-> series.rev, occ |-> [start \in Starts |-> "follows"]]

LEMMA SyncCreateStep ==
  ASSUME SeriesAssumption, Typed, SyncCreate
  PROVE  /\ Doing("sync") /\ Creating /\ TRUE \in LiveAnswers
         /\ Created(Item.series) \in DestinationSeries
         /\ LET r == run' IN
            /\ Bystanders /\ dst' = Surviving(IF Found THEN dst ELSE Created(Item.series))
            /\ skipped' = skipped \cup (run.handled \cap Starts)
            /\ \/ Lost
               \/ /\ mapping' = [linked |-> TRUE, rev |-> Item.series.rev, shown |-> Item.series.master]
                  /\ recorded' = recorded /\ replays' = (replays \/ ~run.full)
                  /\ r \in Runs /\ Alike(r, run) /\ r.srcTodo = run.srcTodo
                  /\ r.dstTodo = (IF Found THEN run.dstTodo ELSE {})
                  /\ r.handled = run.handled /\ r.repaired = run.repaired
                  /\ r.live = TRUE /\ r.known = None
                  /\ ItemsOf(r.agenda) =
                       {Then("reverify", Item.series), Then("complete", Item.series)}
                         \cup (IF run.full THEN {} ELSE {Then("replay", Item.series)})
                         \cup ItemsOf(Tail(run.agenda))
                  /\ left' = left
<1> DEFINE series == Item.series
           next == IF Found THEN dst ELSE Created(series)
           m == [linked |-> TRUE, rev |-> series.rev, shown |-> series.master]
           r == [Done EXCEPT !.live = TRUE, !.known = None,
                             !.dstTodo = IF Found THEN @ ELSE {}, !.dstSince = IF Found THEN @ ELSE {}]
           more == Reverify(series) \o (IF run.full THEN <<>> ELSE <<Then("replay", series)>>)
           kept == IF Found THEN dstNews ELSE {}
<1>1. /\ Doing("sync") /\ Creating /\ TRUE \in LiveAnswers
      /\ Write(next, kept, {"series"}, m, recorded, NeedsReplay, Ask(r, more))
  BY DEF SyncCreate, Found, Created
<1>2. /\ Running /\ run \in Runs /\ Done \in Runs /\ Kept(Done, run) /\ Done.agenda = Tail(run.agenda)
      /\ series \in SeriesRead /\ Tail(run.agenda) \in Seq(Items)
  BY <1>1, DoingStep
<1>3. /\ r \in Runs /\ Alike(r, run) /\ r.srcTodo = run.srcTodo
      /\ r.dstTodo = (IF Found THEN run.dstTodo ELSE {})
      /\ r.handled = run.handled /\ r.repaired = run.repaired /\ r.live = TRUE /\ r.known = None
      /\ r.agenda = Tail(run.agenda)
  <2>1. PICK a : a = [Done EXCEPT !.live = TRUE]
    OBVIOUS
  <2>2. /\ a \in Runs /\ Alike(a, run) /\ a.srcTodo = run.srcTodo /\ a.dstTodo = run.dstTodo
        /\ a.handled = run.handled /\ a.repaired = run.repaired /\ a.live = TRUE
        /\ a.agenda = Tail(run.agenda) /\ a.dstSince = Done.dstSince
    BY <1>2, <2>1 DEF Runs, Kept, Alike
  <2>3. PICK b : b = [a EXCEPT !.known = None]
    OBVIOUS
  <2>4. /\ b \in Runs /\ Alike(b, run) /\ b.srcTodo = run.srcTodo /\ b.dstTodo = run.dstTodo
        /\ b.handled = run.handled /\ b.repaired = run.repaired /\ b.live = TRUE /\ b.known = None
        /\ b.agenda = Tail(run.agenda) /\ b.dstSince = Done.dstSince
    BY <2>2, <2>3 DEF Runs, Alike
  <2> DEFINE todo == IF Found THEN run.dstTodo ELSE {}
             since == IF Found THEN Done.dstSince ELSE {}
  <2>5. todo \in SUBSET Parts /\ since \in SUBSET Parts
    BY <1>2 DEF Runs
  <2>6. r = [[b EXCEPT !.dstTodo = todo] EXCEPT !.dstSince = since]
    BY <1>2, <2>1, <2>2, <2>3, <2>4 DEF Kept
  <2> HIDE DEF todo, since, r
  <2>7. PICK c : c = [b EXCEPT !.dstTodo = todo]
    OBVIOUS
  <2>8. /\ c \in Runs /\ Alike(c, run) /\ c.srcTodo = run.srcTodo /\ c.dstTodo = todo
        /\ c.handled = run.handled /\ c.repaired = run.repaired /\ c.live = TRUE /\ c.known = None
        /\ c.agenda = Tail(run.agenda)
    BY <2>4, <2>5, <2>7 DEF Runs, Alike
  <2>9. r = [c EXCEPT !.dstSince = since]
    BY <2>6, <2>7
  <2>10. /\ r \in Runs /\ Alike(r, run) /\ r.srcTodo = run.srcTodo /\ r.dstTodo = todo
         /\ r.handled = run.handled /\ r.repaired = run.repaired /\ r.live = TRUE /\ r.known = None
         /\ r.agenda = Tail(run.agenda)
    BY <2>5, <2>8, <2>9 DEF Runs, Alike
  <2> QED BY <2>10 DEF todo
<1>4. /\ more \in Seq(Items)
      /\ ItemsOf(more) = {Then("reverify", series), Then("complete", series)}
                           \cup (IF run.full THEN {} ELSE {Then("replay", series)})
  <2>1. /\ Reverify(series) \in Seq(Items) /\ Then("replay", series) \in Items
        /\ ItemsOf(Reverify(series)) = {Then("reverify", series), Then("complete", series)}
    BY <1>2, ReverifyItems
  <2>2. /\ <<>> \in Seq(Items) /\ <<Then("replay", series)>> \in Seq(Items)
        /\ ItemsOf(<<>>) = {} /\ ItemsOf(<<Then("replay", series)>>) = {Then("replay", series)}
    BY <2>1, ItemsOfNone, ItemsOfOne
  <2>3. CASE run.full
    <3>1. more = Reverify(series) \o <<>>
      BY <2>3
    <3> HIDE DEF series
    <3>2. Reverify(series) \o <<>> = Reverify(series)
      BY <2>1, ConcatEmptySeq
    <3> QED BY <2>1, <2>3, <3>1, <3>2
  <2>4. CASE ~run.full
    <3>1. more = Reverify(series) \o <<Then("replay", series)>>
      BY <2>4
    <3> HIDE DEF series
    <3>2. /\ Reverify(series) \o <<Then("replay", series)>> \in Seq(Items)
          /\ ItemsOf(Reverify(series) \o <<Then("replay", series)>>) =
               ItemsOf(Reverify(series)) \cup ItemsOf(<<Then("replay", series)>>)
      BY <2>1, <2>2, ItemsJoined
    <3> QED BY <2>1, <2>2, <2>4, <3>1, <3>2
  <2> QED BY <2>3, <2>4
<1>5. Created(series) \in DestinationSeries
  BY <1>1, <1>2 DEF Created, DestinationSeries, SeriesRead, Creating, SeriesAssumption
<1>6. kept \in SUBSET Parts /\ {"series"} \in SUBSET Parts
  BY DEF Typed, TypeOK, Parts
<1> HIDE DEF more, r, next, m, kept
<1>7. /\ Ask(r, more) \in Runs /\ Kept(Ask(r, more), r)
      /\ Ask(r, more).agenda = more \o Tail(run.agenda)
  BY <1>3, <1>4, AskFields
<1>8. ItemsOf(more \o Tail(run.agenda)) = ItemsOf(more) \cup ItemsOf(Tail(run.agenda))
  BY <1>2, <1>4, ItemsJoined
<1>9. /\ Bystanders /\ dst' = Surviving(next) /\ skipped' = skipped \cup (run.handled \cap Starts)
      /\ Committed(m, recorded, NeedsReplay, Ask(r, more)) \/ Lost
  BY <1>1, <1>2, <1>6, <1>7, WriteStep
<1>10. CASE Lost
  BY <1>1, <1>5, <1>9, <1>10 DEF next
<1>11. CASE Committed(m, recorded, NeedsReplay, Ask(r, more))
  <2>1. /\ mapping' = m /\ recorded' = recorded /\ replays' = NeedsReplay /\ left' = left
        /\ run' \in Runs /\ Kept(run', Ask(r, more)) /\ run'.agenda = more \o Tail(run.agenda)
    BY <1>7, <1>11 DEF Committed
  <2>2. /\ Alike(run', run) /\ run'.srcTodo = run.srcTodo
        /\ run'.dstTodo = (IF Found THEN run.dstTodo ELSE {})
        /\ run'.handled = run.handled /\ run'.repaired = run.repaired /\ run'.live = TRUE /\ run'.known = None
    BY <1>3, <1>7, <2>1 DEF Kept, Alike
  <2> QED BY <1>1, <1>4, <1>5, <1>8, <1>9, <2>1, <2>2 DEF next, m, NeedsReplay
<1> QED BY <1>9, <1>10, <1>11

LEMMA SyncDormantStep ==
  ASSUME SeriesAssumption, Typed, SyncDormant
  PROVE  LET r == [Done EXCEPT !.live = FALSE]
             ended == [dst EXCEPT !.live = FALSE]
         IN /\ Doing("sync") /\ Creating /\ FALSE \in LiveAnswers
            /\ r \in Runs /\ Alike(r, run) /\ r.srcTodo = run.srcTodo /\ r.dstTodo = run.dstTodo
            /\ r.handled = run.handled /\ r.repaired = run.repaired /\ r.live = FALSE
            /\ r.known = run.known /\ r.agenda = Tail(run.agenda)
            /\ \/ ~(mapping = None /\ Found) /\ Still /\ run' = r
               \/ /\ mapping = None /\ Found /\ Bystanders /\ dst' = Surviving(ended)
                  /\ skipped' = skipped \cup (run.handled \cap Starts)
                  /\ Committed(None, recorded, replays, r) \/ Lost
<1> DEFINE r == [Done EXCEPT !.live = FALSE]
           ended == [dst EXCEPT !.live = FALSE]
<1>1. /\ Doing("sync") /\ Creating /\ FALSE \in LiveAnswers
      /\ IF mapping = None /\ Found THEN Write(ended, dstNews, {"series"}, None, recorded, replays, r)
         ELSE Only(r)
  BY DEF SyncDormant, Found
<1>2. /\ Running /\ run \in Runs /\ Done \in Runs /\ Kept(Done, run) /\ Done.agenda = Tail(run.agenda)
  BY <1>1, DoingStep
<1>3. /\ r \in Runs /\ Alike(r, run) /\ r.srcTodo = run.srcTodo /\ r.dstTodo = run.dstTodo
      /\ r.handled = run.handled /\ r.repaired = run.repaired /\ r.live = FALSE
      /\ r.known = run.known /\ r.agenda = Tail(run.agenda)
  BY <1>2 DEF Runs, Kept, Alike
<1>4. {"series"} \in SUBSET Parts /\ dstNews \in SUBSET Parts
  BY DEF Parts, Typed, TypeOK
<1>5. CASE mapping = None /\ Found
  <2>1. Write(ended, dstNews, {"series"}, None, recorded, replays, r)
    BY <1>1, <1>5
  <2> HIDE DEF ended, r
  <2>2. /\ Bystanders /\ dst' = Surviving(ended) /\ skipped' = skipped \cup (run.handled \cap Starts)
        /\ Committed(None, recorded, replays, r) \/ Lost
    BY <1>1, <1>2, <1>3, <1>4, <2>1, WriteStep
  <2> QED BY <1>1, <1>3, <1>5, <2>2 DEF ended, r
<1>6. CASE ~(mapping = None /\ Found)
  BY <1>1, <1>3, <1>6 DEF Only, Still, store, cursors
<1> QED BY <1>5, <1>6

\* Changing the mapped series leaves it mapped.
LEMMA RemappedTyped ==
  ASSUME Typed, mapping # None, NEW series \in SeriesRead, series.master \in Masters
  PROVE  LET m == [mapping EXCEPT !.rev = Revision(series), !.shown = series.master] IN
         /\ m \in SeriesMapping /\ m.linked = mapping.linked /\ m.shown = series.master
         /\ m.rev = Revision(series)
<1>1. mapping \in SeriesMapping
  BY DEF Typed, TypeOK
<1>2. Revision(series) \in 1..(MaxSource + 1)
  BY <1>1 DEF Revision, SeriesMapping, SeriesRead
<1>3. PICK rev : rev = Revision(series)
  OBVIOUS
<1>4. PICK a : a = [mapping EXCEPT !.rev = rev]
  OBVIOUS
<1>5. a \in SeriesMapping /\ a.linked = mapping.linked /\ a.rev = rev
  BY <1>1, <1>2, <1>3, <1>4 DEF SeriesMapping
<1>6. PICK b : b = [a EXCEPT !.shown = series.master]
  OBVIOUS
<1>7. b \in SeriesMapping /\ b.linked = mapping.linked /\ b.rev = rev /\ b.shown = series.master
  BY <1>5, <1>6 DEF SeriesMapping
<1>8. b = [mapping EXCEPT !.rev = Revision(series), !.shown = series.master]
  BY <1>3, <1>4, <1>6
<1> QED BY <1>3, <1>7, <1>8

LEMMA SyncUpdateStep ==
  ASSUME SeriesAssumption, Typed, SyncUpdate
  PROVE  LET r == run'
             m == [mapping EXCEPT !.rev = Revision(Item.series), !.shown = Item.series.master]
         IN /\ Doing("sync") /\ Item.series.master \in Masters /\ Actual # None
            /\ Actual # Item.series.master /\ dst.live /\ mapping # None /\ Linked
            /\ m \in SeriesMapping /\ m.linked = mapping.linked /\ m.shown = Item.series.master
            /\ Bystanders /\ dst' = Surviving(Reshaped(dst, Item.series.master)) /\ skipped' = skipped
            /\ \/ Lost
               \/ /\ mapping' = m /\ recorded' = recorded /\ replays' = replays
                  /\ r \in Runs /\ Alike(r, run) /\ r.srcTodo = run.srcTodo
                  /\ r.dstTodo = run.dstTodo /\ r.handled = run.handled /\ r.repaired = run.repaired
                  /\ r.live = run.live /\ r.known = None
                  /\ ItemsOf(r.agenda) =
                       {Then("reverify", Item.series), Then("complete", Item.series)}
                         \cup ItemsOf(Tail(run.agenda))
                  /\ left' = left
<1> DEFINE series == Item.series
           m == [mapping EXCEPT !.rev = Revision(series), !.shown = series.master]
           r == [Done EXCEPT !.known = None]
           next == Reshaped(dst, series.master)
           more == Reverify(series)
<1>1. /\ Doing("sync") /\ series.master # "cancelled" /\ Actual \notin {None, series.master} /\ dst.live
      /\ Write(next, dstNews, {"series"}, m, recorded, replays, Ask(r, more))
  BY DEF SyncUpdate
<1>2. /\ Running /\ run \in Runs /\ Done \in Runs /\ Kept(Done, run) /\ Done.agenda = Tail(run.agenda)
      /\ series \in SeriesRead /\ Tail(run.agenda) \in Seq(Items)
  BY <1>1, DoingStep
<1>3. /\ series.master \in Masters /\ mapping # None /\ Linked /\ ~Creating
  <2>1. series.master \in Masters
    BY <1>1, <1>2 DEF SeriesRead
  <2>2. mapping # None /\ Linked
    <3>1. Doing("sync") /\ Actual # None
      BY <1>1
    <3> QED BY <3>1, ActualTyped
  <2>3. ~Creating
    BY <1>1 DEF Creating
  <2> QED BY <2>1, <2>2, <2>3
<1>4. m \in SeriesMapping /\ m.linked = mapping.linked /\ m.shown = series.master
  BY <1>2, <1>3, RemappedTyped
<1>5. /\ r \in Runs /\ Alike(r, run) /\ r.srcTodo = run.srcTodo /\ r.dstTodo = run.dstTodo
      /\ r.handled = run.handled /\ r.repaired = run.repaired /\ r.live = run.live
      /\ r.known = None /\ r.agenda = Tail(run.agenda)
  BY <1>2 DEF Runs, Kept, Alike
<1>6. /\ more \in Seq(Items)
      /\ ItemsOf(more) = {Then("reverify", series), Then("complete", series)}
  BY <1>2, ReverifyItems
<1>7. {"series"} \in SUBSET Parts /\ dstNews \in SUBSET Parts
  BY DEF Parts, Typed, TypeOK
<1> HIDE DEF m, r, next, more
<1>8. /\ Ask(r, more) \in Runs /\ Kept(Ask(r, more), r)
      /\ Ask(r, more).agenda = more \o Tail(run.agenda)
  BY <1>5, <1>6, AskFields
<1>9. ItemsOf(more \o Tail(run.agenda)) = ItemsOf(more) \cup ItemsOf(Tail(run.agenda))
  BY <1>2, <1>6, ItemsJoined
<1>10. /\ Bystanders /\ dst' = Surviving(next) /\ skipped' = skipped
       /\ Committed(m, recorded, replays, Ask(r, more)) \/ Lost
  BY <1>1, <1>2, <1>3, <1>7, <1>8, WriteStep
<1>11. CASE Lost
  BY <1>1, <1>3, <1>4, <1>10, <1>11 DEF next, m
<1>12. CASE Committed(m, recorded, replays, Ask(r, more))
  <2>1. /\ mapping' = m /\ recorded' = recorded /\ replays' = replays /\ left' = left
        /\ run' \in Runs /\ Kept(run', Ask(r, more)) /\ run'.agenda = more \o Tail(run.agenda)
    BY <1>8, <1>12 DEF Committed
  <2>2. /\ Alike(run', run) /\ run'.srcTodo = run.srcTodo /\ run'.dstTodo = run.dstTodo
        /\ run'.handled = run.handled /\ run'.repaired = run.repaired /\ run'.live = run.live
        /\ run'.known = None
    BY <1>5, <1>8, <2>1 DEF Kept, Alike
  <2> QED BY <1>1, <1>3, <1>4, <1>6, <1>9, <1>10, <2>1, <2>2 DEF next, m
<1> QED BY <1>10, <1>11, <1>12

LEMMA SyncCurrentStep ==
  ASSUME SeriesAssumption, Typed, SyncCurrent
  PROVE  LET r == run'
             m == [mapping EXCEPT !.rev = Revision(Item.series), !.shown = Item.series.master]
         IN /\ Doing("sync") /\ Item.series.master \in Masters /\ Actual = Item.series.master
            /\ Actual # None /\ mapping # None /\ Linked
            /\ \/ Still /\ run' = Done
               \/ /\ m \in SeriesMapping /\ m.linked = mapping.linked /\ m.shown = Item.series.master
                  /\ mapping' = m
                  /\ UNCHANGED <<src, dst, recorded, replays, synced, due, srcNews, dstNews, skipped, left>>
                  /\ r \in Runs /\ Kept(r, run)
                  /\ ItemsOf(r.agenda) =
                       {Then("reverify", Item.series), Then("complete", Item.series)}
                         \cup ItemsOf(Tail(run.agenda))
<1> DEFINE series == Item.series
           m == [mapping EXCEPT !.rev = Revision(series), !.shown = series.master]
           more == Reverify(series)
<1>1. /\ Doing("sync") /\ series.master # "cancelled" /\ Actual = series.master
      /\ IF mapping.rev = series.rev THEN Only(Done)
         ELSE Save(m, recorded, replays, Ask(Done, more))
  BY DEF SyncCurrent
<1>2. /\ Running /\ run \in Runs /\ Done \in Runs /\ Kept(Done, run) /\ Done.agenda = Tail(run.agenda)
      /\ series \in SeriesRead /\ Tail(run.agenda) \in Seq(Items)
  BY <1>1, DoingStep
<1>3. series.master \in Masters /\ Actual # None /\ mapping # None /\ Linked
  <2>1. series.master \in Masters
    BY <1>1, <1>2 DEF SeriesRead
  <2> QED BY <1>1, <2>1, ActualTyped DEF SeriesAssumption
<1>4. m \in SeriesMapping /\ m.linked = mapping.linked /\ m.shown = series.master
  BY <1>2, <1>3, RemappedTyped
<1>5. /\ more \in Seq(Items)
      /\ ItemsOf(more) = {Then("reverify", series), Then("complete", series)}
  BY <1>2, ReverifyItems
<1> HIDE DEF m, more
<1>6. /\ Ask(Done, more) \in Runs /\ Kept(Ask(Done, more), Done)
      /\ Ask(Done, more).agenda = more \o Tail(run.agenda)
  BY <1>2, <1>5, AskFields
<1>7. ItemsOf(more \o Tail(run.agenda)) = ItemsOf(more) \cup ItemsOf(Tail(run.agenda))
  BY <1>2, <1>5, ItemsJoined
<1>8. Kept(Ask(Done, more), run)
  BY <1>2, <1>6 DEF Kept, Alike
<1>9. CASE mapping.rev = series.rev
  BY <1>1, <1>3, <1>9 DEF Only, Still, store, cursors
<1>10. CASE mapping.rev # series.rev
  <2>1. /\ mapping' = m /\ run' = Ask(Done, more)
        /\ UNCHANGED <<src, dst, recorded, replays, synced, due, srcNews, dstNews, skipped, left>>
    BY <1>1, <1>10 DEF Save, cursors
  <2> QED BY <1>1, <1>3, <1>4, <1>5, <1>6, <1>7, <1>8, <2>1 DEF m
<1> QED BY <1>9, <1>10

LEMMA ReverifyRecordedStep ==
  ASSUME SeriesAssumption, Typed, ReverifyRecorded
  PROVE  /\ Doing("reverify") /\ Still /\ run' \in Runs /\ Kept(run', run)
         /\ \/ run'.agenda = Tail(run.agenda)
            \/ \E item \in Items :
                 /\ item.do = "decide" /\ item.series = Item.series /\ item.current /\ ~item.again
                 /\ \A start \in DOMAIN item.wants :
                      /\ start \in Starts /\ start \notin run.handled /\ recorded[start] # None
                      /\ item.wants[start] = SourceView(src, start)
                 /\ ItemsOf(run'.agenda) = {item} \cup ItemsOf(Tail(run.agenda))
<1> DEFINE pending == {start \in Starts : recorded[start] # None} \ run.handled
           item == Decide(Item.series, ListOccurrences(pending), TRUE, FALSE)
<1>1. /\ Doing("reverify")
      /\ Only(IF pending = {} THEN Done ELSE Ask(Done, <<item>>))
  BY DEF ReverifyRecorded
<1>2. /\ Running /\ run \in Runs /\ Done \in Runs /\ Kept(Done, run) /\ Done.agenda = Tail(run.agenda)
      /\ Item.series \in SeriesRead /\ Tail(run.agenda) \in Seq(Items)
  BY <1>1, DoingStep
<1>3. src \in SourceSeries /\ pending \in SUBSET Starts
  BY DEF Typed, TypeOK
<1>4. \A start \in pending : SourceView(src, start) \in Views
  BY <1>3, Viewed, ViewsTyped
<1> HIDE DEF pending
<1>5. ListOccurrences(pending) \in [pending -> Views]
  BY <1>4 DEF ListOccurrences, Reread
<1>6. item \in Items
  BY <1>2, <1>3, <1>5, DecideTyped
<1>7. /\ item.do = "decide" /\ item.series = Item.series /\ item.current = TRUE /\ item.again = FALSE
      /\ item.wants = ListOccurrences(pending)
  BY DEF Decide
<1>8. \A start \in DOMAIN item.wants :
         /\ start \in Starts /\ start \notin run.handled /\ recorded[start] # None
         /\ item.wants[start] = SourceView(src, start)
  BY <1>3, <1>7 DEF ListOccurrences, Reread, pending
<1> HIDE DEF item
<1>9. <<item>> \in Seq(Items) /\ ItemsOf(<<item>>) = {item}
  BY <1>6, ItemsOfOne
<1>10. /\ Ask(Done, <<item>>) \in Runs /\ Kept(Ask(Done, <<item>>), Done)
       /\ Ask(Done, <<item>>).agenda = <<item>> \o Tail(run.agenda)
  BY <1>2, <1>9, AskFields
<1>11. ItemsOf(<<item>> \o Tail(run.agenda)) = {item} \cup ItemsOf(Tail(run.agenda))
  BY <1>2, <1>9, ItemsJoined
<1>12. Kept(Ask(Done, <<item>>), run)
  BY <1>2, <1>10 DEF Kept, Alike
<1>13. Still /\ run' = (IF pending = {} THEN Done ELSE Ask(Done, <<item>>))
  BY <1>1 DEF Only, Still, store, cursors
<1>14. CASE pending = {}
  BY <1>1, <1>2, <1>13, <1>14
<1>15. CASE pending # {}
  <2>1. run' = Ask(Done, <<item>>)
    BY <1>13, <1>15
  <2>2. ItemsOf(run'.agenda) = {item} \cup ItemsOf(Tail(run.agenda))
    BY <1>10, <1>11, <2>1
  <2>3. item.current /\ ~item.again
    BY <1>7
  <2> QED BY <1>1, <1>6, <1>7, <1>8, <1>10, <1>12, <1>13, <2>1, <2>2, <2>3
<1> QED BY <1>14, <1>15

LEMMA CompleteRevisionStep ==
  ASSUME SeriesAssumption, Typed, CompleteRevision
  PROVE  /\ Doing("complete") /\ run' = Done
         /\ UNCHANGED <<src, dst, recorded, replays, synced, due, srcNews, dstNews, skipped, left>>
         /\ \/ mapping = None /\ mapping' = None
            \/ /\ mapping # None /\ mapping' \in SeriesMapping
               /\ mapping'.linked = mapping.linked /\ mapping'.shown = mapping.shown
<1>1. /\ Doing("complete") /\ run' = Done
      /\ mapping' = (IF mapping = None THEN None ELSE [mapping EXCEPT !.rev = Item.series.rev])
      /\ UNCHANGED <<src, dst, recorded, replays, synced, due, srcNews, dstNews, skipped, left>>
  BY DEF CompleteRevision, Save, cursors
<1>2. Item.series \in SeriesRead
  BY <1>1, DoingStep
<1>3. mapping \in SeriesMapping \cup {None}
  BY DEF Typed, TypeOK
<1> QED BY <1>1, <1>2, <1>3 DEF SeriesMapping, SeriesRead

LEMMA ReplayExceptionsStep ==
  ASSUME SeriesAssumption, Typed, ReplayExceptions
  PROVE  /\ Doing("replay") /\ Still /\ run' \in Runs /\ Kept(run', run)
         /\ \/ ItemsOf(run'.agenda) = {Then("replayed", Item.series)} \cup ItemsOf(Tail(run.agenda))
            \/ \E item \in Items :
                 /\ item.do = "decide" /\ item.series = Item.series /\ item.current /\ ~item.again
                 /\ \A start \in DOMAIN item.wants :
                      start \in Starts /\ item.wants[start] = SourceView(src, start)
                 /\ ItemsOf(run'.agenda) =
                      {item, Then("replayed", Item.series)} \cup ItemsOf(Tail(run.agenda))
<1> DEFINE missing == Exceptions \ run.handled
           wants == [start \in missing |-> SourceView(src, start)]
           item == Decide(Item.series, wants, TRUE, FALSE)
           last == Then("replayed", Item.series)
<1>1. /\ Doing("replay")
      /\ Only(Ask(Done, (IF missing = {} THEN <<>> ELSE <<item>>) \o <<last>>))
  BY DEF ReplayExceptions
<1>2. /\ Running /\ run \in Runs /\ Done \in Runs /\ Kept(Done, run) /\ Done.agenda = Tail(run.agenda)
      /\ Item.series \in SeriesRead /\ Tail(run.agenda) \in Seq(Items)
  BY <1>1, DoingStep
<1>3. src \in SourceSeries /\ missing \in SUBSET Starts
  BY DEF Typed, TypeOK, Exceptions
<1>4. \A start \in missing : SourceView(src, start) \in Views
  BY <1>3, Viewed, ViewsTyped
<1> HIDE DEF missing
<1>5. wants \in [missing -> Views]
  BY <1>4
<1>6. item \in Items /\ last \in Items
  BY <1>2, <1>3, <1>5, DecideTyped, ThenTyped
<1>7. /\ item.do = "decide" /\ item.series = Item.series /\ item.current = TRUE /\ item.again = FALSE
      /\ item.wants = wants
  BY DEF Decide
<1>8. \A start \in DOMAIN item.wants : start \in Starts /\ item.wants[start] = SourceView(src, start)
  BY <1>3, <1>7
<1> HIDE DEF item, last
<1>9. /\ <<item>> \in Seq(Items) /\ ItemsOf(<<item>>) = {item}
      /\ <<last>> \in Seq(Items) /\ ItemsOf(<<last>>) = {last}
      /\ <<>> \in Seq(Items) /\ ItemsOf(<<>>) = {}
  <2>1. <<item>> \in Seq(Items) /\ <<last>> \in Seq(Items) /\ <<>> \in Seq(Items)
    BY <1>6
  <2>2. ItemsOf(<<item>>) = {item}
    BY ItemsOfOne
  <2>3. ItemsOf(<<last>>) = {last}
    BY ItemsOfOne
  <2> QED BY <2>1, <2>2, <2>3, ItemsOfNone
<1>10. PICK first \in {<<>>, <<item>>} : first = IF missing = {} THEN <<>> ELSE <<item>>
  OBVIOUS
<1>11. /\ first \o <<last>> \in Seq(Items)
       /\ ItemsOf(first \o <<last>>) = ItemsOf(first) \cup {last}
  BY <1>9, <1>10, ItemsJoined
<1>12. /\ Ask(Done, first \o <<last>>) \in Runs /\ Kept(Ask(Done, first \o <<last>>), Done)
       /\ Ask(Done, first \o <<last>>).agenda = (first \o <<last>>) \o Tail(run.agenda)
  BY <1>2, <1>11, AskFields
<1>13. ItemsOf((first \o <<last>>) \o Tail(run.agenda)) =
         ItemsOf(first) \cup {last} \cup ItemsOf(Tail(run.agenda))
  BY <1>2, <1>11, ItemsJoined
<1>14. Kept(Ask(Done, first \o <<last>>), run)
  BY <1>2, <1>12 DEF Kept, Alike
<1>15. Still /\ run' = Ask(Done, first \o <<last>>)
  BY <1>1, <1>10 DEF Only, Still, store, cursors
<1>16. ItemsOf(run'.agenda) = ItemsOf(first) \cup {last} \cup ItemsOf(Tail(run.agenda))
  BY <1>12, <1>13, <1>15
<1>17. CASE first = <<>>
  BY <1>1, <1>9, <1>12, <1>14, <1>15, <1>16, <1>17 DEF last
<1>18. CASE first = <<item>>
  <2>1. item.current /\ ~item.again
    BY <1>7
  <2>2. ItemsOf(run'.agenda) = {item, last} \cup ItemsOf(Tail(run.agenda))
    BY <1>9, <1>16, <1>18
  <2> QED BY <1>1, <1>6, <1>7, <1>8, <1>12, <1>14, <1>15, <2>1, <2>2 DEF last
<1> QED BY <1>10, <1>17, <1>18

LEMMA ReplayDoneStep ==
  ASSUME SeriesAssumption, Typed, ReplayDone
  PROVE  /\ Doing("replayed") /\ run' = Done /\ replays' = FALSE
         /\ UNCHANGED <<src, dst, mapping, recorded, synced, due, srcNews, dstNews, skipped, left>>
BY DEF ReplayDone, Save, cursors

\* What is left to decide after one occurrence of an item, and the run that decided it.
Rest(start) == [Item EXCEPT !.wants = [s \in DOMAIN Item.wants \ {start} |-> Item.wants[s]]]

LEMMA RestFields ==
  ASSUME Typed, Doing("decide"), NEW start \in DOMAIN Item.wants
  PROVE  /\ Item.current \in BOOLEAN /\ Item.again \in BOOLEAN /\ Item.wants[start] \in Views
         /\ start \in Starts /\ DOMAIN Item.wants \subseteq Starts
         /\ Rest(start) \in Items /\ Rest(start).do = "decide" /\ Rest(start).series = Item.series
         /\ Rest(start).current = Item.current /\ Rest(start).again = Item.again
         /\ DOMAIN Rest(start).wants = DOMAIN Item.wants \ {start}
         /\ \A s \in DOMAIN Item.wants \ {start} : Rest(start).wants[s] = Item.wants[s]
<1>1. Item \in Items /\ Item.do = "decide"
  BY DoingStep
<1>2. /\ Item.current \in BOOLEAN /\ Item.again \in BOOLEAN /\ Item.series \in SeriesRead
      /\ DOMAIN Item.wants \subseteq Starts /\ Item.wants \in [DOMAIN Item.wants -> Views]
  BY <1>1, ItemKinds
<1> DEFINE others == DOMAIN Item.wants \ {start}
           wants == [s \in others |-> Item.wants[s]]
<1>3. /\ others \in SUBSET Starts /\ wants \in [others -> Views] /\ DOMAIN wants = others
      /\ \A s \in others : wants[s] = Item.wants[s]
  BY <1>2
<1>4. wants \in UNION {[some -> Views] : some \in SUBSET Starts}
  BY <1>3
<1>5. Rest(start) = [Item EXCEPT !.wants = wants]
  BY DEF Rest
<1> HIDE DEF wants
<1>6. /\ Rest(start) \in Items /\ Rest(start).do = "decide" /\ Rest(start).series = Item.series
      /\ Rest(start).current = Item.current /\ Rest(start).again = Item.again
      /\ Rest(start).wants = wants
  BY <1>1, <1>4, <1>5 DEF Items
<1> QED BY <1>2, <1>3, <1>6

DecidedTo(r, start) ==
  /\ r \in Runs /\ Alike(r, run) /\ r.srcTodo = run.srcTodo /\ r.dstTodo = run.dstTodo
  /\ r.repaired = run.repaired /\ r.live = run.live
  /\ r.known = (IF mapping = None THEN run.known ELSE Known)
  /\ r.agenda = Decided(start).agenda

RestItems(start) ==
  ItemsOf(Tail(run.agenda)) \cup (IF DOMAIN Item.wants = {start} THEN {} ELSE {Rest(start)})

LEMMA DecidedStep ==
  ASSUME Typed, Doing("decide"), NEW start \in DOMAIN Item.wants
  PROVE  /\ DecidedTo(Decided(start), start) /\ Decided(start).handled = run.handled
         /\ Decided(start).agenda \in Seq(Items) /\ ItemsOf(Decided(start).agenda) = RestItems(start)
         /\ Known \in BOOLEAN
<1>1. /\ Running /\ run \in Runs /\ Done \in Runs /\ Kept(Done, run) /\ Done.agenda = Tail(run.agenda)
      /\ Item.series \in SeriesRead /\ Tail(run.agenda) \in Seq(Items)
  BY DoingStep
<1>2. Rest(start) \in Items
  BY RestFields
<1> DEFINE others == DOMAIN Item.wants \ {start}
           rest == IF others = {} THEN <<>> ELSE <<Rest(start)>>
           known == IF mapping = None THEN run.known ELSE Known
<1>3. rest \in Seq(Items) /\ ItemsOf(rest) = (IF DOMAIN Item.wants = {start} THEN {} ELSE {Rest(start)})
  <2>1. <<>> \in Seq(Items) /\ <<Rest(start)>> \in Seq(Items)
    BY <1>2
  <2>2. ItemsOf(<<>>) = {} /\ ItemsOf(<<Rest(start)>>) = {Rest(start)}
    BY ItemsOfNone, ItemsOfOne
  <2>3. others = {} <=> DOMAIN Item.wants = {start}
    OBVIOUS
  <2> QED BY <2>1, <2>2, <2>3
<1>4. Known \in BOOLEAN
  <2>1. run.known \in BOOLEAN \cup {None}
    BY <1>1 DEF Runs
  <2>2. dst.live \in BOOLEAN /\ (mapping # None => mapping.linked \in BOOLEAN)
    BY DEF Typed, TypeOK, DestinationSeries, SeriesMapping
  <2>3. (Linked /\ dst.live) \in BOOLEAN
    BY <2>2 DEF Linked
  <2> QED BY <2>1, <2>3 DEF Known
<1>5. known \in BOOLEAN \cup {None}
  BY <1>1, <1>4 DEF Runs
<1>6. Decided(start) = [Ask(Done, rest) EXCEPT !.known = IF mapping = None THEN @ ELSE Known]
  BY DEF Decided, Rest
<1> HIDE DEF rest, others
<1>7. /\ Ask(Done, rest) \in Runs /\ Kept(Ask(Done, rest), Done)
      /\ Ask(Done, rest).agenda = rest \o Tail(run.agenda)
  BY <1>1, <1>3, AskFields
<1>8. /\ rest \o Tail(run.agenda) \in Seq(Items)
      /\ ItemsOf(rest \o Tail(run.agenda)) = ItemsOf(rest) \cup ItemsOf(Tail(run.agenda))
  BY <1>1, <1>3, ItemsJoined
<1>9. Kept(Ask(Done, rest), run)
  BY <1>1, <1>7 DEF Kept, Alike
<1>10. PICK a : a = Ask(Done, rest)
  OBVIOUS
<1>11. Decided(start) = [a EXCEPT !.known = known]
  BY <1>6, <1>9, <1>10 DEF Kept
<1> HIDE DEF known
<1>12. /\ Decided(start) \in Runs /\ Alike(Decided(start), run) /\ Decided(start).known = known
       /\ Decided(start).srcTodo = run.srcTodo /\ Decided(start).dstTodo = run.dstTodo
       /\ Decided(start).repaired = run.repaired /\ Decided(start).live = run.live
       /\ Decided(start).handled = run.handled /\ Decided(start).agenda = rest \o Tail(run.agenda)
  BY <1>5, <1>7, <1>9, <1>10, <1>11 DEF Runs, Kept, Alike
<1>13. DecidedTo(Decided(start), start)
  BY <1>12 DEF DecidedTo, known
<1>14. Decided(start).agenda \in Seq(Items) /\ ItemsOf(Decided(start).agenda) = RestItems(start)
  BY <1>3, <1>8, <1>12 DEF RestItems
<1> QED BY <1>4, <1>12, <1>13, <1>14

LEMMA HandledStep ==
  ASSUME Typed, Doing("decide"), NEW start \in DOMAIN Item.wants
  PROVE  /\ DecidedTo(Handled(start), start)
         /\ Handled(start).handled =
              IF Item.wants[start] # "absent" \/ recorded[start] # None
              THEN run.handled \cup {start} ELSE run.handled
<1> DEFINE handled == IF Item.wants[start] # "absent" \/ recorded[start] # None
                      THEN run.handled \cup {start} ELSE run.handled
<1>1. DecidedTo(Decided(start), start) /\ Decided(start).handled = run.handled
  BY DecidedStep
<1>2. handled \in SUBSET Parts
  <2>1. start \in Starts /\ run \in Runs
    BY RestFields, DoingStep
  <2> QED BY <2>1 DEF Runs, Parts
<1>3. Handled(start) = [Decided(start) EXCEPT !.handled = handled]
  BY <1>1 DEF Handled
<1> HIDE DEF handled
<1>4. DecidedTo(Handled(start), start) /\ Handled(start).handled = handled
  BY <1>1, <1>2, <1>3 DEF DecidedTo, Runs, Alike
<1> QED BY <1>4 DEF handled

LEMMA OutcomeWas ==
  ASSUME NEW start
  PROVE  LET want == Item.wants[start]
             shown == DestinationView(dst, start)
         IN /\ Outcome(start) = "ignore" =>
                 \/ mapping = None \/ Item.series.master = "cancelled"
                 \/ ~Known /\ Item.again /\ run.live = FALSE
            /\ Outcome(start) # "ignore" => mapping # None /\ Item.series.master # "cancelled"
            /\ Outcome(start) = "missing" =>
                 \/ ~Known /\ ~(Item.again /\ run.live = FALSE)
                 \/ Known /\ want \notin {"absent", "cancelled"} /\ shown = "absent"
            /\ Outcome(start) \in {"retire", "unchanged", "update", "cancel"} => Known
            /\ Outcome(start) = "retire" => want = "absent" /\ shown \in Hidden
            /\ Outcome(start) = "unchanged" =>
                 \/ want = "cancelled" /\ shown \in Hidden
                 \/ want \notin {"absent", "cancelled"} /\ shown = want
            /\ Outcome(start) = "update" =>
                 want \notin {"absent", "cancelled"} /\ shown # "absent" /\ shown # want
            /\ Outcome(start) = "cancel" => want \in {"absent", "cancelled"} /\ shown \notin Hidden
BY DEF Outcome

\* What Google answers to whether the series has a live occurrence.
Calls(start) == SourceView(src, start) \notin Hidden
Calling == \E start \in Starts : Calls(start)

LEMMA LiveAnswered ==
  ASSUME Typed, Running, NEW live \in LiveAnswers
  PROVE  /\ live \in BOOLEAN
         /\ run.live # None => live = run.live
         /\ run.live = None /\ src.master # "cancelled" => (live <=> Calling)
<1>1. run.live \in BOOLEAN \cup {None}
  BY RunTyped DEF Typed, Runs
<1>2. CASE run.live # None
  BY <1>1, <1>2 DEF LiveAnswers
<1>3. CASE run.live = None /\ src.master = "cancelled"
  BY <1>3 DEF LiveAnswers
<1>4. CASE run.live = None /\ src.master # "cancelled"
  <2>1. live \in {\E start \in Starts : SourceView(src, start) \notin Hidden}
    BY <1>4 DEF LiveAnswers
  <2>2. live = (\E start \in Starts : SourceView(src, start) \notin Hidden)
    BY <2>1
  <2>3. live \in BOOLEAN /\ (live <=> \E start \in Starts : SourceView(src, start) \notin Hidden)
    BY <2>2
  <2> QED BY <1>4, <2>3 DEF Calling, Calls
<1> QED BY <1>2, <1>3, <1>4

\* An occurrence that is decided again, once its series was repaired.
Again(start) == Decide(Item.series, At(start, Item.wants[start]), Item.current, TRUE)

LEMMA RepairMissingStep ==
  ASSUME SeriesAssumption, Typed, NEW start, RepairMissing(start)
  PROVE  LET r == run' IN
         /\ Doing("decide") /\ start \in DOMAIN Item.wants /\ start \in Starts
         /\ Outcome(start) = "missing" /\ ~Item.again /\ Still
         /\ Again(start) \in Items
         /\ r \in Runs /\ Alike(r, run) /\ r.srcTodo = run.srcTodo /\ r.dstTodo = run.dstTodo
         /\ r.known = (IF mapping = None THEN run.known ELSE Known)
         /\ r.live \in LiveAnswers
         /\ r.repaired = (run.repaired \/ r.live = TRUE)
         /\ r.handled = (IF r.live = TRUE /\ Item.wants[start] # "absent"
                         THEN run.handled \cup {start} ELSE run.handled)
         /\ \/ /\ ~(r.live = TRUE /\ ~run.repaired)
               /\ ItemsOf(r.agenda) = {Again(start)} \cup RestItems(start)
            \/ /\ r.live = TRUE /\ ~run.repaired
               /\ Sync(Item.series, "fresh") \in Items
               /\ r.agenda # <<>> /\ Head(r.agenda) = Sync(Item.series, "fresh")
               /\ ItemsOf(Tail(r.agenda)) = {Again(start)} \cup RestItems(start)
               /\ Tail(r.agenda) # <<>>
               /\ ItemsOf(r.agenda) = {Sync(Item.series, "fresh"), Again(start)} \cup RestItems(start)
<1>1. /\ Doing("decide") /\ start \in DOMAIN Item.wants
      /\ Outcome(start) = "missing" /\ ~Item.again
  BY DEF RepairMissing, MayRepair
<1>2. PICK live \in LiveAnswers :
        LET want == Item.wants[start]
            r == [Decided(start) EXCEPT
                    !.live = live, !.repaired = @ \/ live,
                    !.handled = IF live /\ want # "absent" THEN @ \cup {start} ELSE @]
        IN Only(Ask(r, (IF live /\ ~run.repaired THEN <<Sync(Item.series, "fresh")>> ELSE <<>>)
                       \o <<Again(start)>>))
  BY DEF RepairMissing, Again
<1>3. /\ Running /\ run \in Runs /\ Item.series \in SeriesRead
  BY <1>1, DoingStep
<1>4. live \in BOOLEAN
  BY <1>3, LiveAnswered
<1>5. /\ start \in Starts /\ Item.wants[start] \in Views /\ Item.current \in BOOLEAN
  BY <1>1, RestFields
<1>6. Again(start) \in Items /\ Sync(Item.series, "fresh") \in Items
  <2>1. At(start, Item.wants[start]) \in [{start} -> Views] /\ {start} \in SUBSET Starts
    BY <1>5, AtTyped
  <2>2. Again(start) \in Items
    BY <1>3, <1>5, <2>1, DecideTyped DEF Again
  <2> QED BY <1>3, <2>2, SyncTyped
<1> DEFINE handled == IF live /\ Item.wants[start] # "absent" THEN run.handled \cup {start} ELSE run.handled
           repaired == run.repaired \/ live
           r == [Decided(start) EXCEPT !.live = live, !.repaired = repaired, !.handled = handled]
           first == IF live /\ ~run.repaired THEN <<Sync(Item.series, "fresh")>> ELSE <<>>
           second == <<Again(start)>>
<1>7. /\ DecidedTo(Decided(start), start) /\ Decided(start).handled = run.handled
      /\ Decided(start).agenda \in Seq(Items) /\ ItemsOf(Decided(start).agenda) = RestItems(start)
  BY <1>1, DecidedStep
<1>8. handled \in SUBSET Parts /\ repaired \in BOOLEAN
  BY <1>3, <1>4, <1>5 DEF Runs, Parts
<1>9. /\ r \in Runs /\ Alike(r, run) /\ r.srcTodo = run.srcTodo /\ r.dstTodo = run.dstTodo
      /\ r.known = (IF mapping = None THEN run.known ELSE Known)
      /\ r.live = live /\ r.repaired = repaired /\ r.handled = handled
      /\ r.agenda = Decided(start).agenda
  <2> HIDE DEF handled, repaired
  <2>1. PICK a : a = [Decided(start) EXCEPT !.live = live]
    OBVIOUS
  <2>2. /\ a \in Runs /\ Alike(a, run) /\ a.srcTodo = run.srcTodo /\ a.dstTodo = run.dstTodo
        /\ a.known = (IF mapping = None THEN run.known ELSE Known)
        /\ a.live = live /\ a.agenda = Decided(start).agenda
    BY <1>4, <1>7, <2>1 DEF DecidedTo, Runs, Alike
  <2>3. PICK b : b = [a EXCEPT !.repaired = repaired]
    OBVIOUS
  <2>4. /\ b \in Runs /\ Alike(b, run) /\ b.srcTodo = run.srcTodo /\ b.dstTodo = run.dstTodo
        /\ b.known = (IF mapping = None THEN run.known ELSE Known)
        /\ b.live = live /\ b.repaired = repaired /\ b.agenda = Decided(start).agenda
    BY <1>8, <2>2, <2>3 DEF Runs, Alike
  <2>5. PICK c : c = [b EXCEPT !.handled = handled]
    OBVIOUS
  <2>6. /\ c \in Runs /\ Alike(c, run) /\ c.srcTodo = run.srcTodo /\ c.dstTodo = run.dstTodo
        /\ c.known = (IF mapping = None THEN run.known ELSE Known)
        /\ c.live = live /\ c.repaired = repaired /\ c.handled = handled
        /\ c.agenda = Decided(start).agenda
    BY <1>8, <2>4, <2>5 DEF Runs, Alike
  <2>7. r = c
    BY <2>1, <2>3, <2>5
  <2> HIDE DEF r
  <2> QED BY <2>6, <2>7
<1>10. Only(Ask(r, first \o second))
  <2>1. [Decided(start) EXCEPT
           !.live = live, !.repaired = @ \/ live,
           !.handled = IF live /\ Item.wants[start] # "absent" THEN @ \cup {start} ELSE @] = r
    BY <1>7, <1>3 DEF DecidedTo
  <2> QED BY <1>2, <2>1
<1> HIDE DEF r, handled, repaired
<1>11. /\ first \in Seq(Items) /\ second \in Seq(Items) /\ ItemsOf(second) = {Again(start)}
       /\ second # <<>>
       /\ first = <<Sync(Item.series, "fresh")>> \/ first = <<>>
  BY <1>6, ItemsOfOne
<1> HIDE DEF first, second
<1>12. /\ first \o second \in Seq(Items)
       /\ (first \o second) \o Decided(start).agenda = first \o (second \o Decided(start).agenda)
  <2>1. first \in Seq(Items) /\ second \in Seq(Items) /\ Decided(start).agenda \in Seq(Items)
    BY <1>7, <1>11
  <2>2. first \o second \in Seq(Items)
    BY <2>1, ItemsJoined
  <2>3. (first \o second) \o Decided(start).agenda = first \o (second \o Decided(start).agenda)
    <3>1. PICK a \in Seq(Items), b \in Seq(Items), c \in Seq(Items) :
            a = first /\ b = second /\ c = Decided(start).agenda
      BY <2>1
    <3>2. (a \o b) \o c = a \o (b \o c)
      BY ItemsAssociate
    <3> QED BY <3>1, <3>2
  <2> QED BY <2>2, <2>3
<1>13. /\ second \o Decided(start).agenda \in Seq(Items)
       /\ ItemsOf(second \o Decided(start).agenda) = {Again(start)} \cup RestItems(start)
       /\ second \o Decided(start).agenda # <<>>
  <2>1. second \o Decided(start).agenda # <<>>
    BY <1>6, <1>7, FirstOf DEF second
  <2> QED BY <1>7, <1>11, <2>1, ItemsJoined
<1>14. /\ Ask(r, first \o second) \in Runs /\ Kept(Ask(r, first \o second), r)
       /\ Ask(r, first \o second).agenda = first \o (second \o Decided(start).agenda)
  BY <1>9, <1>12, AskFields
<1>15. Still /\ run' = Ask(r, first \o second)
  BY <1>10 DEF Only, Still, store, cursors
<1>16. /\ run' \in Runs /\ Alike(run', run) /\ run'.srcTodo = run.srcTodo /\ run'.dstTodo = run.dstTodo
       /\ run'.known = (IF mapping = None THEN run.known ELSE Known)
       /\ run'.live = live /\ run'.repaired = repaired /\ run'.handled = handled
       /\ run'.agenda = first \o (second \o Decided(start).agenda)
  BY <1>9, <1>14, <1>15 DEF Kept, Alike
<1>17. /\ run'.live \in LiveAnswers /\ (run'.live = TRUE <=> live)
       /\ run'.repaired = (run.repaired \/ run'.live = TRUE)
       /\ run'.handled = (IF run'.live = TRUE /\ Item.wants[start] # "absent"
                         THEN run.handled \cup {start} ELSE run.handled)
  BY <1>3, <1>4, <1>16 DEF repaired, handled, Runs
<1>18. CASE ~(live /\ ~run.repaired)
  <2>1. first = <<>>
    BY <1>18 DEF first
  <2>2. run'.agenda = second \o Decided(start).agenda
    BY <1>13, <1>16, <2>1, ConcatEmptySeq
  <2> QED BY <1>1, <1>5, <1>6, <1>13, <1>15, <1>16, <1>17, <1>18, <2>2
<1>19. CASE live /\ ~run.repaired
  <2>1. first = <<Sync(Item.series, "fresh")>>
    BY <1>19 DEF first
  <2> DEFINE more == second \o Decided(start).agenda
             sync == Sync(Item.series, "fresh")
  <2>2. run'.agenda = <<sync>> \o more
    BY <1>16, <2>1
  <2>3. more \in Seq(Items) /\ sync \in Items /\ ItemsOf(more) = {Again(start)} \cup RestItems(start)
    BY <1>6, <1>13
  <2>4. more # <<>>
    BY <1>13
  <2> HIDE DEF more, sync
  <2>5. /\ <<sync>> \o more \in Seq(Items) /\ <<sync>> \o more # <<>>
        /\ Head(<<sync>> \o more) = sync /\ Tail(<<sync>> \o more) = more
    BY <2>3, FirstOf
  <2>6. ItemsOf(<<sync>> \o more) = {sync} \cup ItemsOf(more)
    BY <2>3, <2>5, ItemsOfTail
  <2>7. /\ run'.agenda # <<>> /\ Head(run'.agenda) = sync
        /\ ItemsOf(Tail(run'.agenda)) = {Again(start)} \cup RestItems(start)
        /\ Tail(run'.agenda) # <<>>
        /\ ItemsOf(run'.agenda) = {sync, Again(start)} \cup RestItems(start)
    BY <2>2, <2>3, <2>4, <2>5, <2>6
  <2> QED BY <1>1, <1>5, <1>6, <1>15, <1>16, <1>17, <1>19, <2>7 DEF sync
<1> QED BY <1>18, <1>19

\* What is written at an occurrence, and what is recorded of it.
Outcomes(start) ==
  LET want == Item.wants[start]
      shown == DestinationView(dst, start)
      record(value) == [recorded EXCEPT ![start] = value]
  IN \/ /\ \/ Outcome(start) = "ignore"
           \/ Outcome(start) = "missing" /\ Item.again
        /\ dst' = dst /\ mapping' = mapping /\ recorded' = recorded
     \/ /\ Outcome(start) = "retire" /\ dst' = dst /\ mapping' = mapping
        /\ recorded' = record(Retired(start))
     \/ /\ Outcome(start) = "unchanged" /\ dst' = dst /\ mapping' = mapping
        /\ recorded' = IF Item.current /\ shown # "absent" THEN record(want) ELSE recorded
     \/ /\ Outcome(start) = "update" /\ dst' = Surviving(WriteOccurrence(start, want))
        /\ mapping' = mapping /\ recorded' = record(want)
     \/ /\ Outcome(start) = "cancel" /\ dst' = Surviving(CancelOccurrence(start))
        /\ mapping' = mapping /\ recorded' = record(Retired(start))

LEMMA ApplyOccurrenceStep ==
  ASSUME SeriesAssumption, Typed, NEW start, ApplyOccurrence(start)
  PROVE  LET r == run' IN
         /\ Doing("decide") /\ start \in DOMAIN Item.wants /\ start \in Starts
         /\ Bystanders /\ skipped' = skipped
         /\ \/ /\ Outcomes(start) /\ replays' = replays /\ left' = left
               /\ r \in Runs /\ Alike(r, run) /\ r.srcTodo = run.srcTodo /\ r.dstTodo = run.dstTodo
               /\ r.repaired = run.repaired /\ r.live = run.live
               /\ r.known = (IF mapping = None THEN run.known ELSE Known)
               /\ ItemsOf(r.agenda) = RestItems(start)
               /\ r.handled = (IF Item.wants[start] # "absent" \/ recorded[start] # None
                               THEN run.handled \cup {start} ELSE run.handled)
            \/ /\ Lost
               /\ \/ Outcome(start) = "update" /\ dst' = Surviving(WriteOccurrence(start, Item.wants[start]))
                  \/ Outcome(start) = "cancel" /\ dst' = Surviving(CancelOccurrence(start))
<1> DEFINE want == Item.wants[start]
           r == Handled(start)
           record(value) == [recorded EXCEPT ![start] = value]
<1>1. Doing("decide") /\ start \in DOMAIN Item.wants
  BY DEF ApplyOccurrence
<1>2. start \in Starts /\ Running /\ run \in Runs
  BY <1>1, RestFields, DoingStep
<1>3. /\ DecidedTo(r, start)
      /\ r.handled = (IF want # "absent" \/ recorded[start] # None
                      THEN run.handled \cup {start} ELSE run.handled)
  BY <1>1, HandledStep
<1>4. ItemsOf(Decided(start).agenda) = RestItems(start)
  BY <1>1, DecidedStep
<1>5. {start} \in SUBSET Parts /\ dstNews \in SUBSET Parts /\ left \in Limits
  BY <1>2 DEF Parts, Typed, TypeOK, Limits
<1>6. ~Creating
  BY <1>1 DEF Creating, Doing
<1> DEFINE Goes ==
      /\ run' \in Runs /\ Alike(run', run) /\ run'.srcTodo = run.srcTodo /\ run'.dstTodo = run.dstTodo
      /\ run'.repaired = run.repaired /\ run'.live = run.live
      /\ run'.known = (IF mapping = None THEN run.known ELSE Known)
      /\ ItemsOf(run'.agenda) = RestItems(start)
      /\ run'.handled = (IF want # "absent" \/ recorded[start] # None
                         THEN run.handled \cup {start} ELSE run.handled)
<1> HIDE DEF r
<1>7. ASSUME run' = r
      PROVE  Goes
  BY <1>3, <1>4, <1>7 DEF DecidedTo
<1>8. ASSUME run' \in Runs, Kept(run', r), run'.agenda = r.agenda
      PROVE  Goes
  BY <1>3, <1>4, <1>8 DEF DecidedTo, Kept, Alike
<1>9. ASSUME NEW m, NEW rec, NEW rep, Save(m, rec, rep, r)
      PROVE  /\ Goes /\ Bystanders /\ skipped' = skipped /\ left' = left /\ dst' = dst
             /\ mapping' = m /\ recorded' = rec /\ replays' = rep
  <2>1. /\ run' = r /\ skipped' = skipped /\ left' = left /\ dst' = dst
        /\ mapping' = m /\ recorded' = rec /\ replays' = rep
        /\ UNCHANGED <<src, synced, due, srcNews, dstNews>>
    BY <1>9 DEF Save, cursors
  <2> QED BY <1>5, <1>7, <2>1 DEF Bystanders
<1>10. ASSUME NEW next, NEW rec, Write(next, dstNews, {start}, mapping, rec, replays, r)
       PROVE  /\ Bystanders /\ dst' = Surviving(next) /\ skipped' = skipped
              /\ \/ Goes /\ mapping' = mapping /\ recorded' = rec /\ replays' = replays /\ left' = left
                 \/ Lost
  <2>1. r \in Runs
    BY <1>3 DEF DecidedTo
  <2>2. /\ Bystanders /\ dst' = Surviving(next) /\ skipped' = skipped
        /\ Committed(mapping, rec, replays, r) \/ Lost
    BY <1>2, <1>5, <1>6, <1>10, <2>1, WriteStep
  <2>3. CASE Committed(mapping, rec, replays, r)
    BY <1>8, <2>2, <2>3 DEF Committed
  <2> QED BY <2>2, <2>3
<1> HIDE DEF Goes, want
<1>11. \/ /\ \/ Outcome(start) = "ignore"
             \/ Outcome(start) = "missing" /\ Item.again
          /\ Only(r)
       \/ /\ Outcome(start) = "retire"
          /\ Save(mapping, record(Retired(start)), replays, r)
       \/ /\ Outcome(start) = "unchanged"
          /\ Save(mapping, IF Item.current /\ DestinationView(dst, start) # "absent"
                           THEN record(want) ELSE recorded, replays, r)
       \/ /\ Outcome(start) = "update"
          /\ Write(WriteOccurrence(start, want), dstNews, {start}, mapping, record(want), replays, r)
       \/ /\ Outcome(start) = "cancel"
          /\ Write(CancelOccurrence(start), dstNews, {start}, mapping, record(Retired(start)), replays, r)
  BY DEF ApplyOccurrence, MayRepair, r, want
<1>12. CASE /\ Outcome(start) = "ignore" \/ (Outcome(start) = "missing" /\ Item.again)
            /\ Only(r)
  <2>1. run' = r /\ Still
    BY <1>12 DEF Only, Still, store, cursors
  <2>2. Goes
    BY <1>7, <2>1
  <2>3. Bystanders
    BY <1>5, <2>1 DEF Bystanders, Still
  <2>4. Outcomes(start)
    BY <1>12, <2>1 DEF Outcomes, Still
  <2> QED BY <1>1, <1>2, <2>1, <2>2, <2>3, <2>4 DEF Goes, want, Still
<1>13. CASE /\ Outcome(start) = "retire"
            /\ Save(mapping, record(Retired(start)), replays, r)
  <2>1. /\ Goes /\ Bystanders /\ skipped' = skipped /\ left' = left /\ dst' = dst
        /\ mapping' = mapping /\ recorded' = record(Retired(start)) /\ replays' = replays
    BY <1>9, <1>13
  <2>2. Outcomes(start)
    BY <1>13, <2>1 DEF Outcomes
  <2> QED BY <1>1, <1>2, <2>1, <2>2 DEF Goes, want
<1>14. CASE /\ Outcome(start) = "unchanged"
            /\ Save(mapping, IF Item.current /\ DestinationView(dst, start) # "absent"
                             THEN record(want) ELSE recorded, replays, r)
  <2>1. /\ Goes /\ Bystanders /\ skipped' = skipped /\ left' = left /\ dst' = dst
        /\ mapping' = mapping /\ replays' = replays
        /\ recorded' = IF Item.current /\ DestinationView(dst, start) # "absent"
                       THEN record(want) ELSE recorded
    BY <1>9, <1>14
  <2>2. Outcomes(start)
    BY <1>14, <2>1 DEF Outcomes, want
  <2> QED BY <1>1, <1>2, <2>1, <2>2 DEF Goes, want
<1>15. CASE /\ Outcome(start) = "update"
            /\ Write(WriteOccurrence(start, want), dstNews, {start}, mapping, record(want), replays, r)
  <2>1. /\ Bystanders /\ dst' = Surviving(WriteOccurrence(start, want)) /\ skipped' = skipped
        /\ \/ Goes /\ mapping' = mapping /\ recorded' = record(want) /\ replays' = replays /\ left' = left
           \/ Lost
    BY <1>10, <1>15
  <2>2. CASE Goes /\ mapping' = mapping /\ recorded' = record(want) /\ replays' = replays /\ left' = left
    <3>1. Outcomes(start)
      BY <1>15, <2>1, <2>2 DEF Outcomes, want
    <3> QED BY <1>1, <1>2, <2>1, <2>2, <3>1 DEF Goes, want
  <2>3. CASE Lost
    BY <1>1, <1>2, <1>15, <2>1, <2>3 DEF want
  <2> QED BY <2>1, <2>2, <2>3
<1>16. CASE /\ Outcome(start) = "cancel"
            /\ Write(CancelOccurrence(start), dstNews, {start}, mapping, record(Retired(start)), replays, r)
  <2>1. /\ Bystanders /\ dst' = Surviving(CancelOccurrence(start)) /\ skipped' = skipped
        /\ \/ Goes /\ mapping' = mapping /\ recorded' = record(Retired(start)) /\ replays' = replays /\ left' = left
           \/ Lost
    BY <1>10, <1>16
  <2>2. CASE Goes /\ mapping' = mapping /\ recorded' = record(Retired(start)) /\ replays' = replays /\ left' = left
    <3>1. Outcomes(start)
      BY <1>16, <2>1, <2>2 DEF Outcomes
    <3> QED BY <1>1, <1>2, <2>1, <2>2, <3>1 DEF Goes, want
  <2>3. CASE Lost
    BY <1>1, <1>2, <1>16, <2>1, <2>3 DEF want
  <2> QED BY <2>1, <2>2, <2>3
<1> QED BY <1>11, <1>12, <1>13, <1>14, <1>15, <1>16

LEMMA FinishReplayStep ==
  ASSUME SeriesAssumption, Typed, FinishReplay
  PROVE  /\ Running /\ run.agenda = <<>> /\ run.srcTodo = {} /\ run.dstTodo = {}
         /\ UNCHANGED <<src, dst, mapping, recorded, synced, due, srcNews, dstNews, skipped, left>>
         /\ \/ run' = run /\ replays' = FALSE
            \/ /\ ~run.full /\ src.master # "cancelled" /\ replays' = replays
               /\ run' \in Runs /\ Kept(run', run) /\ run'.agenda = <<Then("replay", Read(src))>>
               /\ Then("replay", Read(src)) \in Items
<1> DEFINE last == Then("replay", Read(src))
<1>1. /\ Running /\ run.agenda = <<>> /\ run.srcTodo = {} /\ run.dstTodo = {}
      /\ IF run.full \/ src.master = "cancelled"
         THEN Save(mapping, recorded, FALSE, run)
         ELSE Only(Ask(run, <<last>>))
  BY DEF FinishReplay, Ended, Free
<1>2. run \in Runs /\ src \in SourceSeries
  BY <1>1, RunTyped DEF Typed, TypeOK
<1>3. last \in Items
  BY <1>2, ReadTyped, ThenTyped
<1> HIDE DEF last
<1>4. <<last>> \in Seq(Items) /\ <<last>> \o run.agenda = <<last>>
  BY <1>1, <1>3, ConcatEmptySeq
<1>5. Ask(run, <<last>>) \in Runs /\ Kept(Ask(run, <<last>>), run) /\ Ask(run, <<last>>).agenda = <<last>>
  BY <1>2, <1>4, AskFields
<1>6. CASE run.full \/ src.master = "cancelled"
  BY <1>1, <1>6 DEF Save, cursors
<1>7. CASE ~(run.full \/ src.master = "cancelled")
  BY <1>1, <1>3, <1>5, <1>7 DEF Only, store, cursors, last
<1> QED BY <1>6, <1>7

LEMMA StartRunStep ==
  ASSUME SeriesAssumption, Typed, NEW full \in BOOLEAN, StartRun(full)
  PROVE  LET r == run' IN
         /\ ~Running /\ r \in Runs
         /\ r.full = full /\ r.calm /\ r.srcSaw = src /\ r.dstSaw = dst /\ r.srcSince = {}
         /\ r.srcTodo = (IF full THEN Listed(src.occ) ELSE srcNews)
         /\ r.dstTodo = (IF full THEN Listed(dst.occ) ELSE dstNews)
         /\ r.handled = {} /\ ~r.repaired /\ r.live = None /\ r.known = None /\ r.agenda = <<>>
         /\ due' \in BOOLEAN /\ skipped' = (IF full THEN {} ELSE skipped)
         /\ UNCHANGED <<src, dst, mapping, recorded, replays, synced, srcNews, dstNews, left>>
<1> DEFINE srcTodo == IF full THEN Listed(src.occ) ELSE srcNews
           dstTodo == IF full THEN Listed(dst.occ) ELSE dstNews
<1>1. /\ ~Running
      /\ run' = [full |-> full, srcTodo |-> srcTodo, srcSaw |-> src, dstTodo |-> dstTodo, dstSaw |-> dst,
                 handled |-> {}, repaired |-> FALSE, live |-> None, known |-> None,
                 agenda |-> <<>>, srcSince |-> {}, dstSince |-> {}, calm |-> TRUE]
      /\ due' = (due \/ full) /\ skipped' = (IF full THEN {} ELSE skipped)
      /\ UNCHANGED <<src, dst, mapping, recorded, replays, synced, srcNews, dstNews, left>>
  BY DEF StartRun, store
<1>2. srcTodo \in SUBSET Parts /\ dstTodo \in SUBSET Parts
  BY DEF Typed, TypeOK, Listed, Parts
<1>3. src \in SourceSeries /\ dst \in DestinationSeries /\ due \in BOOLEAN
  BY DEF Typed, TypeOK
<1> HIDE DEF srcTodo, dstTodo
<1>4. run' \in Runs
  <2>1. <<>> \in Seq(Items)
    OBVIOUS
  <2> QED BY <1>1, <1>2, <1>3, <2>1 DEF Runs
<1> QED BY <1>1, <1>3, <1>4 DEF srcTodo, dstTodo

\* People: what they change while a run is under way is noted in it.
Noted(r, parts) ==
  /\ r \in Runs
  /\ r.full = run.full /\ r.calm = run.calm /\ r.srcSaw = run.srcSaw /\ r.dstSaw = run.dstSaw
  /\ r.srcTodo = run.srcTodo /\ r.dstTodo = run.dstTodo /\ r.handled = run.handled
  /\ r.repaired = run.repaired /\ r.live = run.live /\ r.known = run.known /\ r.agenda = run.agenda
  /\ r.srcSince = run.srcSince \cup parts

SourceStep ==
  /\ src.master # "cancelled" /\ src' \in SourceSeries
  /\ left' \in Limits /\ src'.rev + left'.source <= src.rev + left.source /\ left'.dest = left.dest
  /\ UNCHANGED <<dst, mapping, recorded, replays, synced, due, dstNews, skipped>>
  /\ \E parts \in SUBSET Parts :
       /\ srcNews' = srcNews \cup parts
       /\ IF Running THEN Noted(run', parts) ELSE run' = None
       /\ \/ parts = {"series"} /\ src'.rev = src.rev + 1
          \/ \E start \in Starts :
               /\ parts = {start} /\ src'.rev = src.rev /\ src'.master = src.master
               /\ \A other \in Starts \ {start} : src'.occ[other] = src.occ[other]

LEMMA SourceStepTaken ==
  ASSUME SeriesAssumption, Typed,
         \/ \E m \in Masters : ChangeSeries(m)
         \/ CancelSeries
         \/ \E start \in Starts, how \in {"moved", "cancelled", src.master} : ChangeOccurrence(start, how)
  PROVE  SourceStep
<1>1. /\ src \in SourceSeries /\ left \in Limits /\ MaxSource \in Nat /\ src.rev \in Nat
      /\ src.rev + left.source <= MaxSource + 1 /\ left.source \in Nat
      /\ Running => run \in Runs
  BY RunTyped DEF Typed, TypeOK, Limits, Budget, SeriesAssumption, SourceSeries
<1>2. ASSUME Spend("source")
      PROVE  left' \in Limits /\ left'.source = left.source - 1 /\ left.source > 0 /\ left'.dest = left.dest
  BY <1>1, <1>2, SpendStep
<1>3. ASSUME NEW parts \in SUBSET Parts, SourceChanged(parts)
      PROVE  /\ UNCHANGED <<dst, mapping, recorded, replays, synced, due, dstNews, skipped>>
             /\ srcNews' = srcNews \cup parts
             /\ IF Running THEN Noted(run', parts) ELSE run' = None
  <2>1. /\ UNCHANGED <<dst, mapping, recorded, replays, synced, due, dstNews, skipped>>
        /\ srcNews' = srcNews \cup parts
        /\ run' = IF Running THEN [run EXCEPT !.srcSince = @ \cup parts] ELSE None
    BY <1>3 DEF SourceChanged, store, cursors
  <2>2. CASE Running
    BY <1>1, <2>1, <2>2 DEF Noted, Runs
  <2>3. CASE ~Running
    BY <2>1, <2>3
  <2> QED BY <2>1, <2>2, <2>3
<1>4. ASSUME NEW m \in Masters, ChangeSeries(m) PROVE SourceStep
  <2>1. /\ Spend("source") /\ src.master # "cancelled" /\ SourceChanged({"series"})
        /\ src' = [Reshaped(src, m) EXCEPT !.rev = @ + 1]
    BY <1>4 DEF ChangeSeries
  <2>2. left' \in Limits /\ left'.source = left.source - 1 /\ left.source > 0 /\ left'.dest = left.dest
    BY <1>2, <2>1
  <2>3. src.rev + 1 <= MaxSource + 1
    BY <1>1, <2>2
  <2>4. src' \in SourceSeries /\ src'.rev = src.rev + 1
    BY <1>1, <2>1, <2>3, ReshapedSource
  <2>5. {"series"} \in SUBSET Parts
    BY DEF Parts
  <2>6. /\ UNCHANGED <<dst, mapping, recorded, replays, synced, due, dstNews, skipped>>
        /\ srcNews' = srcNews \cup {"series"}
        /\ IF Running THEN Noted(run', {"series"}) ELSE run' = None
    BY <1>3, <2>1, <2>5
  <2>7. src'.rev + left'.source <= src.rev + left.source
    BY <1>1, <2>2, <2>4
  <2> QED BY <2>1, <2>2, <2>4, <2>5, <2>6, <2>7 DEF SourceStep
<1>5. ASSUME CancelSeries PROVE SourceStep
  <2>1. /\ Spend("source") /\ src.master # "cancelled" /\ SourceChanged({"series"})
        /\ src' = [src EXCEPT !.master = "cancelled", !.rev = @ + 1]
    BY <1>5 DEF CancelSeries
  <2>2. left' \in Limits /\ left'.source = left.source - 1 /\ left.source > 0 /\ left'.dest = left.dest
    BY <1>2, <2>1
  <2> DEFINE rev == src.rev + 1
  <2>3. rev \in 1..(MaxSource + 1)
    BY <1>1, <2>2
  <2>4. src' \in SourceSeries /\ src'.rev = rev
    <3>1. PICK a : a = [src EXCEPT !.master = "cancelled"]
      OBVIOUS
    <3>2. a \in SourceSeries /\ a.rev = src.rev
      BY <1>1, <3>1 DEF SourceSeries
    <3>3. src' = [a EXCEPT !.rev = rev]
      BY <2>1, <3>1, <3>2
    <3> HIDE DEF rev
    <3> QED BY <2>3, <3>2, <3>3 DEF SourceSeries
  <2>5. {"series"} \in SUBSET Parts
    BY DEF Parts
  <2>6. /\ UNCHANGED <<dst, mapping, recorded, replays, synced, due, dstNews, skipped>>
        /\ srcNews' = srcNews \cup {"series"}
        /\ IF Running THEN Noted(run', {"series"}) ELSE run' = None
    BY <1>3, <2>1, <2>5
  <2>7. src'.rev + left'.source <= src.rev + left.source
    BY <1>1, <2>2, <2>4
  <2> QED BY <2>1, <2>2, <2>4, <2>5, <2>6, <2>7 DEF SourceStep
<1>6. ASSUME NEW start \in Starts, NEW how \in {"moved", "cancelled", src.master}, ChangeOccurrence(start, how)
      PROVE  SourceStep
  <2>1. /\ Spend("source") /\ src.master # "cancelled" /\ SourceChanged({start})
        /\ src' = [src EXCEPT !.occ[start] = how]
    BY <1>6 DEF ChangeOccurrence
  <2>2. left' \in Limits /\ left'.source = left.source - 1 /\ left.source > 0 /\ left'.dest = left.dest
    BY <1>2, <2>1
  <2>3. how \in Masters \cup {"follows", "moved", "cancelled"}
    BY <1>1, <2>1 DEF SourceSeries
  <2>4. /\ src' \in SourceSeries /\ src'.rev = src.rev /\ src'.master = src.master
        /\ \A other \in Starts \ {start} : src'.occ[other] = src.occ[other]
    BY <1>1, <2>1, <2>3 DEF SourceSeries
  <2>5. {start} \in SUBSET Parts
    BY DEF Parts
  <2>6. /\ UNCHANGED <<dst, mapping, recorded, replays, synced, due, dstNews, skipped>>
        /\ srcNews' = srcNews \cup {start}
        /\ IF Running THEN Noted(run', {start}) ELSE run' = None
    BY <1>3, <2>1, <2>5
  <2>7. src'.rev + left'.source <= src.rev + left.source
    BY <1>1, <2>2, <2>4
  <2> QED BY <2>1, <2>2, <2>4, <2>5, <2>6, <2>7 DEF SourceStep
<1> QED BY <1>4, <1>5, <1>6

DestinationStep ==
  /\ dst.live /\ Linked /\ dst' \in DestinationSeries
  /\ left' \in Limits /\ left'.source = left.source /\ left.dest > 0 /\ left'.dest = left.dest - 1
  /\ dstNews' \subseteq Parts
  /\ UNCHANGED <<src, mapping, recorded, replays, synced, due, srcNews, skipped>>
  /\ IF Running
     THEN LET r == run' IN
          /\ r \in Runs /\ ~r.calm
          /\ r.full = run.full /\ r.srcSaw = run.srcSaw /\ r.dstSaw = run.dstSaw
          /\ r.srcTodo = run.srcTodo /\ r.dstTodo = run.dstTodo /\ r.handled = run.handled
          /\ r.repaired = run.repaired /\ r.live = run.live /\ r.known = run.known /\ r.agenda = run.agenda
          /\ r.srcSince = run.srcSince
     ELSE run' = None

LEMMA DestinationStepTaken ==
  ASSUME SeriesAssumption, Typed, EditDestination
  PROVE  DestinationStep
<1>1. /\ dst \in DestinationSeries /\ left \in Limits /\ dstNews \subseteq Parts
      /\ Running => run \in Runs
  BY RunTyped DEF Typed, TypeOK, Limits
<1>2. dst.live /\ Linked /\ Spend("dest")
  BY DEF EditDestination, Linked
<1>3. left' \in Limits /\ left'.source = left.source /\ left.dest > 0 /\ left'.dest = left.dest - 1
  BY <1>1, <1>2, SpendStep
<1>4. ASSUME NEW next \in DestinationSeries, NEW parts \in SUBSET Parts, DestinationChanged(next, parts)
      PROVE  DestinationStep
  <2> DEFINE changed == parts \cup (IF Surviving(next).live THEN {} ELSE {"series"})
  <2>1. changed \in SUBSET Parts
    BY DEF Parts
  <2>2. /\ dst' = Surviving(next) /\ dstNews' = dstNews \cup changed
        /\ UNCHANGED <<src, mapping, recorded, replays, synced, due, srcNews, skipped>>
        /\ run' = IF Running THEN [run EXCEPT !.dstSince = @ \cup changed, !.calm = FALSE] ELSE None
    BY <1>4 DEF DestinationChanged, store, cursors
  <2> HIDE DEF changed
  <2>3. dst' \in DestinationSeries
    BY <2>2, SurvivingFields
  <2>4. CASE Running
    <3>1. PICK a : a = [run EXCEPT !.dstSince = run.dstSince \cup changed]
      OBVIOUS
    <3>2. /\ a \in Runs
          /\ a.full = run.full /\ a.srcSaw = run.srcSaw /\ a.dstSaw = run.dstSaw
          /\ a.srcTodo = run.srcTodo /\ a.dstTodo = run.dstTodo /\ a.handled = run.handled
          /\ a.repaired = run.repaired /\ a.live = run.live /\ a.known = run.known /\ a.agenda = run.agenda
          /\ a.srcSince = run.srcSince
      BY <1>1, <2>1, <2>4, <3>1 DEF Runs
    <3>3. run' = [a EXCEPT !.calm = FALSE]
      BY <2>2, <2>4, <3>1
    <3>4. /\ run' \in Runs /\ run'.calm = FALSE
          /\ run'.full = run.full /\ run'.srcSaw = run.srcSaw /\ run'.dstSaw = run.dstSaw
          /\ run'.srcTodo = run.srcTodo /\ run'.dstTodo = run.dstTodo /\ run'.handled = run.handled
          /\ run'.repaired = run.repaired /\ run'.live = run.live /\ run'.known = run.known /\ run'.agenda = run.agenda
          /\ run'.srcSince = run.srcSince
      BY <3>2, <3>3 DEF Runs
    <3> QED BY <1>1, <1>2, <1>3, <2>1, <2>2, <2>3, <2>4, <3>4 DEF DestinationStep
  <2>5. CASE ~Running
    BY <1>1, <1>2, <1>3, <2>1, <2>2, <2>3, <2>5 DEF DestinationStep
  <2> QED BY <2>4, <2>5
<1>5. \/ \E m \in Masters \ {dst.master} : DestinationChanged(Reshaped(dst, m), {"series"})
      \/ DestinationChanged([dst EXCEPT !.live = FALSE], {"series"})
      \/ \E start \in Starts, how \in {"follows", "edited", "cancelled"} :
           DestinationChanged([dst EXCEPT !.occ[start] = how], {start})
  BY DEF EditDestination
<1>6. {"series"} \in SUBSET Parts /\ \A start \in Starts : {start} \in SUBSET Parts
  BY DEF Parts
<1>7. ASSUME NEW m \in Masters, DestinationChanged(Reshaped(dst, m), {"series"})
      PROVE  DestinationStep
  <2>1. Reshaped(dst, m) \in DestinationSeries
    BY <1>1, ReshapedDestination
  <2> QED BY <1>4, <1>6, <1>7, <2>1
<1>8. ASSUME DestinationChanged([dst EXCEPT !.live = FALSE], {"series"})
      PROVE  DestinationStep
  <2>1. [dst EXCEPT !.live = FALSE] \in DestinationSeries
    BY <1>1, EndedFields
  <2> QED BY <1>4, <1>6, <1>8, <2>1
<1>9. ASSUME NEW start \in Starts, NEW how \in {"follows", "edited", "cancelled"},
             DestinationChanged([dst EXCEPT !.occ[start] = how], {start})
      PROVE  DestinationStep
  <2>1. [dst EXCEPT !.occ[start] = how] \in DestinationSeries
    BY <1>1, WrittenFields DEF Contents
  <2> QED BY <1>4, <1>6, <1>9, <2>1
<1> QED BY <1>5, <1>7, <1>8, <1>9

-----------------------------------------------------------------------------
(***************************************************************************)
(* The type invariant is kept.  First where the type of what a step        *)
(* writes is seen best: with the items it asks for.                        *)
(***************************************************************************)
\* The order of the agenda, after a step that leaves no synchronisation on it.
LEMMA OrderedBehind ==
  ASSUME run' \in Runs, \A item \in ItemsOf(run'.agenda) : item.do # "sync"
  PROVE  AgendaOrdered'
<1>1. run'.agenda \in Seq(Items)
  BY DEF Runs
<1>2. CASE run'.agenda = <<>>
  BY <1>2 DEF AgendaOrdered
<1>3. CASE run'.agenda # <<>>
  <2>1. /\ Head(run'.agenda) \in ItemsOf(run'.agenda)
        /\ ItemsOf(Tail(run'.agenda)) \subseteq ItemsOf(run'.agenda)
    BY <1>1, <1>3, ItemsOfTail
  <2> QED BY <2>1 DEF AgendaOrdered, Item
<1> QED BY <1>2, <1>3

\* ... and after one that asks for a fresh synchronisation first.
LEMMA OrderedFirst ==
  ASSUME run' \in Runs, run'.agenda # <<>>, Head(run'.agenda).do = "sync", Head(run'.agenda).actual = "fresh",
         \A item \in ItemsOf(Tail(run'.agenda)) : item.do # "sync"
  PROVE  AgendaOrdered'
BY DEF AgendaOrdered, Item

LEMMA NoRunOrdered ==
  ASSUME run' = None
  PROVE  AgendaOrdered' /\ GoneStays'
BY DEF AgendaOrdered, GoneStays, Running

LEMMA BystandersTyped ==
  ASSUME Typed, Bystanders, dst' \in DestinationSeries, skipped' \in SUBSET Starts,
         mapping' \in SeriesMapping \cup {None},
         recorded' \in [Starts -> Contents \cup {"cancelled", None}],
         replays' \in BOOLEAN, run' \in Runs \cup {None}
  PROVE  TypeOK' /\ Budget'
<1>1. TypeOK'
  BY DEF Typed, TypeOK, Bystanders, Limits
<1>2. Budget'
  BY DEF Typed, Budget, Bystanders
<1> QED BY <1>1, <1>2

LEMMA StillTyped ==
  ASSUME Typed, Still, run' \in Runs \cup {None}
  PROVE  TypeOK' /\ Budget'
<1>1. TypeOK'
  BY DEF Typed, TypeOK, Still
<1>2. Budget'
  BY DEF Typed, Budget, Still
<1> QED BY <1>1, <1>2

LEMMA LostTyped ==
  ASSUME Typed, Lost
  PROVE  /\ mapping' \in SeriesMapping \cup {None} /\ run' \in Runs \cup {None}
         /\ recorded' \in [Starts -> Contents \cup {"cancelled", None}] /\ replays' \in BOOLEAN
         /\ AgendaOrdered' /\ GoneStays'
<1>1. /\ run' = None /\ recorded' = recorded /\ replays' = replays
      /\ mapping' = mapping \/ (mapping # None /\ mapping' = [mapping EXCEPT !.linked = FALSE])
  BY DEF Lost
<1>2. mapping' \in SeriesMapping \cup {None}
  BY <1>1 DEF Typed, TypeOK, SeriesMapping
<1> QED BY <1>1, <1>2, NoRunOrdered DEF Typed, TypeOK

\* The destination series only comes back to life where what was to be read of it is dropped.
LEMMA GoneStaysGone ==
  ASSUME GoneStays, Running, run' \in Runs, run'.dstSaw = run.dstSaw,
         run'.dstTodo \subseteq run.dstTodo, dst'.live => dst.live
  PROVE  GoneStays'
BY DEF GoneStays

LEMMA EndedGone ==
  ASSUME Typed, NEW d \in DestinationSeries, d.live => dst.live
  PROVE  Surviving(d).live => dst.live
BY SurvivingFields DEF Visible

\* Steps of a run that leave an agenda without a synchronisation.
LEMMA AskedTyped ==
  ASSUME Typed, Running, run' \in Runs, Alike(run', run), run'.dstTodo \subseteq run.dstTodo,
         dst'.live => dst.live, \A item \in ItemsOf(run'.agenda) : item.do # "sync"
  PROVE  AgendaOrdered' /\ GoneStays'
BY OrderedBehind, GoneStaysGone DEF Typed, Alike

LEMMA TypedHandling ==
  ASSUME SeriesAssumption, Typed,
         HandleSeries \/ RepairSeries \/ \E start \in Starts : HandleException(start) \/ RepairOccurrence(start)
  PROVE  Typed'
<1>1. CASE HandleSeries
  <2>1. /\ Still /\ Running /\ run' \in Runs /\ Alike(run', run) /\ run'.dstTodo = run.dstTodo
        /\ run'.agenda = <<Sync(Read(run.srcSaw), "fresh")>>
    BY <1>1, HandleSeriesStep
  <2>2. TypeOK' /\ Budget'
    BY <2>1, StillTyped
  <2>3. /\ run'.agenda # <<>> /\ Head(run'.agenda).do = "sync" /\ Head(run'.agenda).actual = "fresh"
        /\ ItemsOf(Tail(run'.agenda)) = {}
    BY <2>1, ItemsOfOne, ItemsOfNone DEF Sync
  <2>4. AgendaOrdered'
    BY <2>1, <2>3, OrderedFirst
  <2>5. GoneStays'
    BY <2>1, GoneStaysGone DEF Still, Alike, Typed
  <2> QED BY <2>2, <2>4, <2>5 DEF Typed
<1>2. ASSUME NEW start \in Starts, HandleException(start) PROVE Typed'
  <2> DEFINE sync == Sync(Read(src), "fresh")
  <2>1. /\ Still /\ Running /\ run' \in Runs /\ Alike(run', run) /\ run'.dstTodo = run.dstTodo
        /\ \/ run'.agenda = <<>>
           \/ run'.agenda = <<sync>> \o <<Wanted(start)>>
           \/ run'.agenda = <<Wanted(start)>>
        /\ Wanted(start) \in Items /\ sync \in Items
    BY <1>2, HandleExceptionStep
  <2>2. TypeOK' /\ Budget'
    BY <2>1, StillTyped
  <2>3. GoneStays'
    BY <2>1, GoneStaysGone DEF Still, Alike, Typed
  <2>4. sync.do = "sync" /\ sync.actual = "fresh" /\ Wanted(start).do = "decide"
    BY DEF Sync, Wanted, Decide
  <2> HIDE DEF sync
  <2>5. CASE run'.agenda = <<>>
    <3>1. AgendaOrdered'
      BY <2>1, <2>5, OrderedBehind, ItemsOfNone
    <3> QED BY <2>2, <2>3, <3>1 DEF Typed
  <2>6. CASE run'.agenda = <<Wanted(start)>>
    <3>1. ItemsOf(run'.agenda) = {Wanted(start)}
      BY <2>6, ItemsOfOne
    <3>2. AgendaOrdered'
      BY <2>1, <2>4, <3>1, OrderedBehind
    <3> QED BY <2>2, <2>3, <3>2 DEF Typed
  <2>7. CASE run'.agenda = <<sync>> \o <<Wanted(start)>>
    <3>1. <<Wanted(start)>> \in Seq(Items)
      BY <2>1
    <3>2. run'.agenda # <<>> /\ Head(run'.agenda) = sync /\ Tail(run'.agenda) = <<Wanted(start)>>
      BY <2>1, <2>7, <3>1, FirstOf
    <3>3. ItemsOf(<<Wanted(start)>>) = {Wanted(start)}
      BY ItemsOfOne
    <3>4. AgendaOrdered'
      BY <2>1, <2>4, <3>2, <3>3, OrderedFirst
    <3> QED BY <2>2, <2>3, <3>4 DEF Typed
  <2> QED BY <2>1, <2>5, <2>6, <2>7
<1>3. CASE RepairSeries
  <2>1. /\ Still /\ Running /\ "series" \in run.dstTodo
        /\ run' \in Runs /\ Alike(run', run) /\ run'.dstTodo = run.dstTodo \ {"series"}
        /\ \/ run'.agenda = <<>>
           \/ /\ mapping # None /\ run'.handled = run.handled \cup {"series"}
              /\ \E actual \in Masters \cup {None} :
                    /\ Sync(Read(src), actual) \in Items
                    /\ run'.agenda = <<Sync(Read(src), actual)>>
                    /\ IF mapping.linked /\ run.dstSaw.live THEN actual # None ELSE actual = None
    BY <1>3, RepairSeriesStep
  <2>2. TypeOK' /\ Budget'
    BY <2>1, StillTyped
  <2>3. GoneStays'
    BY <2>1, GoneStaysGone DEF Still, Alike, Typed
  <2>4. CASE run'.agenda = <<>>
    <3>1. AgendaOrdered'
      BY <2>1, <2>4, OrderedBehind, ItemsOfNone
    <3> QED BY <2>2, <2>3, <3>1 DEF Typed
  <2>5. CASE run'.agenda # <<>>
    <3>1. PICK actual \in Masters \cup {None} :
            /\ run'.agenda = <<Sync(Read(src), actual)>>
            /\ IF mapping.linked /\ run.dstSaw.live THEN actual # None ELSE actual = None
      BY <2>1, <2>5
    <3>2. /\ Head(run'.agenda) = Sync(Read(src), actual) /\ Tail(run'.agenda) = <<>>
          /\ ItemsOf(Tail(run'.agenda)) = {}
      BY <3>1, ItemsOfOne, ItemsOfNone
    <3>3. Sync(Read(src), actual).do = "sync" /\ Sync(Read(src), actual).actual = actual
      BY DEF Sync
    <3>4. dst.live => run.dstSaw.live
      BY <2>1 DEF Typed, GoneStays
    <3>5. IF actual = None THEN ~(mapping.linked /\ dst.live) ELSE mapping.linked
      BY <3>1, <3>4
    <3>6. mapping' = mapping /\ dst' = dst /\ mapping # None /\ "series" \in run'.handled
      BY <2>1, <2>5 DEF Still
    <3>7. AgendaOrdered'
      BY <3>2, <3>3, <3>5, <3>6 DEF AgendaOrdered, Item
    <3> QED BY <2>2, <2>3, <3>7 DEF Typed
  <2> QED BY <2>4, <2>5
<1>4. ASSUME NEW start \in Starts, RepairOccurrence(start) PROVE Typed'
  <2>1. /\ Still /\ Running /\ run' \in Runs /\ Alike(run', run) /\ run'.dstTodo = run.dstTodo \ {start}
        /\ run'.agenda = <<>> \/ run'.agenda = <<Repeated(start)>>
    BY <1>4, RepairOccurrenceStep
  <2>2. TypeOK' /\ Budget'
    BY <2>1, StillTyped
  <2>3. \A item \in ItemsOf(run'.agenda) : item.do # "sync"
    <3>1. ItemsOf(<<Repeated(start)>>) = {Repeated(start)} /\ ItemsOf(<<>>) = {}
      BY ItemsOfOne, ItemsOfNone
    <3>2. Repeated(start).do = "decide"
      BY DEF Repeated, Decide
    <3> QED BY <2>1, <3>1, <3>2
  <2>4. AgendaOrdered' /\ GoneStays'
    BY <2>1, <2>3, AskedTyped DEF Still
  <2> QED BY <2>2, <2>4 DEF Typed
<1> QED BY <1>1, <1>2, <1>3, <1>4

LEMMA TypedSyncing ==
  ASSUME SeriesAssumption, Typed,
         SyncRemove \/ SyncCreate \/ SyncDormant \/ SyncUpdate \/ SyncRefused \/ SyncCurrent
  PROVE  Typed'
<1>1. Doing("sync")
  BY DEF SyncRemove, SyncCreate, SyncDormant, SyncUpdate, SyncRefused, SyncCurrent
<1>2. /\ Running /\ run \in Runs /\ run # None /\ run.agenda # <<>> /\ Item.do = "sync"
      /\ Done \in Runs /\ Kept(Done, run) /\ Done.agenda = Tail(run.agenda)
      /\ Item \in Items /\ Item.series \in SeriesRead
      /\ \A item \in ItemsOf(Tail(run.agenda)) : item.do # "sync"
  BY <1>1, DoingStep
<1>3. /\ dst \in DestinationSeries /\ skipped \in SUBSET Starts /\ run.handled \in SUBSET Parts
      /\ mapping \in SeriesMapping \cup {None} /\ replays \in BOOLEAN
      /\ recorded \in [Starts -> Contents \cup {"cancelled", None}]
      /\ skipped \cup (run.handled \cap Starts) \in SUBSET Starts
  BY <1>2 DEF Typed, TypeOK, Runs
<1>4. ASSUME NEW what \in {"reverify", "complete", "replay", "replayed"} PROVE Then(what, Item.series).do # "sync"
  BY DEF Then
<1>5. CASE SyncRemove
  <2>1. CASE mapping = None /\ Still /\ run' = Done
    BY <1>2, <2>1, StillTyped, AskedTyped DEF Typed, Still, Kept
  <2>2. CASE ~(mapping = None /\ Still /\ run' = Done)
    <3> DEFINE ended == [dst EXCEPT !.live = dst.live /\ ~mapping.linked]
               live == dst.live /\ ~mapping.linked
               rec == [start \in Starts |-> None]
               r == [Done EXCEPT !.known = None]
    <3>1. /\ mapping # None /\ Bystanders /\ dst' = Surviving(ended) /\ skipped' = skipped
          /\ Alike(r, run) /\ r.dstTodo = run.dstTodo /\ r.agenda = Tail(run.agenda)
          /\ Committed(None, rec, FALSE, r) \/ Lost
      BY <1>5, <2>2, SyncRemoveStep
    <3>2. live \in BOOLEAN
      BY <1>3, <3>1 DEF DestinationSeries, SeriesMapping
    <3>3. ended = [dst EXCEPT !.live = live]
      OBVIOUS
    <3>4. ended \in DestinationSeries /\ (ended.live => dst.live)
      <4> HIDE DEF ended, live
      <4>1. ended \in DestinationSeries /\ ended.live = live
        BY <1>3, <3>2, <3>3, EndedFields
      <4> QED BY <4>1 DEF live
    <3> HIDE DEF ended, r
    <3>5. dst' \in DestinationSeries /\ (dst'.live => dst.live)
      BY <3>1, <3>4, SurvivingFields, EndedGone
    <3>6. CASE Committed(None, rec, FALSE, r)
      <4>1. /\ mapping' = None /\ recorded' = rec /\ replays' = FALSE
            /\ run' \in Runs /\ Alike(run', run) /\ run'.dstTodo = run.dstTodo
            /\ run'.agenda = Tail(run.agenda)
        BY <3>1, <3>6 DEF Committed, Kept, Alike
      <4>2. rec \in [Starts -> Contents \cup {"cancelled", None}]
        OBVIOUS
      <4>3. TypeOK' /\ Budget'
        BY <1>3, <3>1, <3>5, <4>1, <4>2, BystandersTyped
      <4>4. AgendaOrdered' /\ GoneStays'
        BY <1>2, <3>5, <4>1, AskedTyped
      <4> QED BY <4>3, <4>4 DEF Typed
    <3>7. CASE Lost
      BY <1>3, <3>1, <3>5, <3>7, LostTyped, BystandersTyped DEF Typed
    <3> QED BY <3>1, <3>6, <3>7
  <2> QED BY <2>1, <2>2
<1>6. CASE SyncCreate
  <2> DEFINE next == IF Found THEN dst ELSE Created(Item.series)
             r == run'
  <2>1. /\ Creating /\ Bystanders /\ dst' = Surviving(next) /\ Created(Item.series) \in DestinationSeries
        /\ skipped' = skipped \cup (run.handled \cap Starts)
        /\ \/ Lost
           \/ /\ mapping' = [linked |-> TRUE, rev |-> Item.series.rev, shown |-> Item.series.master]
              /\ recorded' = recorded /\ replays' = (replays \/ ~run.full)
              /\ r \in Runs /\ Alike(r, run)
              /\ r.dstTodo = (IF Found THEN run.dstTodo ELSE {})
              /\ ItemsOf(r.agenda) =
                   {Then("reverify", Item.series), Then("complete", Item.series)}
                     \cup (IF run.full THEN {} ELSE {Then("replay", Item.series)})
                     \cup ItemsOf(Tail(run.agenda))
    BY <1>6, SyncCreateStep
  <2>2. next \in DestinationSeries
    BY <1>3, <2>1
  <2> HIDE DEF next
  <2>3. dst' \in DestinationSeries
    BY <2>1, <2>2, SurvivingFields
  <2>4. CASE Lost
    BY <1>3, <2>1, <2>3, <2>4, LostTyped, BystandersTyped DEF Typed
  <2>5. CASE ~Lost
    <3>1. mapping' \in SeriesMapping
      <4>1. Item.series.master \in Masters /\ Item.series.rev \in 1..(MaxSource + 1)
        BY <1>2, <2>1 DEF SeriesRead, Creating
      <4>2. mapping' = [linked |-> TRUE, rev |-> Item.series.rev, shown |-> Item.series.master]
        BY <2>1, <2>5
      <4> QED BY <4>1, <4>2 DEF SeriesMapping
    <3>2. replays' \in BOOLEAN
      BY <1>3, <2>1, <2>5
    <3>3. TypeOK' /\ Budget'
      BY <1>3, <2>1, <2>3, <2>5, <3>1, <3>2, BystandersTyped
    <3>4. \A item \in ItemsOf(r.agenda) : item.do # "sync"
      BY <1>2, <1>4, <2>1, <2>5
    <3>5. AgendaOrdered'
      BY <2>1, <2>5, <3>4, OrderedBehind
    <3>6. GoneStays'
      <4>1. CASE Found
        <5>1. dst.live
          BY <4>1 DEF Found, Acknowledged
        <5> QED BY <1>2, <2>1, <2>5, <4>1, <5>1, GoneStaysGone DEF Typed, Alike
      <4>2. CASE ~Found
        BY <2>1, <2>5, <4>2 DEF GoneStays
      <4> QED BY <4>1, <4>2
    <3> QED BY <3>3, <3>5, <3>6 DEF Typed
  <2> QED BY <2>4, <2>5
<1>7. CASE SyncDormant
  <2> DEFINE ended == [dst EXCEPT !.live = FALSE]
             r == [Done EXCEPT !.live = FALSE]
  <2>1. /\ r \in Runs /\ Alike(r, run) /\ r.dstTodo = run.dstTodo /\ r.agenda = Tail(run.agenda)
        /\ \/ Still /\ run' = r
           \/ /\ mapping = None /\ Bystanders /\ dst' = Surviving(ended)
              /\ skipped' = skipped \cup (run.handled \cap Starts)
              /\ Committed(None, recorded, replays, r) \/ Lost
    BY <1>7, SyncDormantStep
  <2>2. ended \in DestinationSeries /\ ~ended.live
    BY <1>3, EndedFields
  <2> HIDE DEF r, ended
  <2>3. CASE Still /\ run' = r
    BY <1>2, <2>1, <2>3, StillTyped, AskedTyped DEF Typed, Still
  <2>4. CASE ~(Still /\ run' = r)
    <3>1. dst' \in DestinationSeries /\ (dst'.live => dst.live)
      BY <2>1, <2>2, <2>4, SurvivingFields, EndedGone
    <3>2. CASE Committed(None, recorded, replays, r)
      <4>1. /\ mapping' = None /\ recorded' = recorded /\ replays' = replays
            /\ run' \in Runs /\ Alike(run', run) /\ run'.dstTodo = run.dstTodo
            /\ run'.agenda = Tail(run.agenda)
        BY <2>1, <3>2 DEF Committed, Kept, Alike
      <4>2. TypeOK' /\ Budget'
        BY <1>3, <2>1, <2>4, <3>1, <4>1, BystandersTyped
      <4>3. AgendaOrdered' /\ GoneStays'
        BY <1>2, <3>1, <4>1, AskedTyped
      <4> QED BY <4>2, <4>3 DEF Typed
    <3>3. CASE Lost
      BY <1>3, <2>1, <2>4, <3>1, <3>3, LostTyped, BystandersTyped DEF Typed
    <3> QED BY <2>1, <2>4, <3>2, <3>3
  <2> QED BY <2>3, <2>4
<1>8. CASE SyncUpdate
  <2> DEFINE next == Reshaped(dst, Item.series.master)
             m == [mapping EXCEPT !.rev = Revision(Item.series), !.shown = Item.series.master]
             r == run'
  <2>1. /\ Item.series.master \in Masters /\ m \in SeriesMapping /\ dst.live
        /\ Bystanders /\ dst' = Surviving(next) /\ skipped' = skipped
        /\ \/ Lost
           \/ /\ mapping' = m /\ recorded' = recorded /\ replays' = replays
              /\ r \in Runs /\ Alike(r, run) /\ r.dstTodo = run.dstTodo
              /\ ItemsOf(r.agenda) =
                   {Then("reverify", Item.series), Then("complete", Item.series)}
                     \cup ItemsOf(Tail(run.agenda))
    BY <1>8, SyncUpdateStep
  <2>2. next \in DestinationSeries
    BY <1>3, <2>1, ReshapedDestination
  <2> HIDE DEF next, m
  <2>3. dst' \in DestinationSeries
    BY <2>1, <2>2, SurvivingFields
  <2>4. CASE Lost
    BY <1>3, <2>1, <2>3, <2>4, LostTyped, BystandersTyped DEF Typed
  <2>5. CASE ~Lost
    <3>1. TypeOK' /\ Budget'
      BY <1>3, <2>1, <2>3, <2>5, BystandersTyped
    <3>2. \A item \in ItemsOf(r.agenda) : item.do # "sync"
      BY <1>2, <1>4, <2>1, <2>5
    <3>3. AgendaOrdered' /\ GoneStays'
      BY <1>2, <2>1, <2>5, <3>2, AskedTyped
    <3> QED BY <3>1, <3>3 DEF Typed
  <2> QED BY <2>4, <2>5
<1>9. CASE SyncRefused
  <2>1. Still /\ run' = None
    BY <1>9 DEF SyncRefused, Only, Still, store, cursors
  <2> QED BY <2>1, StillTyped, NoRunOrdered DEF Typed
<1>10. CASE SyncCurrent
  <2> DEFINE m == [mapping EXCEPT !.rev = Revision(Item.series), !.shown = Item.series.master]
             r == run'
  <2>1. \/ Still /\ run' = Done
        \/ /\ m \in SeriesMapping /\ mapping' = m
           /\ UNCHANGED <<src, dst, recorded, replays, synced, due, srcNews, dstNews, skipped, left>>
           /\ r \in Runs /\ Kept(r, run)
           /\ ItemsOf(r.agenda) =
                {Then("reverify", Item.series), Then("complete", Item.series)}
                  \cup ItemsOf(Tail(run.agenda))
    BY <1>10, SyncCurrentStep
  <2> HIDE DEF m
  <2>2. CASE Still /\ run' = Done
    BY <1>2, <2>2, StillTyped, AskedTyped DEF Typed, Still, Kept
  <2>3. CASE ~(Still /\ run' = Done)
    <3>1. Bystanders
      BY <2>1, <2>3 DEF Bystanders, Typed, TypeOK, Limits
    <3>2. TypeOK' /\ Budget'
      BY <1>3, <2>1, <2>3, <3>1, BystandersTyped
    <3>3. \A item \in ItemsOf(r.agenda) : item.do # "sync"
      BY <1>2, <1>4, <2>1, <2>3
    <3>4. AgendaOrdered' /\ GoneStays'
      BY <1>2, <2>1, <2>3, <3>3, AskedTyped DEF Kept
    <3> QED BY <3>2, <3>4 DEF Typed
  <2> QED BY <2>2, <2>3
<1> QED BY <1>5, <1>6, <1>7, <1>8, <1>9, <1>10

LEMMA TypedFollowing ==
  ASSUME SeriesAssumption, Typed, ReverifyRecorded \/ CompleteRevision \/ ReplayExceptions \/ ReplayDone
  PROVE  Typed'
<1>1. \E what \in {"reverify", "complete", "replay", "replayed"} : Doing(what)
  BY DEF ReverifyRecorded, CompleteRevision, ReplayExceptions, ReplayDone
<1>2. /\ Running /\ run \in Runs /\ run # None
      /\ Done \in Runs /\ Kept(Done, run) /\ Done.agenda = Tail(run.agenda)
      /\ Item \in Items /\ Item.series \in SeriesRead
      /\ \A item \in ItemsOf(Tail(run.agenda)) : item.do # "sync"
  BY <1>1, DoingStep
<1>3. /\ dst \in DestinationSeries /\ skipped \in SUBSET Starts /\ left \in Limits /\ dstNews \subseteq Parts
      /\ mapping \in SeriesMapping \cup {None} /\ replays \in BOOLEAN
      /\ recorded \in [Starts -> Contents \cup {"cancelled", None}]
  BY DEF Typed, TypeOK, Limits
<1>4. CASE ReverifyRecorded
  <2>1. /\ Still /\ run' \in Runs /\ Kept(run', run)
        /\ \/ run'.agenda = Tail(run.agenda)
           \/ \E item \in Items :
                item.do = "decide" /\ ItemsOf(run'.agenda) = {item} \cup ItemsOf(Tail(run.agenda))
    BY <1>4, ReverifyRecordedStep
  <2>2. \A item \in ItemsOf(run'.agenda) : item.do # "sync"
    BY <1>2, <2>1
  <2>3. TypeOK' /\ Budget'
    BY <2>1, StillTyped
  <2>4. AgendaOrdered' /\ GoneStays'
    BY <1>2, <2>1, <2>2, AskedTyped DEF Kept, Still
  <2> QED BY <2>3, <2>4 DEF Typed
<1>5. CASE CompleteRevision
  <2>1. /\ run' = Done
        /\ UNCHANGED <<src, dst, recorded, replays, synced, due, srcNews, dstNews, skipped, left>>
        /\ mapping' \in SeriesMapping \cup {None}
    BY <1>5, CompleteRevisionStep
  <2>2. Bystanders
    BY <1>3, <2>1 DEF Bystanders
  <2>3. TypeOK' /\ Budget'
    BY <1>2, <1>3, <2>1, <2>2, BystandersTyped
  <2>4. AgendaOrdered' /\ GoneStays'
    BY <1>2, <2>1, AskedTyped DEF Kept
  <2> QED BY <2>3, <2>4 DEF Typed
<1>6. CASE ReplayExceptions
  <2>1. /\ Still /\ run' \in Runs /\ Kept(run', run)
        /\ \/ ItemsOf(run'.agenda) = {Then("replayed", Item.series)} \cup ItemsOf(Tail(run.agenda))
           \/ \E item \in Items :
                /\ item.do = "decide"
                /\ ItemsOf(run'.agenda) = {item, Then("replayed", Item.series)} \cup ItemsOf(Tail(run.agenda))
    BY <1>6, ReplayExceptionsStep
  <2>2. Then("replayed", Item.series).do # "sync"
    BY DEF Then
  <2>3. \A item \in ItemsOf(run'.agenda) : item.do # "sync"
    BY <1>2, <2>1, <2>2
  <2>4. TypeOK' /\ Budget'
    BY <2>1, StillTyped
  <2>5. AgendaOrdered' /\ GoneStays'
    BY <1>2, <2>1, <2>3, AskedTyped DEF Kept, Still
  <2> QED BY <2>4, <2>5 DEF Typed
<1>7. CASE ReplayDone
  <2>1. /\ run' = Done /\ replays' = FALSE
        /\ UNCHANGED <<src, dst, mapping, recorded, synced, due, srcNews, dstNews, skipped, left>>
    BY <1>7, ReplayDoneStep
  <2>2. Bystanders
    BY <1>3, <2>1 DEF Bystanders
  <2>3. TypeOK' /\ Budget'
    BY <1>2, <1>3, <2>1, <2>2, BystandersTyped
  <2>4. AgendaOrdered' /\ GoneStays'
    BY <1>2, <2>1, AskedTyped DEF Kept
  <2> QED BY <2>3, <2>4 DEF Typed
<1> QED BY <1>4, <1>5, <1>6, <1>7

\* What is recorded of an occurrence is what may be shown there.
LEMMA OutcomesTyped ==
  ASSUME SeriesAssumption, Typed, Doing("decide"), NEW start \in DOMAIN Item.wants, Outcomes(start)
  PROVE  /\ dst' \in DestinationSeries /\ (dst'.live => dst.live) /\ mapping' = mapping
         /\ recorded' \in [Starts -> Contents \cup {"cancelled", None}]
<1>1. /\ dst \in DestinationSeries /\ recorded \in [Starts -> Contents \cup {"cancelled", None}]
  BY DEF Typed, TypeOK
<1>2. start \in Starts /\ Item.wants[start] \in Views
  BY RestFields
<1>3. Views = Contents \cup {"absent", "cancelled"}
  BY DEF Views, Hidden
<1>4. ASSUME NEW value \in Contents \cup {"cancelled", None}
      PROVE  [recorded EXCEPT ![start] = value] \in [Starts -> Contents \cup {"cancelled", None}]
  BY <1>1, <1>2
<1>5. Retired(start) \in {"cancelled", None}
  BY DEF Retired
<1>6. ASSUME NEW how \in Contents \cup {"cancelled"}
      PROVE  /\ Surviving([dst EXCEPT !.occ[start] = how]) \in DestinationSeries
             /\ Surviving([dst EXCEPT !.occ[start] = how]).live => dst.live
  <2> DEFINE next == [dst EXCEPT !.occ[start] = how]
  <2>1. next \in DestinationSeries /\ next.live = dst.live
    BY <1>1, <1>2, WrittenFields
  <2> HIDE DEF next
  <2>2. Surviving(next) \in DestinationSeries /\ (Surviving(next).live => dst.live)
    BY <2>1, SurvivingFields, EndedGone
  <2> QED BY <2>2 DEF next
<1>7. CASE Outcome(start) \in {"ignore", "missing"}
  BY <1>1, <1>7 DEF Outcomes
<1>8. CASE Outcome(start) = "retire"
  <2>1. dst' = dst /\ mapping' = mapping /\ recorded' = [recorded EXCEPT ![start] = Retired(start)]
    BY <1>8 DEF Outcomes
  <2> QED BY <1>1, <1>4, <1>5, <2>1
<1>9. CASE Outcome(start) = "unchanged"
  <2>1. /\ dst' = dst /\ mapping' = mapping
        /\ recorded' \in {[recorded EXCEPT ![start] = Item.wants[start]], recorded}
    BY <1>9 DEF Outcomes
  <2>2. Item.wants[start] # "absent"
    BY <1>9, OutcomeWas DEF Hidden
  <2> QED BY <1>1, <1>2, <1>3, <1>4, <2>1, <2>2
<1>10. CASE Outcome(start) = "update"
  <2>1. /\ dst' = Surviving([dst EXCEPT !.occ[start] = Item.wants[start]]) /\ mapping' = mapping
        /\ recorded' = [recorded EXCEPT ![start] = Item.wants[start]]
    BY <1>10 DEF Outcomes, WriteOccurrence
  <2>2. Item.wants[start] \in Contents
    BY <1>2, <1>3, <1>10, OutcomeWas
  <2> QED BY <1>4, <1>6, <2>1, <2>2
<1>11. CASE Outcome(start) = "cancel"
  <2>1. /\ dst' = Surviving([dst EXCEPT !.occ[start] = "cancelled"]) /\ mapping' = mapping
        /\ recorded' = [recorded EXCEPT ![start] = Retired(start)]
    BY <1>11 DEF Outcomes, CancelOccurrence
  <2> QED BY <1>4, <1>5, <1>6, <2>1
<1> QED BY <1>7, <1>8, <1>9, <1>10, <1>11 DEF Outcomes

LEMMA TypedDeciding ==
  ASSUME SeriesAssumption, Typed,
         NEW start \in Starts, RepairMissing(start) \/ OccurrenceRefused(start) \/ ApplyOccurrence(start)
  PROVE  Typed'
<1>1. Doing("decide") /\ start \in DOMAIN Item.wants
  BY DEF RepairMissing, OccurrenceRefused, ApplyOccurrence
<1>2. /\ Running /\ run \in Runs /\ run # None
      /\ \A item \in ItemsOf(Tail(run.agenda)) : item.do # "sync"
  BY <1>1, DoingStep
<1>3. Rest(start).do = "decide"
  BY <1>1, RestFields
<1>4. \A item \in RestItems(start) : item.do # "sync"
  BY <1>2, <1>3 DEF RestItems
<1>5. /\ dst \in DestinationSeries /\ skipped \in SUBSET Starts /\ replays \in BOOLEAN
      /\ mapping \in SeriesMapping \cup {None}
      /\ recorded \in [Starts -> Contents \cup {"cancelled", None}]
  BY DEF Typed, TypeOK
<1>6. CASE RepairMissing(start)
  <2> DEFINE r == run'
  <2>1. /\ Still /\ r \in Runs /\ Alike(r, run) /\ r.dstTodo = run.dstTodo
        /\ \/ ItemsOf(r.agenda) = {Again(start)} \cup RestItems(start)
           \/ /\ r.agenda # <<>> /\ Head(r.agenda) = Sync(Item.series, "fresh")
              /\ ItemsOf(Tail(r.agenda)) = {Again(start)} \cup RestItems(start)
    BY <1>6, RepairMissingStep
  <2>2. TypeOK' /\ Budget'
    BY <2>1, StillTyped
  <2>3. GoneStays'
    BY <1>2, <2>1, GoneStaysGone DEF Still, Alike, Typed
  <2>4. Again(start).do = "decide" /\ Sync(Item.series, "fresh").do = "sync" /\ Sync(Item.series, "fresh").actual = "fresh"
    BY DEF Again, Decide, Sync
  <2>5. AgendaOrdered'
    BY <1>4, <2>1, <2>4, OrderedBehind, OrderedFirst
  <2> QED BY <2>2, <2>3, <2>5 DEF Typed
<1>7. CASE OccurrenceRefused(start)
  <2>1. Still /\ run' = None
    BY <1>7 DEF OccurrenceRefused, Only, Still, store, cursors
  <2> QED BY <2>1, StillTyped, NoRunOrdered DEF Typed
<1>8. CASE ApplyOccurrence(start)
  <2> DEFINE r == run'
  <2>1. /\ Bystanders /\ skipped' = skipped
        /\ \/ /\ Outcomes(start) /\ replays' = replays
              /\ r \in Runs /\ Alike(r, run) /\ r.dstTodo = run.dstTodo
              /\ ItemsOf(r.agenda) = RestItems(start)
           \/ /\ Lost
              /\ \/ Outcome(start) = "update" /\ dst' = Surviving(WriteOccurrence(start, Item.wants[start]))
                 \/ Outcome(start) = "cancel" /\ dst' = Surviving(CancelOccurrence(start))
    BY <1>8, ApplyOccurrenceStep
  <2>2. CASE Outcomes(start) /\ ~Lost
    <3>1. /\ dst' \in DestinationSeries /\ (dst'.live => dst.live) /\ mapping' = mapping
          /\ recorded' \in [Starts -> Contents \cup {"cancelled", None}]
      BY <1>1, <2>2, OutcomesTyped
    <3>2. TypeOK' /\ Budget'
      BY <1>5, <2>1, <2>2, <3>1, BystandersTyped
    <3>3. AgendaOrdered' /\ GoneStays'
      BY <1>2, <1>4, <2>1, <2>2, <3>1, AskedTyped
    <3> QED BY <3>2, <3>3 DEF Typed
  <2>3. CASE Lost
    <3>1. dst' \in DestinationSeries
      <4>1. Item.wants[start] \in Views
        BY <1>1, RestFields
      <4>2. ASSUME NEW how \in Contents \cup {"cancelled"}
            PROVE  Surviving([dst EXCEPT !.occ[start] = how]) \in DestinationSeries
        <5>1. [dst EXCEPT !.occ[start] = how] \in DestinationSeries
          BY <1>5, WrittenFields
        <5> QED BY <5>1, SurvivingFields
      <4>3. Outcome(start) = "update" => Item.wants[start] \in Contents
        BY <4>1, OutcomeWas DEF Views, Hidden
      <4>4. r \notin Runs
        BY <2>3, NoneAssumption DEF Lost
      <4>5. \/ /\ Outcome(start) = "update"
               /\ dst' = Surviving([dst EXCEPT !.occ[start] = Item.wants[start]])
            \/ dst' = Surviving([dst EXCEPT !.occ[start] = "cancelled"])
        BY <2>1, <4>4 DEF WriteOccurrence, CancelOccurrence
      <4> QED BY <4>2, <4>3, <4>5
    <3> QED BY <1>5, <2>1, <2>3, <3>1, LostTyped, BystandersTyped DEF Typed
  <2> QED BY <2>1, <2>2, <2>3
<1> QED BY <1>6, <1>7, <1>8

LEMMA TypedEnding ==
  ASSUME SeriesAssumption, Typed,
         FinishReplay \/ AdvanceCursors \/ FailRun \/ \E full \in BOOLEAN : StartRun(full)
  PROVE  Typed'
<1>1. CASE FinishReplay
  <2>1. /\ Running /\ UNCHANGED <<src, dst, mapping, recorded, synced, due, srcNews, dstNews, skipped, left>>
        /\ \/ run' = run /\ replays' = FALSE
           \/ /\ replays' = replays
              /\ run' \in Runs /\ Kept(run', run) /\ run'.agenda = <<Then("replay", Read(src))>>
        /\ run.agenda = <<>>
    BY <1>1, FinishReplayStep
  <2>2. run \in Runs
    BY <2>1, RunTyped DEF Typed
  <2>3. TypeOK'
    BY <2>1, <2>2 DEF Typed, TypeOK
  <2>4. Budget'
    BY <2>1 DEF Typed, Budget
  <2>5. \A item \in ItemsOf(run'.agenda) : item.do # "sync"
    <3>1. ItemsOf(<<Then("replay", Read(src))>>) = {Then("replay", Read(src))} /\ ItemsOf(<<>>) = {}
      BY ItemsOfOne, ItemsOfNone
    <3>2. Then("replay", Read(src)).do = "replay"
      BY DEF Then
    <3> QED BY <2>1, <3>1, <3>2
  <2>6. run' \in Runs /\ Alike(run', run) /\ run'.dstTodo = run.dstTodo
    BY <2>1, <2>2 DEF Kept, Alike
  <2>7. AgendaOrdered' /\ GoneStays'
    BY <2>1, <2>5, <2>6, AskedTyped
  <2> QED BY <2>3, <2>4, <2>7 DEF Typed
<1>2. CASE AdvanceCursors
  <2>1. /\ Running /\ run' = None /\ synced' = TRUE /\ due' = (due /\ ~run.full)
        /\ srcNews' = run.srcSince /\ dstNews' = run.dstSince
        /\ UNCHANGED <<src, dst, mapping, recorded, replays, skipped, left>>
    BY <1>2 DEF AdvanceCursors, Ended, Free, store
  <2>2. run \in Runs
    BY <2>1, RunTyped DEF Typed
  <2>3. srcNews' \subseteq Parts /\ dstNews' \subseteq Parts /\ due' \in BOOLEAN
    BY <2>1, <2>2 DEF Runs, Typed, TypeOK
  <2>4. TypeOK'
    BY <2>1, <2>3 DEF Typed, TypeOK
  <2>5. Budget'
    BY <2>1 DEF Typed, Budget
  <2> QED BY <2>1, <2>4, <2>5, NoRunOrdered DEF Typed
<1>3. CASE FailRun
  <2>1. /\ run' = None /\ Spend("faults")
        /\ UNCHANGED <<src, dst, mapping, recorded, replays, synced, due, srcNews, dstNews, skipped>>
    BY <1>3 DEF FailRun, store, cursors
  <2>2. left' \in Limits /\ left'.source = left.source
    BY <2>1, SpendStep DEF Typed, TypeOK, Limits
  <2>3. TypeOK'
    BY <2>1, <2>2 DEF Typed, TypeOK, Limits
  <2>4. Budget'
    BY <2>1, <2>2 DEF Typed, Budget
  <2> QED BY <2>1, <2>3, <2>4, NoRunOrdered DEF Typed
<1>4. ASSUME NEW full \in BOOLEAN, StartRun(full) PROVE Typed'
  <2>1. /\ run' \in Runs /\ run'.dstSaw = dst /\ run'.agenda = <<>>
        /\ due' \in BOOLEAN /\ skipped' = (IF full THEN {} ELSE skipped)
        /\ UNCHANGED <<src, dst, mapping, recorded, replays, synced, srcNews, dstNews, left>>
    BY <1>4, StartRunStep
  <2>2. TypeOK'
    BY <2>1 DEF Typed, TypeOK
  <2>3. Budget'
    BY <2>1 DEF Typed, Budget
  <2>4. AgendaOrdered'
    BY <2>1 DEF AgendaOrdered
  <2>5. GoneStays'
    BY <2>1 DEF GoneStays
  <2> QED BY <2>2, <2>3, <2>4, <2>5 DEF Typed
<1> QED BY <1>1, <1>2, <1>3, <1>4

LEMMA TypedPeople ==
  ASSUME SeriesAssumption, Typed, SourceStep \/ DestinationStep
  PROVE  Typed'
<1>1. CASE SourceStep
  <2>1. /\ src' \in SourceSeries
        /\ left' \in Limits /\ src'.rev + left'.source <= src.rev + left.source
        /\ UNCHANGED <<dst, mapping, recorded, replays, synced, due, dstNews, skipped>>
    BY <1>1 DEF SourceStep
  <2>2. PICK parts \in SUBSET Parts :
          srcNews' = srcNews \cup parts /\ IF Running THEN Noted(run', parts) ELSE run' = None
    BY <1>1 DEF SourceStep
  <2>3. TypeOK'
    BY <2>1, <2>2 DEF Typed, TypeOK, Limits, Noted
  <2>4. Budget'
    <3>1. /\ src.rev \in Nat /\ left.source \in Nat /\ src'.rev \in Nat /\ left'.source \in Nat /\ MaxSource \in Nat
      BY <2>1 DEF Typed, TypeOK, SourceSeries, Limits, SeriesAssumption
    <3> QED BY <2>1, <3>1 DEF Typed, Budget
  <2>5. CASE Running
    <3>1. /\ run'.agenda = run.agenda /\ run'.handled = run.handled
          /\ run'.dstTodo = run.dstTodo /\ run'.dstSaw = run.dstSaw
      BY <2>2, <2>5 DEF Noted
    <3>2. AgendaOrdered' /\ GoneStays'
      BY <2>1, <2>5, <3>1 DEF Typed, AgendaOrdered, GoneStays, Item
    <3> QED BY <2>3, <2>4, <3>2 DEF Typed
  <2>6. CASE ~Running
    BY <2>2, <2>3, <2>4, <2>6, NoRunOrdered DEF Typed
  <2> QED BY <2>5, <2>6
<1>2. CASE DestinationStep
  <2>1. /\ dst.live /\ Linked /\ dst' \in DestinationSeries
        /\ left' \in Limits /\ left'.source = left.source /\ dstNews' \subseteq Parts
        /\ UNCHANGED <<src, mapping, recorded, replays, synced, due, srcNews, skipped>>
        /\ IF Running
           THEN LET r == run' IN
                /\ r \in Runs /\ r.dstSaw = run.dstSaw /\ r.dstTodo = run.dstTodo
                /\ r.handled = run.handled /\ r.agenda = run.agenda
           ELSE run' = None
    BY <1>2 DEF DestinationStep
  <2>2. TypeOK'
    BY <2>1 DEF Typed, TypeOK, Limits
  <2>3. Budget'
    BY <2>1 DEF Typed, Budget
  <2>4. CASE Running
    <3>1. AgendaOrdered'
      BY <2>1, <2>4 DEF Typed, AgendaOrdered, Item, Linked
    <3>2. GoneStays'
      BY <2>1, <2>4 DEF Typed, GoneStays
    <3> QED BY <2>2, <2>3, <3>1, <3>2 DEF Typed
  <2>5. CASE ~Running
    BY <2>1, <2>2, <2>3, <2>5, NoRunOrdered DEF Typed
  <2> QED BY <2>4, <2>5
<1> QED BY <1>1, <1>2

\* The steps, one group after the other.
LEMMA Steps ==
  ASSUME SeriesAssumption, Typed, Next
  PROVE  \/ SourceStep \/ DestinationStep
         \/ HandleSeries \/ RepairSeries \/ \E start \in Starts : HandleException(start) \/ RepairOccurrence(start)
         \/ SyncRemove \/ SyncCreate \/ SyncDormant \/ SyncUpdate \/ SyncRefused \/ SyncCurrent
         \/ ReverifyRecorded \/ CompleteRevision \/ ReplayExceptions \/ ReplayDone
         \/ \E start \in Starts : RepairMissing(start) \/ OccurrenceRefused(start) \/ ApplyOccurrence(start)
         \/ FinishReplay \/ AdvanceCursors \/ FailRun \/ \E full \in BOOLEAN : StartRun(full)
<1>1. CASE People
  BY <1>1, SourceStepTaken, DestinationStepTaken DEF People
<1>2. CASE RunStep
  BY <1>2 DEF RunStep
<1>3. CASE FailRun \/ \E full \in BOOLEAN : StartRun(full)
  BY <1>3
<1> QED BY <1>1, <1>2, <1>3 DEF Next

LEMMA TypedNext ==
  ASSUME SeriesAssumption, Typed, [Next]_vars
  PROVE  Typed'
<1>1. CASE Next
  BY <1>1, Steps, TypedPeople, TypedHandling, TypedSyncing, TypedFollowing, TypedDeciding, TypedEnding
<1>2. CASE UNCHANGED vars
  <2>1. UNCHANGED <<src, dst, mapping, recorded, replays, synced, due, srcNews, dstNews, run, skipped, left>>
    BY <1>2 DEF vars, store, cursors
  <2>2. TypeOK'
    BY <2>1 DEF Typed, TypeOK
  <2>3. Budget' /\ AgendaOrdered' /\ GoneStays'
    BY <2>1 DEF Typed, Budget, AgendaOrdered, GoneStays, Running, Item
  <2> QED BY <2>2, <2>3 DEF Typed
<1> QED BY <1>1, <1>2

(***************************************************************************)
(* Whatever people change and whenever runs fail, the state stays well     *)
(* typed: a run never writes a mapping it does not have.                   *)
(***************************************************************************)
THEOREM SeriesTyped == Spec => []TypeOK
<1>1. Init => Typed
  BY InitTyped, SeriesAssumption
<1>2. Typed /\ [Next]_vars => Typed'
  BY TypedNext, SeriesAssumption
<1>3. Typed => TypeOK
  BY DEF Typed
<1> QED BY <1>1, <1>2, <1>3, PTL DEF Spec

-----------------------------------------------------------------------------
(***************************************************************************)
(* What a run read.  Of what did not change since it read its feed, the    *)
(* run and every item of its agenda say what the source still shows; of    *)
(* what changed, they say what it showed at some moment before.            *)
(***************************************************************************)
ReadEarlier ==
  LET Earlier(series) ==
        series.rev <= src.rev /\ (series.rev = src.rev => series.master = src.master)
  IN Running => Earlier(run.srcSaw) /\ \A item \in Asked : Earlier(item.series)

ReadStill ==
  Running =>
    /\ "series" \notin run.srcSince =>
         Read(run.srcSaw) = Read(src) /\ \A item \in Asked : item.series = Read(src)
    /\ \A start \in Starts : {start, "series"} \cap run.srcSince = {} =>
         /\ run.srcSaw.occ[start] = src.occ[start]
         /\ \A item \in Decisions :
              start \in DOMAIN item.wants => item.wants[start] = SourceView(src, start)

\* A step of the run asks only for what was read, or asked for before.
Drawn ==
  /\ src' = src /\ run'.srcSaw = run.srcSaw /\ run'.srcSince = run.srcSince
  /\ \A item \in ItemsOf(run'.agenda) :
       /\ item.series \in {Read(run.srcSaw), Read(src)} \cup {old.series : old \in Asked}
       /\ item.do = "decide" =>
            \A start \in DOMAIN item.wants :
              \/ item.wants[start] \in {SourceView(run.srcSaw, start), SourceView(src, start)}
              \/ \E old \in Decisions : start \in DOMAIN old.wants /\ item.wants[start] = old.wants[start]

LEMMA StillViewed ==
  ASSUME NEW s, NEW t, NEW start, s.master = t.master, s.occ[start] = t.occ[start]
  PROVE  SourceView(s, start) = SourceView(t, start)
BY DEF SourceView

LEMMA DrawnReads ==
  ASSUME Typed, Running, run' \in Runs, Drawn, ReadEarlier, ReadStill
  PROVE  ReadEarlier' /\ ReadStill'
<1>1. /\ run'.srcSaw = run.srcSaw /\ run'.srcSince = run.srcSince /\ src' = src /\ Running'
      /\ Asked' = ItemsOf(run'.agenda)
      /\ src.rev \in Nat
  BY NoneAssumption DEF Drawn, Running, Asked, Typed, TypeOK, SourceSeries
<1>2. Read(run.srcSaw).rev = run.srcSaw.rev /\ Read(run.srcSaw).master = run.srcSaw.master
      /\ Read(src).rev = src.rev /\ Read(src).master = src.master
  BY DEF Read
<1>3. ReadEarlier'
  <2>1. ASSUME NEW item \in ItemsOf(run'.agenda)
        PROVE  item.series.rev <= src.rev /\ (item.series.rev = src.rev => item.series.master = src.master)
    <3>1. CASE item.series = Read(run.srcSaw)
      BY <1>2, <3>1 DEF ReadEarlier
    <3>2. CASE item.series = Read(src)
      BY <1>1, <1>2, <3>2
    <3>3. CASE \E old \in Asked : item.series = old.series
      BY <3>3 DEF ReadEarlier
    <3> QED BY <3>1, <3>2, <3>3 DEF Drawn
  <2>2. run.srcSaw.rev <= src.rev /\ (run.srcSaw.rev = src.rev => run.srcSaw.master = src.master)
    BY DEF ReadEarlier
  <2> QED BY <1>1, <2>1, <2>2 DEF ReadEarlier
<1>4. ASSUME "series" \notin run.srcSince
      PROVE  /\ Read(run.srcSaw) = Read(src)
             /\ \A item \in ItemsOf(run'.agenda) : item.series = Read(src)
  BY <1>4 DEF ReadStill, Drawn
<1>5. ASSUME NEW start \in Starts, {start, "series"} \cap run.srcSince = {}
      PROVE  /\ run.srcSaw.occ[start] = src.occ[start]
             /\ \A item \in ItemsOf(run'.agenda) :
                  item.do = "decide" /\ start \in DOMAIN item.wants => item.wants[start] = SourceView(src, start)
  <2>1. run.srcSaw.occ[start] = src.occ[start] /\ Read(run.srcSaw) = Read(src)
    BY <1>5 DEF ReadStill
  <2>2. SourceView(run.srcSaw, start) = SourceView(src, start)
    BY <1>2, <2>1, StillViewed
  <2>3. \A old \in Decisions : start \in DOMAIN old.wants => old.wants[start] = SourceView(src, start)
    BY <1>5 DEF ReadStill
  <2> QED BY <2>1, <2>2, <2>3 DEF Drawn
<1>6. ReadStill'
  <2>1. Read(src)' = Read(src) /\ \A start : SourceView(src, start)' = SourceView(src, start)
    BY <1>1 DEF Read, SourceView
  <2> QED BY <1>1, <1>4, <1>5, <2>1 DEF ReadStill, Decisions
<1> QED BY <1>3, <1>6

\* Where the items of a step come from.
Fresh(item) ==
  /\ item.series \in {Read(run.srcSaw), Read(src)} \cup {old.series : old \in Asked}
  /\ item.do = "decide" =>
       \A start \in DOMAIN item.wants :
         \/ item.wants[start] \in {SourceView(run.srcSaw, start), SourceView(src, start)}
         \/ \E old \in Decisions : start \in DOMAIN old.wants /\ item.wants[start] = old.wants[start]

LEMMA FreshDrawn ==
  ASSUME src' = src, run'.srcSaw = run.srcSaw, run'.srcSince = run.srcSince,
         \A item \in ItemsOf(run'.agenda) : item \in Asked \/ Fresh(item)
  PROVE  Drawn
BY DEF Drawn, Fresh, Decisions

LEMMA DrawnHandling ==
  ASSUME SeriesAssumption, Typed,
         HandleSeries \/ RepairSeries \/ \E start \in Starts : HandleException(start) \/ RepairOccurrence(start)
  PROVE  Drawn
<1>1. CASE HandleSeries
  <2>1. /\ Still /\ Alike(run', run) /\ run'.agenda = <<Sync(Read(run.srcSaw), "fresh")>>
    BY <1>1, HandleSeriesStep
  <2>2. ItemsOf(run'.agenda) = {Sync(Read(run.srcSaw), "fresh")}
    BY <2>1, ItemsOfOne
  <2>3. Fresh(Sync(Read(run.srcSaw), "fresh"))
    BY DEF Fresh, Sync
  <2> QED BY <2>1, <2>2, <2>3, FreshDrawn DEF Still, Alike
<1>2. ASSUME NEW start \in Starts, HandleException(start) PROVE Drawn
  <2> DEFINE sync == Sync(Read(src), "fresh")
  <2>1. /\ Still /\ Alike(run', run)
        /\ \/ run'.agenda = <<>>
           \/ run'.agenda = <<sync>> \o <<Wanted(start)>>
           \/ run'.agenda = <<Wanted(start)>>
        /\ Wanted(start) \in Items /\ sync \in Items
    BY <1>2, HandleExceptionStep
  <2>2. Fresh(sync)
    BY DEF Fresh, Sync
  <2>3. Fresh(Wanted(start))
    <3>1. /\ Wanted(start).series = Read(src) /\ DOMAIN Wanted(start).wants = {start}
          /\ Wanted(start).wants[start] = SourceView(run.srcSaw, start)
      BY DEF Wanted, Decide, At
    <3> QED BY <3>1 DEF Fresh
  <2> HIDE DEF sync
  <2>4. <<sync>> \in Seq(Items) /\ <<Wanted(start)>> \in Seq(Items)
    BY <2>1
  <2>5. ItemsOf(<<sync>>) = {sync}
    BY ItemsOfOne
  <2>6. ItemsOf(<<Wanted(start)>>) = {Wanted(start)}
    BY ItemsOfOne
  <2>7. ItemsOf(run'.agenda) \subseteq {sync, Wanted(start)}
    <3>1. ItemsOf(<<sync>> \o <<Wanted(start)>>) = ItemsOf(<<sync>>) \cup ItemsOf(<<Wanted(start)>>)
      BY <2>4, ItemsJoined
    <3> QED BY <2>1, <2>5, <2>6, <3>1, ItemsOfNone
  <2> QED BY <2>1, <2>2, <2>3, <2>7, FreshDrawn DEF Still, Alike
<1>3. CASE RepairSeries
  <2>1. /\ Still /\ Alike(run', run)
        /\ \/ run'.agenda = <<>>
           \/ \E actual : run'.agenda = <<Sync(Read(src), actual)>>
    BY <1>3, RepairSeriesStep
  <2>2. ASSUME NEW actual PROVE ItemsOf(<<Sync(Read(src), actual)>>) = {Sync(Read(src), actual)}
    BY ItemsOfOne
  <2>3. ASSUME NEW actual PROVE Fresh(Sync(Read(src), actual))
    BY DEF Fresh, Sync
  <2>4. \A item \in ItemsOf(run'.agenda) : Fresh(item)
    BY <2>1, <2>2, <2>3, ItemsOfNone
  <2> QED BY <2>1, <2>4, FreshDrawn DEF Still, Alike
<1>4. ASSUME NEW start \in Starts, RepairOccurrence(start) PROVE Drawn
  <2>1. /\ Still /\ Alike(run', run)
        /\ run'.agenda = <<>> \/ run'.agenda = <<Repeated(start)>>
    BY <1>4, RepairOccurrenceStep
  <2>2. ItemsOf(<<Repeated(start)>>) = {Repeated(start)}
    BY ItemsOfOne
  <2>3. Fresh(Repeated(start))
    <3>1. /\ Repeated(start).series = Read(src) /\ DOMAIN Repeated(start).wants = {start}
          /\ Repeated(start).wants[start] = SourceView(src, start)
      BY DEF Repeated, Decide, At
    <3> QED BY <3>1 DEF Fresh
  <2>4. \A item \in ItemsOf(run'.agenda) : Fresh(item)
    BY <2>1, <2>2, <2>3, ItemsOfNone
  <2> QED BY <2>1, <2>4, FreshDrawn DEF Still, Alike
<1> QED BY <1>1, <1>2, <1>3, <1>4

LEMMA DrawnDoing ==
  ASSUME SeriesAssumption, Typed, run' \in Runs,
         \/ SyncRemove \/ SyncCreate \/ SyncDormant \/ SyncUpdate \/ SyncRefused \/ SyncCurrent
         \/ ReverifyRecorded \/ CompleteRevision \/ ReplayExceptions \/ ReplayDone
  PROVE  Drawn
<1>1. \E what \in {"sync", "reverify", "complete", "replay", "replayed"} : Doing(what)
  BY DEF SyncRemove, SyncCreate, SyncDormant, SyncUpdate, SyncRefused, SyncCurrent,
         ReverifyRecorded, CompleteRevision, ReplayExceptions, ReplayDone
<1>2. /\ Kept(Done, run) /\ Done.agenda = Tail(run.agenda) /\ Item \in Asked
      /\ Asked = {Item} \cup ItemsOf(Tail(run.agenda)) /\ run' # None
  BY <1>1, DoingStep, NoneAssumption
<1>3. ASSUME NEW what \in {"reverify", "complete", "replay", "replayed"}
      PROVE  Fresh(Then(what, Item.series))
  BY <1>2 DEF Fresh, Then
<1>4. ASSUME src' = src, Alike(run', run), ItemsOf(run'.agenda) \subseteq Asked
      PROVE  Drawn
  BY <1>4, FreshDrawn DEF Alike
<1>5. CASE SyncRemove
  <2>1. /\ src' = src /\ Alike(run', run) /\ run'.agenda = Tail(run.agenda)
    BY <1>2, <1>5, SyncRemoveStep DEF Still, Bystanders, Committed, Lost, Kept, Alike
  <2> QED BY <1>2, <1>4, <2>1
<1>6. CASE SyncCreate
  <2>1. /\ src' = src /\ Alike(run', run)
        /\ ItemsOf(run'.agenda) \subseteq
             {Then("reverify", Item.series), Then("complete", Item.series), Then("replay", Item.series)}
               \cup ItemsOf(Tail(run.agenda))
    BY <1>2, <1>6, SyncCreateStep DEF Bystanders, Lost
  <2> QED BY <1>2, <1>3, <2>1, FreshDrawn DEF Alike
<1>7. CASE SyncDormant
  <2>1. /\ src' = src /\ Alike(run', run) /\ run'.agenda = Tail(run.agenda)
    BY <1>2, <1>7, SyncDormantStep DEF Still, Bystanders, Committed, Lost, Kept, Alike
  <2> QED BY <1>2, <1>4, <2>1
<1>8. CASE SyncUpdate
  <2>1. /\ src' = src /\ Alike(run', run)
        /\ ItemsOf(run'.agenda) \subseteq
             {Then("reverify", Item.series), Then("complete", Item.series)} \cup ItemsOf(Tail(run.agenda))
    BY <1>2, <1>8, SyncUpdateStep DEF Bystanders, Lost
  <2> QED BY <1>2, <1>3, <2>1, FreshDrawn DEF Alike
<1>9. CASE SyncRefused
  BY <1>2, <1>9 DEF SyncRefused, Only
<1>10. CASE SyncCurrent
  <2>1. /\ src' = src /\ Alike(run', run)
        /\ ItemsOf(run'.agenda) \subseteq
             {Then("reverify", Item.series), Then("complete", Item.series)} \cup ItemsOf(Tail(run.agenda))
    BY <1>2, <1>10, SyncCurrentStep DEF Still, Kept
  <2> QED BY <1>2, <1>3, <2>1, FreshDrawn DEF Alike
<1>11. CASE ReverifyRecorded
  <2>1. /\ src' = src /\ Alike(run', run)
        /\ \/ run'.agenda = Tail(run.agenda)
           \/ \E item \in Items :
                /\ item.series = Item.series
                /\ \A start \in DOMAIN item.wants : item.wants[start] = SourceView(src, start)
                /\ ItemsOf(run'.agenda) = {item} \cup ItemsOf(Tail(run.agenda))
    BY <1>11, ReverifyRecordedStep DEF Still, Kept
  <2>2. \A item \in ItemsOf(run'.agenda) : item \in Asked \/ Fresh(item)
    BY <1>2, <2>1 DEF Fresh
  <2> QED BY <2>1, <2>2, FreshDrawn DEF Alike
<1>12. CASE CompleteRevision
  BY <1>2, <1>4, <1>12, CompleteRevisionStep DEF Kept
<1>13. CASE ReplayExceptions
  <2>1. /\ src' = src /\ Alike(run', run)
        /\ \/ ItemsOf(run'.agenda) = {Then("replayed", Item.series)} \cup ItemsOf(Tail(run.agenda))
           \/ \E item \in Items :
                /\ item.series = Item.series
                /\ \A start \in DOMAIN item.wants : item.wants[start] = SourceView(src, start)
                /\ ItemsOf(run'.agenda) = {item, Then("replayed", Item.series)} \cup ItemsOf(Tail(run.agenda))
    BY <1>13, ReplayExceptionsStep DEF Still, Kept
  <2>2. ASSUME NEW item, item.series = Item.series,
               \A start \in DOMAIN item.wants : item.wants[start] = SourceView(src, start)
        PROVE  Fresh(item)
    BY <1>2, <2>2 DEF Fresh
  <2>3. \A item \in ItemsOf(run'.agenda) : item \in Asked \/ Fresh(item)
    BY <1>2, <1>3, <2>1, <2>2
  <2> QED BY <2>1, <2>3, FreshDrawn DEF Alike
<1>14. CASE ReplayDone
  BY <1>2, <1>4, <1>14, ReplayDoneStep DEF Kept
<1> QED BY <1>5, <1>6, <1>7, <1>8, <1>9, <1>10, <1>11, <1>12, <1>13, <1>14

LEMMA DrawnDeciding ==
  ASSUME SeriesAssumption, Typed, run' \in Runs,
         NEW start \in Starts, RepairMissing(start) \/ OccurrenceRefused(start) \/ ApplyOccurrence(start)
  PROVE  Drawn
<1>1. Doing("decide") /\ start \in DOMAIN Item.wants
  BY DEF RepairMissing, OccurrenceRefused, ApplyOccurrence
<1>2. /\ Item \in Asked /\ Item \in Decisions /\ Asked = {Item} \cup ItemsOf(Tail(run.agenda)) /\ run' # None
  BY <1>1, DoingStep, NoneAssumption DEF Decisions
<1>3. /\ Rest(start).series = Item.series /\ DOMAIN Rest(start).wants = DOMAIN Item.wants \ {start}
      /\ \A s \in DOMAIN Item.wants \ {start} : Rest(start).wants[s] = Item.wants[s]
  BY <1>1, RestFields
<1>4. Fresh(Rest(start))
  BY <1>2, <1>3 DEF Fresh
<1>5. \A item \in RestItems(start) : item \in Asked \/ Fresh(item)
  BY <1>2, <1>4 DEF RestItems
<1>6. Fresh(Again(start)) /\ Fresh(Sync(Item.series, "fresh"))
  <2>1. /\ Again(start).series = Item.series /\ DOMAIN Again(start).wants = {start}
        /\ Again(start).wants[start] = Item.wants[start]
    BY DEF Again, Decide, At
  <2>2. Sync(Item.series, "fresh").series = Item.series /\ Sync(Item.series, "fresh").do = "sync"
    BY DEF Sync
  <2> QED BY <1>1, <1>2, <2>1, <2>2 DEF Fresh
<1>7. CASE RepairMissing(start)
  <2>1. /\ src' = src /\ Alike(run', run)
        /\ ItemsOf(run'.agenda) \subseteq {Sync(Item.series, "fresh"), Again(start)} \cup RestItems(start)
    BY <1>7, RepairMissingStep DEF Still
  <2> QED BY <1>5, <1>6, <2>1, FreshDrawn DEF Alike
<1>8. CASE OccurrenceRefused(start)
  BY <1>2, <1>8 DEF OccurrenceRefused, Only
<1>9. CASE ApplyOccurrence(start)
  <2>1. /\ src' = src /\ Alike(run', run) /\ ItemsOf(run'.agenda) = RestItems(start)
    BY <1>2, <1>9, ApplyOccurrenceStep DEF Bystanders, Lost
  <2> QED BY <1>5, <2>1, FreshDrawn DEF Alike
<1> QED BY <1>7, <1>8, <1>9

LEMMA DrawnFinishing ==
  ASSUME SeriesAssumption, Typed, run' \in Runs, FinishReplay
  PROVE  Drawn
<1>1. /\ src' = src /\ run.agenda = <<>>
      /\ \/ run' = run
         \/ Kept(run', run) /\ run'.agenda = <<Then("replay", Read(src))>>
  BY FinishReplayStep
<1>2. ItemsOf(<<Then("replay", Read(src))>>) = {Then("replay", Read(src))}
  BY ItemsOfOne
<1>3. Fresh(Then("replay", Read(src)))
  BY DEF Fresh, Then
<1>4. \A item \in ItemsOf(run'.agenda) : Fresh(item)
  BY <1>1, <1>2, <1>3, ItemsOfNone
<1> QED BY <1>1, <1>4, FreshDrawn DEF Kept, Alike

\* The steps of a run, as far as what is known of the destination is concerned.
Run ==
  \/ HandleSeries \/ RepairSeries \/ \E start \in Starts : HandleException(start) \/ RepairOccurrence(start)
  \/ SyncRemove \/ SyncCreate \/ SyncDormant \/ SyncUpdate \/ SyncRefused \/ SyncCurrent
  \/ ReverifyRecorded \/ CompleteRevision \/ ReplayExceptions \/ ReplayDone
  \/ \E start \in Starts : RepairMissing(start) \/ OccurrenceRefused(start) \/ ApplyOccurrence(start)
  \/ FinishReplay

LEMMA RunDrawn ==
  ASSUME SeriesAssumption, Typed, Run, run' \in Runs
  PROVE  Drawn /\ Running
<1>1. Running
  BY DEF Run, HandleSeries, RepairSeries, HandleException, RepairOccurrence, Free,
         SyncRemove, SyncCreate, SyncDormant, SyncUpdate, SyncRefused, SyncCurrent, Doing,
         ReverifyRecorded, CompleteRevision, ReplayExceptions, ReplayDone,
         RepairMissing, OccurrenceRefused, ApplyOccurrence, FinishReplay, Ended
<1>2. Drawn
  BY DrawnHandling, DrawnDoing, DrawnDeciding, DrawnFinishing DEF Run
<1> QED BY <1>1, <1>2

LEMMA NextSteps ==
  ASSUME SeriesAssumption, Typed, Next
  PROVE  \/ SourceStep \/ DestinationStep \/ Run
         \/ AdvanceCursors \/ FailRun \/ \E full \in BOOLEAN : StartRun(full)
BY Steps DEF Run

\* Without a run nothing is asked of what was read.
LEMMA RunlessReads ==
  ASSUME run' = None
  PROVE  ReadEarlier' /\ ReadStill'
BY DEF ReadEarlier, ReadStill, Running

LEMMA ReadsPeople ==
  ASSUME SeriesAssumption, Typed, SourceStep \/ DestinationStep, ReadEarlier, ReadStill
  PROVE  ReadEarlier' /\ ReadStill'
<1>1. CASE ~Running
  BY <1>1, RunlessReads DEF SourceStep, DestinationStep
<1>2. CASE Running /\ SourceStep
  <2>1. PICK parts \in SUBSET Parts :
          /\ Noted(run', parts)
          /\ \/ parts = {"series"} /\ src'.rev = src.rev + 1
             \/ \E start \in Starts :
                  /\ parts = {start} /\ src'.rev = src.rev /\ src'.master = src.master
                  /\ \A other \in Starts \ {start} : src'.occ[other] = src.occ[other]
    BY <1>2 DEF SourceStep
  <2>2. /\ run'.srcSaw = run.srcSaw /\ run'.agenda = run.agenda /\ run'.srcSince = run.srcSince \cup parts
        /\ Asked' = Asked /\ Decisions' = Decisions
    BY <2>1 DEF Noted, Asked, Decisions
  <2>3. /\ src.rev \in Nat /\ run \in Runs /\ run.srcSaw.rev \in Nat
        /\ \A item \in Asked : item.series.rev \in Nat
    <3>1. run \in Runs /\ run.srcSaw \in SourceSeries /\ run.agenda \in Seq(Items)
      BY <1>2, RunTyped DEF Typed
    <3>2. \A item \in Asked : item \in Items
      BY <3>1 DEF Asked, ItemsOf
    <3>3. \A item \in Asked : item.series \in SeriesRead
      BY <3>2, ItemKinds
    <3> QED BY <3>1, <3>3 DEF Typed, TypeOK, SourceSeries, SeriesRead
  <2>4. CASE parts = {"series"} /\ src'.rev = src.rev + 1
    <3>1. ReadEarlier'
      BY <1>2, <2>2, <2>3, <2>4 DEF ReadEarlier
    <3>2. "series" \in run'.srcSince
      BY <2>2, <2>4
    <3>3. ReadStill'
      BY <3>2 DEF ReadStill
    <3> QED BY <3>1, <3>3
  <2>5. ASSUME NEW start \in Starts, parts = {start}, src'.rev = src.rev, src'.master = src.master,
               \A other \in Starts \ {start} : src'.occ[other] = src.occ[other]
        PROVE  ReadEarlier' /\ ReadStill'
    <3>1. ReadEarlier'
      BY <1>2, <2>2, <2>5 DEF ReadEarlier
    <3>2. Read(src)' = Read(src)
      BY <2>5 DEF Read
    <3>3. ASSUME NEW other \in Starts, {other, "series"} \cap run'.srcSince = {}
          PROVE  /\ run.srcSaw.occ[other] = src'.occ[other]
                 /\ \A item \in Decisions :
                      other \in DOMAIN item.wants => item.wants[other] = SourceView(src, other)'
      <4>1. other \in Starts \ {start} /\ {other, "series"} \cap run.srcSince = {}
        BY <2>2, <2>5, <3>3
      <4>2. src'.occ[other] = src.occ[other]
        BY <2>5, <4>1
      <4>3. SourceView(src, other)' = SourceView(src, other)
        BY <2>5, <4>2 DEF SourceView
      <4> QED BY <1>2, <4>1, <4>2, <4>3 DEF ReadStill
    <3>4. "series" \notin run'.srcSince =>
            Read(run.srcSaw) = Read(src) /\ \A item \in Asked : item.series = Read(src)
      BY <1>2, <2>2 DEF ReadStill
    <3>5. ReadStill'
      BY <2>2, <3>2, <3>3, <3>4 DEF ReadStill
    <3> QED BY <3>1, <3>5
  <2> QED BY <2>1, <2>4, <2>5
<1>3. CASE Running /\ DestinationStep
  <2>1. /\ run'.srcSaw = run.srcSaw /\ run'.agenda = run.agenda /\ run'.srcSince = run.srcSince /\ src' = src
        /\ Asked' = Asked /\ Decisions' = Decisions
    BY <1>3 DEF DestinationStep, Asked, Decisions
  <2>2. Read(src)' = Read(src) /\ \A start : SourceView(src, start)' = SourceView(src, start)
    BY <2>1 DEF Read, SourceView
  <2> QED BY <1>3, <2>1, <2>2 DEF ReadEarlier, ReadStill
<1> QED BY <1>1, <1>2, <1>3

LEMMA ReadsNext ==
  ASSUME SeriesAssumption, Typed, [Next]_vars, ReadEarlier, ReadStill
  PROVE  ReadEarlier' /\ ReadStill'
<1>1. CASE SourceStep \/ DestinationStep
  BY <1>1, ReadsPeople
<1>2. CASE Run
  <2>1. run' \in Runs \cup {None}
    <3>1. Typed'
      BY TypedNext
    <3> QED BY <3>1 DEF Typed, TypeOK
  <2> QED BY <1>2, <2>1, RunDrawn, DrawnReads, RunlessReads
<1>3. CASE AdvanceCursors \/ FailRun
  BY <1>3, RunlessReads DEF AdvanceCursors, FailRun
<1>4. ASSUME NEW full \in BOOLEAN, StartRun(full) PROVE ReadEarlier' /\ ReadStill'
  <2>1. /\ run'.srcSaw = src /\ run'.agenda = <<>> /\ src' = src
    BY <1>4, StartRunStep
  <2>2. Asked' = {} /\ Decisions' = {} /\ src.rev \in Nat
    BY <2>1, ItemsOfNone DEF Asked, Decisions, Typed, TypeOK, SourceSeries
  <2> QED BY <2>1, <2>2 DEF ReadEarlier, ReadStill
<1>5. CASE UNCHANGED vars
  <2>1. src' = src /\ run' = run
    BY <1>5 DEF vars
  <2> QED BY <2>1 DEF ReadEarlier, ReadStill, Running, Asked, Decisions, Read, SourceView
<1> QED BY <1>1, <1>2, <1>3, <1>4, <1>5, NextSteps

-----------------------------------------------------------------------------
(***************************************************************************)
(* An occurrence is only hidden on evidence.                               *)
(***************************************************************************)
LEMMA SurvivingView ==
  ASSUME NEW d \in DestinationSeries, NEW start \in Starts, DestinationView(d, start) \notin Hidden
  PROVE  DestinationView(Surviving(d), start) = DestinationView(d, start)
<1>1. d.live
  BY DEF DestinationView, Hidden
<1>2. Surviving(d).live /\ Surviving(d).master = d.master /\ Surviving(d).occ = d.occ
  BY <1>1, SurvivingFields DEF Visible
<1> QED BY <1>1, <1>2 DEF DestinationView

LEMMA StillShown ==
  ASSUME NEW d \in DestinationSeries, NEW start \in Starts, DestinationView(d, start) \notin Hidden,
         dst' = d \/ dst' = Surviving(d), mapping' # None, mapping'.linked
  PROVE  Shown(start)' # "absent"
<1>1. DestinationView(dst', start) = DestinationView(d, start)
  BY SurvivingView
<1>2. DestinationView(dst, start)' = DestinationView(dst', start)
  BY DEF DestinationView
<1> QED BY <1>1, <1>2 DEF Shown, Linked, Hidden

LEMMA HidesNothing ==
  ASSUME SeriesAssumption, Typed, ReadStill, [Next]_vars, NEW start \in Starts,
         Running, src' = src, left'.dest = left.dest,
         InStep(start), Shown(start) # "absent", {start, "series"} \cap run.srcSince = {}
  PROVE  Shown(start)' # "absent"
<1>1. /\ Linked /\ DestinationView(dst, start) \notin Hidden
      /\ SourceView(src, start) \notin Hidden /\ DestinationView(dst, start) = SourceView(src, start)
  BY DEF Shown, InStep, Called
<1>2. /\ dst.live /\ src.master # "cancelled" /\ start \in Recurs[src.master]
      /\ mapping # None /\ mapping.linked
  BY <1>1 DEF DestinationView, SourceView, Hidden, Linked
<1>3. /\ dst \in DestinationSeries /\ src \in SourceSeries /\ mapping \in SeriesMapping
      /\ left.dest \in Nat /\ left \in Limits
  BY <1>2 DEF Typed, TypeOK, Limits
<1>4. src.master \in Masters
  BY <1>2, <1>3 DEF SourceSeries
<1>5. ASSUME dst' = dst, mapping' = mapping PROVE Shown(start)' # "absent"
  BY <1>1, <1>2, <1>3, <1>5, StillShown
<1>6. /\ \A item \in Asked : item.series = Read(src)
      /\ \A item \in Decisions : start \in DOMAIN item.wants => item.wants[start] = SourceView(src, start)
  BY DEF ReadStill
<1>7. Read(src).master = src.master
  BY DEF Read
<1>8. CASE SourceStep
  BY <1>5, <1>8 DEF SourceStep
<1>9. CASE DestinationStep
  <2>1. left.dest > 0 /\ left'.dest = left.dest - 1
    BY <1>9 DEF DestinationStep
  <2> QED BY <1>3, <2>1
<1>10. CASE AdvanceCursors \/ FailRun \/ \E full \in BOOLEAN : StartRun(full)
  BY <1>5, <1>10 DEF AdvanceCursors, FailRun, StartRun, store
<1>11. CASE HandleSeries \/ RepairSeries \/ \E s \in Starts : HandleException(s) \/ RepairOccurrence(s)
  BY <1>5, <1>11 DEF HandleSeries, RepairSeries, HandleException, RepairOccurrence, Only, store
<1>12. CASE FinishReplay \/ ReverifyRecorded \/ ReplayExceptions \/ ReplayDone \/ SyncRefused
  BY <1>5, <1>12 DEF FinishReplay, ReverifyRecorded, ReplayExceptions, ReplayDone, SyncRefused,
                     Only, Save, store
<1>13. CASE CompleteRevision
  <2>1. dst' = dst /\ mapping' \in SeriesMapping /\ mapping'.linked = mapping.linked
    BY <1>2, <1>13, CompleteRevisionStep
  <2>2. mapping' # None
    BY <2>1, NoneAssumption
  <2> QED BY <1>1, <1>2, <1>3, <2>1, <2>2, StillShown
<1>14. CASE SyncRemove
  <2>1. Doing("sync") /\ Item.series.master = "cancelled"
    BY <1>14, SyncRemoveStep
  <2>2. Item \in Asked
    BY <2>1, DoingStep
  <2> QED BY <1>2, <1>6, <1>7, <2>1, <2>2
<1>15. CASE SyncCreate \/ SyncDormant
  <2>1. Doing("sync") /\ Creating
    BY <1>15 DEF SyncCreate, SyncDormant
  <2>2. Actual = None
    BY <2>1 DEF Creating
  <2> QED BY <1>1, <1>2, <2>1, <2>2, ActualTyped
<1>16. CASE SyncUpdate
  <2> DEFINE next == Reshaped(dst, Item.series.master)
             m == [mapping EXCEPT !.rev = Revision(Item.series), !.shown = Item.series.master]
  <2>1. /\ Doing("sync") /\ Actual # None /\ m \in SeriesMapping /\ m.linked = mapping.linked
        /\ dst' = Surviving(next) /\ (Lost \/ mapping' = m)
    BY <1>16, SyncUpdateStep
  <2>2. Item \in Asked
    BY <2>1, DoingStep
  <2>3. Item.series.master = src.master
    BY <1>6, <1>7, <2>2
  <2>4. mapping' # None /\ mapping'.linked
    <3>1. Lost => mapping' = mapping
      BY <2>1 DEF Lost, Creating
    <3> HIDE DEF m
    <3> QED BY <1>2, <2>1, <3>1, NoneAssumption
  <2> HIDE DEF m
  <2>5. /\ next \in DestinationSeries /\ next.live = dst.live /\ next.master = src.master
        /\ next.occ[start] = dst.occ[start]
    <3>1. Item.series.master \in Masters
      BY <1>4, <2>3
    <3> DEFINE wanted == Item.series.master
    <3>2. /\ Reshaped(dst, wanted) \in DestinationSeries /\ Reshaped(dst, wanted).live = dst.live
          /\ Reshaped(dst, wanted).master = wanted
          /\ Reshaped(dst, wanted).occ = [s \in Starts |-> IF s \in Recurs[wanted] THEN dst.occ[s] ELSE "follows"]
      <4> HIDE DEF wanted
      <4> QED BY <1>3, <3>1, ReshapedDestination DEF wanted
    <3>3. Reshaped(dst, wanted).occ[start] = dst.occ[start]
      <4>1. start \in Recurs[wanted]
        BY <1>2, <2>3
      <4> HIDE DEF wanted
      <4> QED BY <3>2, <4>1
    <3> QED BY <2>3, <3>2, <3>3
  <2> HIDE DEF next
  <2>6. DestinationView(next, start) \notin Hidden
    BY <1>1, <1>2, <1>4, <2>5 DEF DestinationView, Hidden, SeriesAssumption
  <2> QED BY <2>1, <2>4, <2>5, <2>6, StillShown
<1>17. CASE SyncCurrent
  <2>1. dst' = dst /\ (mapping' = mapping \/ (mapping' \in SeriesMapping /\ mapping'.linked = mapping.linked))
    BY <1>17, SyncCurrentStep DEF Still
  <2>2. mapping' # None /\ mapping'.linked
    BY <1>2, <2>1, NoneAssumption
  <2> QED BY <1>1, <1>3, <2>1, <2>2, StillShown
<1>18. ASSUME NEW s \in Starts, RepairMissing(s) \/ OccurrenceRefused(s)
       PROVE  Shown(start)' # "absent"
  BY <1>5, <1>18 DEF RepairMissing, OccurrenceRefused, Only, store
<1>19. ASSUME NEW s \in Starts, ApplyOccurrence(s)
       PROVE  Shown(start)' # "absent"
  <2>1. Doing("decide") /\ s \in DOMAIN Item.wants
    BY <1>19 DEF ApplyOccurrence
  <2>2. /\ mapping' = mapping
        /\ \/ dst' = dst
           \/ Outcome(s) = "update" /\ dst' = Surviving([dst EXCEPT !.occ[s] = Item.wants[s]])
           \/ Outcome(s) = "cancel" /\ dst' = Surviving([dst EXCEPT !.occ[s] = "cancelled"])
    <3>1. \/ Outcomes(s)
          \/ /\ Lost
             /\ \/ Outcome(s) = "update" /\ dst' = Surviving(WriteOccurrence(s, Item.wants[s]))
                \/ Outcome(s) = "cancel" /\ dst' = Surviving(CancelOccurrence(s))
      BY <1>19, ApplyOccurrenceStep
    <3>2. ~Creating
      BY <2>1 DEF Creating, Doing
    <3>3. CASE Outcomes(s)
      BY <3>3 DEF Outcomes, WriteOccurrence, CancelOccurrence
    <3>4. CASE ~Outcomes(s)
      BY <3>1, <3>2, <3>4 DEF Lost, WriteOccurrence, CancelOccurrence
    <3> QED BY <3>3, <3>4
  <2>3. Item \in Decisions
    BY <2>1, DoingStep DEF Decisions
  <2>4. Item.wants[s] \in Views
    BY <2>1, RestFields
  <2>5. ASSUME NEW how \in Contents \cup {"cancelled"}, how # "cancelled" \/ s # start
        PROVE  LET next == [dst EXCEPT !.occ[s] = how] IN
               next \in DestinationSeries /\ DestinationView(next, start) \notin Hidden
    <3> DEFINE next == [dst EXCEPT !.occ[s] = how]
    <3>1. /\ next \in DestinationSeries /\ next.live = dst.live /\ next.master = dst.master
          /\ next.occ = [dst.occ EXCEPT ![s] = how]
      BY <1>3, WrittenFields
    <3> HIDE DEF next
    <3>2. CASE s = start
      <4>1. next.occ[start] = how
        BY <1>3, <3>1, <3>2 DEF DestinationSeries
      <4>2. how \notin {"follows", "absent", "cancelled"}
        BY <2>5, <3>2 DEF Contents, SeriesAssumption
      <4> QED BY <1>2, <3>1, <4>1, <4>2 DEF DestinationView, Hidden, next
    <3>3. CASE s # start
      <4>1. next.occ[start] = dst.occ[start]
        BY <1>3, <3>1, <3>3 DEF DestinationSeries
      <4>2. DestinationView(next, start) = DestinationView(dst, start)
        BY <3>1, <4>1 DEF DestinationView
      <4> QED BY <1>1, <3>1, <4>2 DEF next
    <3> QED BY <3>2, <3>3
  <2>6. CASE dst' = dst
    BY <1>5, <2>2, <2>6
  <2>7. CASE Outcome(s) = "update" /\ dst' = Surviving([dst EXCEPT !.occ[s] = Item.wants[s]])
    <3>1. Item.wants[s] \in Contents /\ Item.wants[s] # "cancelled"
      BY <2>4, <2>7, OutcomeWas DEF Views, Hidden
    <3> DEFINE next == [dst EXCEPT !.occ[s] = Item.wants[s]]
    <3>2. next \in DestinationSeries /\ DestinationView(next, start) \notin Hidden
      BY <2>5, <3>1
    <3>3. dst' = Surviving(next) /\ mapping' # None /\ mapping'.linked
      BY <1>2, <2>2, <2>7
    <3> HIDE DEF next
    <3> QED BY <3>2, <3>3, StillShown
  <2>8. CASE Outcome(s) = "cancel" /\ dst' = Surviving([dst EXCEPT !.occ[s] = "cancelled"])
    <3>1. Item.wants[s] \in {"absent", "cancelled"}
      BY <2>8, OutcomeWas
    <3>2. s # start
      BY <1>1, <1>6, <2>1, <2>3, <3>1 DEF Hidden
    <3> DEFINE next == [dst EXCEPT !.occ[s] = "cancelled"]
    <3>3. next \in DestinationSeries /\ DestinationView(next, start) \notin Hidden
      BY <2>5, <3>2
    <3>4. dst' = Surviving(next) /\ mapping' # None /\ mapping'.linked
      BY <1>2, <2>2, <2>8
    <3> HIDE DEF next
    <3> QED BY <3>3, <3>4, StillShown
  <2> QED BY <2>2, <2>6, <2>7, <2>8
<1>20. CASE UNCHANGED vars
  BY <1>5, <1>20 DEF vars, store
<1> QED BY <1>8, <1>9, <1>10, <1>11, <1>12, <1>13, <1>14, <1>15, <1>16, <1>17, <1>18, <1>19, <1>20,
           NextSteps DEF Run

(***************************************************************************)
(* Whatever changes while runs are under way, a run takes an occurrence    *)
(* the source calls for from the destination only if the source called for *)
(* it after the run read its feed.                                         *)
(***************************************************************************)
THEOREM SeriesHidesOnlyProven == Spec => HidesOnlyProven
<1>1. Init => Typed /\ ReadStill /\ ReadEarlier
  BY InitTyped, SeriesAssumption DEF Init, ReadStill, ReadEarlier, Running
<1>2. Typed /\ ReadStill /\ ReadEarlier /\ [Next]_vars => (Typed /\ ReadStill /\ ReadEarlier)'
  BY TypedNext, ReadsNext, SeriesAssumption
<1>3. Typed /\ ReadStill /\ [Next]_vars =>
        [\A start \in Starts :
           /\ Running /\ src' = src /\ left'.dest = left.dest
           /\ InStep(start) /\ Shown(start) # "absent" /\ Shown(start)' = "absent"
           => run.srcSince \cap {start, "series"} # {}]_vars
  <2> SUFFICES ASSUME Typed, ReadStill, [Next]_vars, NEW start \in Starts,
                      Running, src' = src, left'.dest = left.dest,
                      InStep(start), Shown(start) # "absent", Shown(start)' = "absent"
               PROVE  run.srcSince \cap {start, "series"} # {}
    OBVIOUS
  <2>1. {start, "series"} \cap run.srcSince # {}
    BY HidesNothing, SeriesAssumption
  <2> QED BY <2>1
<1> QED BY <1>1, <1>2, <1>3, PTL DEF Spec, HidesOnlyProven


-----------------------------------------------------------------------------
(***************************************************************************)
(* What a run knows of the destination series, and what a destination      *)
(* series is that no mapping names: as a create left it whose answer was   *)
(* lost.                                                                   *)
(***************************************************************************)
KnownRight ==
  Running => /\ run.known = FALSE => ~(Linked /\ dst.live)
             /\ run.known = TRUE => Linked

Orphan ==
  dst.live /\ ~Linked =>
    /\ dst.key <= src.rev
    /\ dst.key = src.rev => dst.master = src.master
    /\ \A start \in Starts : dst.occ[start] = "follows"

LEMMA KnownRightKept ==
  ASSUME KnownRight, Running, Linked' <=> Linked, dst'.live => dst.live,
         run'.known = run.known \/ run'.known = Known
  PROVE  KnownRight'
<1>1. CASE run'.known = run.known
  BY <1>1 DEF KnownRight
<1>2. CASE run'.known = Known /\ run.known # None
  BY <1>2 DEF KnownRight, Known
<1>3. CASE run'.known = Known /\ run.known = None
  <2>1. Known <=> Linked /\ dst.live
    BY <1>3 DEF Known
  <2>2. run'.known = TRUE => Linked
    BY <1>3, <2>1
  <2>3. run'.known = FALSE => ~(Linked /\ dst.live)
    BY <1>3, <2>1
  <2> QED BY <2>2, <2>3 DEF KnownRight
<1> QED BY <1>1, <1>2, <1>3

LEMMA NothingKnown ==
  ASSUME SeriesAssumption, run' = None \/ run'.known = None
  PROVE  KnownRight'
BY DEF KnownRight, Running, SeriesAssumption

LEMMA StillOrphan ==
  ASSUME Orphan, src' = src, ~Linked' => ~Linked /\ (dst'.live => dst.live),
         dst'.key = dst.key, dst'.master = dst.master, dst'.occ = dst.occ
  PROVE  Orphan'
BY DEF Orphan

LEMMA LinkedOrphan ==
  ASSUME Linked' \/ ~dst'.live
  PROVE  Orphan'
BY DEF Orphan


\* A series that is ended does not come back.
LEMMA EndedStays ==
  ASSUME NEW d \in DestinationSeries
  PROVE  ~Surviving([d EXCEPT !.live = FALSE]).live
<1> DEFINE ended == [d EXCEPT !.live = FALSE]
<1>1. ended \in DestinationSeries /\ ~ended.live
  BY EndedFields
<1> HIDE DEF ended
<1>2. ~Surviving(ended).live
  BY <1>1, SurvivingFields DEF Visible
<1> QED BY <1>2 DEF ended

LEMMA KnownNext ==
  ASSUME SeriesAssumption, Typed, [Next]_vars, KnownRight
  PROVE  KnownRight'
<1>1. CASE UNCHANGED vars
  BY <1>1 DEF vars, store, cursors, KnownRight, Linked, Running
<1>2. CASE run' = None
  BY <1>2, NothingKnown
<1>3. CASE run' # None /\ SourceStep
  <2>1. CASE Running
    BY <1>3, <2>1, KnownRightKept DEF SourceStep, Noted, Linked
  <2>2. CASE ~Running
    BY <1>3, <2>2 DEF SourceStep
  <2> QED BY <2>1, <2>2
<1>4. CASE run' # None /\ DestinationStep
  BY <1>4 DEF DestinationStep, Linked, KnownRight, Running
<1>5. CASE HandleSeries \/ RepairSeries \/ \E s \in Starts : HandleException(s) \/ RepairOccurrence(s)
  <2>1. Still /\ Running /\ Knowing(run', run)
    BY <1>5, HandleSeriesStep, RepairSeriesStep, HandleExceptionStep, RepairOccurrenceStep
  <2> QED BY <2>1, KnownRightKept DEF Still, Linked, Knowing
<1>6. CASE SyncRemove /\ run' # None
  <2>1. Doing("sync") /\ Running /\ Kept(Done, run)
    BY <1>6, SyncRemoveStep, DoingStep
  <2>2. CASE Still /\ run' = Done
    BY <2>1, <2>2, KnownRightKept DEF Still, Linked, Kept
  <2>3. CASE ~(Still /\ run' = Done)
    <3> DEFINE r == [Done EXCEPT !.known = None]
    <3>1. r.known = None /\ Committed(None, [start \in Starts |-> None], FALSE, r)
      BY <1>6, <2>3, SyncRemoveStep DEF Lost
    <3> HIDE DEF r
    <3>2. run'.known = None
      BY <3>1 DEF Committed, Kept
    <3> QED BY <3>2, NothingKnown
  <2> QED BY <2>2, <2>3
<1>7. CASE SyncCreate \/ SyncUpdate
  BY <1>7, SyncCreateStep, SyncUpdateStep, NothingKnown DEF Lost
<1>8. CASE SyncDormant /\ run' # None
  <2> DEFINE r == [Done EXCEPT !.live = FALSE]
  <2>1. /\ Doing("sync") /\ r.known = run.known /\ dst \in DestinationSeries
        /\ \/ Still /\ run' = r
           \/ /\ mapping = None /\ dst' = Surviving([dst EXCEPT !.live = FALSE])
              /\ Committed(None, recorded, replays, r)
    BY <1>8, SyncDormantStep DEF Lost, Typed, TypeOK
  <2> HIDE DEF r
  <2>2. Running
    BY <2>1, DoingStep
  <2>3. CASE Still /\ run' = r
    BY <2>1, <2>2, <2>3, KnownRightKept DEF Still, Linked
  <2>4. CASE ~(Still /\ run' = r)
    <3>1. run'.known = run.known /\ mapping = None /\ mapping' = None
      BY <2>1, <2>4 DEF Committed, Kept
    <3>2. ~dst'.live
      BY <2>1, <2>4, EndedStays
    <3> QED BY <2>2, <3>1, <3>2, KnownRightKept DEF Linked
  <2> QED BY <2>3, <2>4
<1>9. CASE SyncCurrent
  <2>1. Doing("sync") /\ Running /\ Kept(Done, run)
    BY <1>9, SyncCurrentStep, DoingStep
  <2>2. /\ Kept(run', run) /\ dst' = dst
        /\ \/ mapping' = mapping
           \/ mapping # None /\ mapping' \in SeriesMapping /\ mapping'.linked = mapping.linked
    BY <1>9, <2>1, SyncCurrentStep DEF Still
  <2> QED BY <2>1, <2>2, KnownRightKept, NoneAssumption DEF Linked, Kept
<1>10. CASE ReverifyRecorded \/ ReplayExceptions
  BY <1>10, ReverifyRecordedStep, ReplayExceptionsStep, KnownRightKept DEF Still, Linked, Kept, Doing
<1>11. CASE CompleteRevision
  BY <1>11, CompleteRevisionStep, DoingStep, KnownRightKept, NoneAssumption DEF Linked, Kept
<1>12. CASE ReplayDone
  BY <1>12, ReplayDoneStep, DoingStep, KnownRightKept DEF Linked, Kept
<1>13. ASSUME NEW s \in Starts, RepairMissing(s)
       PROVE  KnownRight'
  BY <1>13, RepairMissingStep, KnownRightKept DEF Still, Linked, Doing
<1>14. ASSUME NEW s \in Starts, OccurrenceRefused(s)
       PROVE  KnownRight'
  BY <1>14, NothingKnown DEF OccurrenceRefused, Only
<1>15. ASSUME NEW s \in Starts, ApplyOccurrence(s), run' # None
       PROVE  KnownRight'
  <2>1. /\ Doing("decide") /\ s \in DOMAIN Item.wants /\ Outcomes(s)
        /\ run'.known = (IF mapping = None THEN run.known ELSE Known)
    BY <1>15, ApplyOccurrenceStep DEF Lost
  <2>2. mapping' = mapping /\ (dst'.live => dst.live)
    BY <2>1, OutcomesTyped
  <2> QED BY <2>1, <2>2, KnownRightKept DEF Linked, Doing
<1>16. CASE FinishReplay
  <2>1. Running /\ dst' = dst /\ mapping' = mapping /\ run'.known = run.known
    BY <1>16, FinishReplayStep DEF Kept
  <2> QED BY <2>1, KnownRightKept DEF Linked
<1>17. CASE AdvanceCursors \/ FailRun \/ SyncRefused
  BY <1>17, NothingKnown DEF AdvanceCursors, FailRun, SyncRefused, Only
<1>18. ASSUME NEW full \in BOOLEAN, StartRun(full)
       PROVE  KnownRight'
  BY <1>18, StartRunStep, NothingKnown
<1> QED BY <1>1, <1>2, <1>3, <1>4, <1>5, <1>6, <1>7, <1>8, <1>9, <1>10, <1>11, <1>12, <1>13, <1>14,
           <1>15, <1>16, <1>17, <1>18, Steps

LEMMA OrphanNext ==
  ASSUME SeriesAssumption, Typed, [Next]_vars, ReadEarlier, KnownRight, Orphan
  PROVE  Orphan'
<1>0. dst \in DestinationSeries /\ src \in SourceSeries
  BY DEF Typed, TypeOK
<1>1. CASE UNCHANGED vars
  BY <1>1 DEF vars, store, cursors, Orphan, Linked
<1>2. CASE SourceStep
  <2>1. /\ dst' = dst /\ (Linked' <=> Linked) /\ src' \in SourceSeries
        /\ src'.rev = src.rev + 1 \/ (src'.rev = src.rev /\ src'.master = src.master)
    BY <1>2 DEF SourceStep, Linked
  <2>2. dst.key \in Nat /\ src.rev \in Nat
    BY <1>0 DEF DestinationSeries, SourceSeries, SeriesAssumption
  <2> QED BY <2>1, <2>2 DEF Orphan
<1>3. CASE DestinationStep
  BY <1>3, LinkedOrphan DEF DestinationStep, Linked
<1>4. CASE HandleSeries \/ RepairSeries \/ \E s \in Starts : HandleException(s) \/ RepairOccurrence(s)
  <2>1. Still
    BY <1>4, HandleSeriesStep, RepairSeriesStep, HandleExceptionStep, RepairOccurrenceStep
  <2> QED BY <2>1, StillOrphan DEF Still, Linked
<1>5. CASE SyncRemove
  <2> DEFINE ended == [dst EXCEPT !.live = dst.live /\ ~mapping.linked]
  <2>1. \/ Still
        \/ /\ mapping # None /\ src' = src /\ dst' = Surviving(ended)
           /\ mapping' = None \/ mapping' = mapping
    BY <1>5, SyncRemoveStep DEF Bystanders, Committed, Lost, Creating
  <2>2. CASE Still
    BY <2>2, StillOrphan DEF Still, Linked
  <2>3. CASE ~Still
    <3>1. /\ ended \in DestinationSeries /\ (ended.live <=> dst.live /\ ~mapping.linked)
          /\ ended.master = dst.master /\ ended.key = dst.key /\ ended.occ = dst.occ
      <4> DEFINE b == dst.live /\ ~mapping.linked
      <4>1. b \in BOOLEAN
        OBVIOUS
      <4> HIDE DEF b
      <4>2. /\ [dst EXCEPT !.live = b] \in DestinationSeries /\ [dst EXCEPT !.live = b].live = b
            /\ [dst EXCEPT !.live = b].master = dst.master /\ [dst EXCEPT !.live = b].key = dst.key
            /\ [dst EXCEPT !.live = b].occ = dst.occ
        BY <1>0, <4>1, EndedFields
      <4> QED BY <4>2 DEF b
    <3> HIDE DEF ended
    <3>2. /\ dst'.key = dst.key /\ dst'.master = dst.master /\ dst'.occ = dst.occ
          /\ dst'.live => dst.live /\ ~mapping.linked
      BY <2>1, <2>3, <3>1, SurvivingFields DEF Visible
    <3> QED BY <2>1, <2>3, <3>2, StillOrphan DEF Linked, Orphan
  <2> QED BY <2>2, <2>3
<1>6. CASE SyncCreate
  <2>1. /\ Doing("sync") /\ Creating /\ Created(Item.series) \in DestinationSeries /\ src' = src
        /\ dst' = Surviving(IF Found THEN dst ELSE Created(Item.series))
        /\ Lost \/ mapping' = [linked |-> TRUE, rev |-> Item.series.rev, shown |-> Item.series.master]
    BY <1>6, SyncCreateStep DEF Bystanders
  <2>2. CASE ~Lost
    <3>1. mapping' \in SeriesMapping /\ mapping'.linked
      <4>1. Item.series \in SeriesRead /\ Item.series.master # "cancelled"
        BY <2>1, DoingStep DEF Creating
      <4> DEFINE m == [linked |-> TRUE, rev |-> Item.series.rev, shown |-> Item.series.master]
      <4>2. m \in SeriesMapping /\ m.linked
        BY <4>1 DEF SeriesMapping, SeriesRead
      <4>3. mapping' = m
        BY <2>1, <2>2
      <4> HIDE DEF m
      <4> QED BY <4>2, <4>3
    <3> QED BY <3>1, NoneAssumption, LinkedOrphan DEF Linked
  <2>3. CASE Found
    <3>1. ~Linked /\ dst' = Surviving(dst)
      BY <2>1, <2>3 DEF Found, Acknowledged
    <3> QED BY <1>0, <2>1, <3>1, SurvivingFields, StillOrphan DEF Visible
  <2>4. CASE ~Found
    <3> DEFINE next == Created(Item.series)
    <3>1. /\ next \in DestinationSeries /\ next.key = Item.series.rev /\ next.master = Item.series.master
          /\ \A start \in Starts : next.occ[start] = "follows"
      BY <2>1 DEF Created
    <3>2. Item.series.rev <= src.rev /\ (Item.series.rev = src.rev => Item.series.master = src.master)
      BY <2>1, DoingStep DEF ReadEarlier
    <3>3. dst' = Surviving(next)
      BY <2>1, <2>4
    <3> HIDE DEF next
    <3>4. dst'.key = next.key /\ dst'.master = next.master /\ dst'.occ = next.occ
      BY <3>1, <3>3, SurvivingFields
    <3> QED BY <2>1, <3>1, <3>2, <3>4 DEF Orphan
  <2> QED BY <2>2, <2>3, <2>4
<1>7. CASE SyncDormant
  <2>1. Still \/ dst' = Surviving([dst EXCEPT !.live = FALSE])
    BY <1>7, SyncDormantStep
  <2>2. CASE Still
    BY <2>2, StillOrphan DEF Still, Linked
  <2>3. CASE ~Still
    <3>1. ~dst'.live
      BY <1>0, <2>1, <2>3, EndedStays
    <3> QED BY <3>1, LinkedOrphan
  <2> QED BY <2>2, <2>3
<1>8. CASE SyncUpdate
  <2> DEFINE m == [mapping EXCEPT !.rev = Revision(Item.series), !.shown = Item.series.master]
  <2>1. /\ Doing("sync") /\ Actual # None /\ mapping # None /\ Linked
        /\ m \in SeriesMapping /\ m.linked = mapping.linked
        /\ Lost \/ mapping' = m
    BY <1>8, SyncUpdateStep
  <2> HIDE DEF m
  <2>2. Lost => mapping' = mapping
    BY <2>1 DEF Lost, Creating
  <2> QED BY <2>1, <2>2, NoneAssumption, LinkedOrphan DEF Linked
<1>9. CASE SyncCurrent \/ CompleteRevision
  <2>1. /\ src' = src /\ dst' = dst
        /\ \/ mapping' = mapping
           \/ mapping # None /\ mapping' \in SeriesMapping /\ mapping'.linked = mapping.linked
    BY <1>9, SyncCurrentStep, CompleteRevisionStep DEF Still
  <2> QED BY <2>1, NoneAssumption, StillOrphan DEF Linked
<1>10. CASE ReverifyRecorded \/ ReplayExceptions \/ ReplayDone \/ FinishReplay
  BY <1>10, ReverifyRecordedStep, ReplayExceptionsStep, ReplayDoneStep, FinishReplayStep, StillOrphan
     DEF Still, Linked
<1>11. ASSUME NEW s \in Starts, RepairMissing(s) \/ OccurrenceRefused(s)
       PROVE  Orphan'
  <2>1. Still
    BY <1>11, RepairMissingStep DEF OccurrenceRefused, Only, store, cursors, Still
  <2> QED BY <2>1, StillOrphan DEF Still, Linked
<1>12. ASSUME NEW s \in Starts, ApplyOccurrence(s)
       PROVE  Orphan'
  <2>1. Doing("decide") /\ s \in DOMAIN Item.wants /\ src' = src
    BY <1>12, ApplyOccurrenceStep DEF Bystanders
  <2>2. /\ mapping' = mapping
        /\ dst' = dst \/ Outcome(s) \in {"update", "cancel"}
    <3>1. ~Creating
      BY <2>1 DEF Creating, Doing
    <3> QED BY <1>12, <3>1, ApplyOccurrenceStep DEF Outcomes, Lost
  <2>3. CASE dst' = dst
    BY <2>1, <2>2, <2>3, StillOrphan DEF Linked
  <2>4. CASE Outcome(s) \in {"update", "cancel"}
    <3>1. Known
      BY <2>4, OutcomeWas
    <3>2. Linked
      BY <2>1, <3>1 DEF Known, KnownRight, Doing
    <3> QED BY <2>2, <3>2, LinkedOrphan DEF Linked
  <2> QED BY <2>2, <2>3, <2>4
<1>13. CASE AdvanceCursors \/ FailRun \/ SyncRefused \/ \E full \in BOOLEAN : StartRun(full)
  <2>1. src' = src /\ dst' = dst /\ mapping' = mapping
    BY <1>13, StartRunStep DEF AdvanceCursors, FailRun, SyncRefused, Only, store, cursors
  <2> QED BY <2>1, StillOrphan DEF Linked
<1> QED BY <1>1, <1>2, <1>3, <1>4, <1>5, <1>6, <1>7, <1>8, <1>9, <1>10, <1>11, <1>12, <1>13, Steps


-----------------------------------------------------------------------------
(***************************************************************************)
(* A full pass that nobody disturbs.  It opens with the series itself, and *)
(* what it does after that never opens it again.                           *)
(***************************************************************************)
Quiet == Running /\ run.full /\ run.calm /\ run.srcSince = {}

Opening ==
  \/ "series" \in run.srcTodo
  \/ run.handled = {"series"} /\ Doing("sync") /\ Tail(run.agenda) = <<>>

SeriesFirst ==
  Running /\ run.full =>
    /\ "series" \in run.srcTodo => run.handled = {} /\ run.agenda = <<>>
    /\ "series" \notin run.srcTodo => "series" \in run.handled
    /\ Doing("sync") => Item.actual = "fresh"

\* Everything an exception was ever made of is still to be read.
Opened ==
  Quiet /\ Opening =>
    /\ run.live = None /\ ~run.repaired
    /\ \A start \in Starts : dst.occ[start] # "follows" => start \in run.dstTodo
    /\ Exceptions \subseteq run.srcTodo

LiveRight ==
  Quiet /\ src.master # "cancelled" =>
    \/ run.live = None
    \/ run.live = TRUE /\ Calling
    \/ run.live = FALSE /\ ~Calling

\* What all steps of a full pass have in common once it has begun with the series.
Onward ==
  /\ run' \in Runs /\ Alike(run', run) /\ src' = src
  /\ "series" \notin run'.srcTodo /\ run.handled \subseteq run'.handled
  /\ run'.live = run.live \/ run'.live \in LiveAnswers
  /\ \/ \A item \in ItemsOf(run'.agenda) : item.do # "sync"
     \/ /\ run'.agenda # <<>> /\ Head(run'.agenda).actual = "fresh" /\ Tail(run'.agenda) # <<>>
        /\ \A item \in ItemsOf(Tail(run'.agenda)) : item.do # "sync"

LEMMA OpenedByTheSeries ==
  ASSUME SeriesAssumption, Typed, Run, SeriesFirst, run.full, "series" \in run.srcTodo
  PROVE  HandleSeries
<1>1. Running /\ run.agenda = <<>> /\ run.srcTodo # {}
  <2>1. Running
    BY DEF Run, HandleSeries, RepairSeries, HandleException, RepairOccurrence, Free,
           SyncRemove, SyncCreate, SyncDormant, SyncUpdate, SyncRefused, SyncCurrent,
           ReverifyRecorded, CompleteRevision, ReplayExceptions, ReplayDone,
           RepairMissing, OccurrenceRefused, ApplyOccurrence, Doing, FinishReplay, Ended
  <2> QED BY <2>1 DEF SeriesFirst
<1>2. ASSUME NEW what PROVE ~Doing(what)
  BY <1>1 DEF Doing
<1>3. /\ ~RepairSeries /\ ~FinishReplay
      /\ \A start \in Starts : ~HandleException(start) /\ ~RepairOccurrence(start)
  BY <1>1 DEF RepairSeries, RepairOccurrence, HandleException, FinishReplay, Ended
<1>4. /\ ~SyncRemove /\ ~SyncCreate /\ ~SyncDormant /\ ~SyncUpdate /\ ~SyncRefused /\ ~SyncCurrent
      /\ ~ReverifyRecorded /\ ~CompleteRevision /\ ~ReplayExceptions /\ ~ReplayDone
  BY <1>2 DEF SyncRemove, SyncCreate, SyncDormant, SyncUpdate, SyncRefused, SyncCurrent,
              ReverifyRecorded, CompleteRevision, ReplayExceptions, ReplayDone
<1>5. \A start \in Starts : ~RepairMissing(start) /\ ~OccurrenceRefused(start) /\ ~ApplyOccurrence(start)
  BY <1>2 DEF RepairMissing, OccurrenceRefused, ApplyOccurrence
<1> QED BY <1>3, <1>4, <1>5 DEF Run

LEMMA RunOnward ==
  ASSUME SeriesAssumption, Typed, Run, run' \in Runs, SeriesFirst, run.full, "series" \notin run.srcTodo
  PROVE  Onward
<1>1. Running => "series" \in run.handled /\ run \in Runs
  BY RunTyped DEF SeriesFirst, Typed
<1>2. run' # None
  BY NoneAssumption
<1>3. ASSUME NEW item \in Items
      PROVE  ItemsOf(<<item>>) = {item}
  BY ItemsOfOne
<1>4. CASE HandleSeries
  BY <1>4, HandleSeriesStep
<1>5. ASSUME NEW s \in Starts, HandleException(s)
      PROVE  Onward
  <2>1. /\ Running /\ Still /\ Alike(run', run) /\ Knowing(run', run)
        /\ run'.srcTodo = run.srcTodo \ {s} /\ run.handled \subseteq run'.handled
        /\ run'.agenda = <<>> \/ run'.agenda = <<Wanted(s)>>
        /\ Wanted(s) \in Items
    BY <1>1, <1>5, HandleExceptionStep
  <2>2. \A item \in ItemsOf(run'.agenda) : item.do # "sync"
    <3>1. Wanted(s).do = "decide"
      BY DEF Wanted, Decide
    <3>2. ItemsOf(<<Wanted(s)>>) = {Wanted(s)}
      BY <1>3, <2>1
    <3>3. CASE run'.agenda = <<>>
      BY <3>3, ItemsOfNone
    <3>4. CASE run'.agenda = <<Wanted(s)>>
      <4>1. ItemsOf(run'.agenda) = {Wanted(s)}
        BY <3>2, <3>4, Zenon
      <4> QED BY <3>1, <4>1
    <3> QED BY <2>1, <3>3, <3>4
  <2> QED BY <2>1, <2>2 DEF Onward, Still, Knowing
<1>6. CASE RepairSeries
  <2>1. /\ Running /\ Still /\ Alike(run', run) /\ Knowing(run', run)
        /\ run'.srcTodo = run.srcTodo /\ run.handled \subseteq run'.handled
        /\ run'.agenda = <<>>
    BY <1>1, <1>6, RepairSeriesStep
  <2> QED BY <2>1, ItemsOfNone DEF Onward, Still, Knowing
<1>7. ASSUME NEW s \in Starts, RepairOccurrence(s)
      PROVE  Onward
  <2>1. /\ Running /\ Still /\ Alike(run', run) /\ Knowing(run', run)
        /\ run'.srcTodo = run.srcTodo /\ run.handled \subseteq run'.handled
        /\ run'.agenda = <<>> \/ run'.agenda = <<Repeated(s)>>
        /\ Repeated(s) \in Items
    BY <1>7, RepairOccurrenceStep
  <2>2. \A item \in ItemsOf(run'.agenda) : item.do # "sync"
    <3>1. Repeated(s).do = "decide"
      BY DEF Repeated, Decide
    <3>2. ItemsOf(<<Repeated(s)>>) = {Repeated(s)}
      BY <1>3, <2>1
    <3>3. CASE run'.agenda = <<>>
      BY <3>3, ItemsOfNone
    <3>4. CASE run'.agenda = <<Repeated(s)>>
      <4>1. ItemsOf(run'.agenda) = {Repeated(s)}
        BY <3>2, <3>4, Zenon
      <4> QED BY <3>1, <4>1
    <3> QED BY <2>1, <3>3, <3>4
  <2> QED BY <2>1, <2>2 DEF Onward, Still, Knowing
<1>8. CASE SyncRemove
  <2>1. Doing("sync") /\ run' # None
    BY <1>2, <1>8, SyncRemoveStep
  <2>2. /\ Running /\ Kept(Done, run) /\ Done.agenda = Tail(run.agenda)
        /\ \A item \in ItemsOf(Tail(run.agenda)) : item.do # "sync"
    BY <2>1, DoingStep
  <2>3. CASE Still /\ run' = Done
    BY <2>2, <2>3 DEF Onward, Still, Kept
  <2>4. CASE ~(Still /\ run' = Done)
    <3> DEFINE r == [Done EXCEPT !.known = None]
    <3>1. /\ r.srcTodo = run.srcTodo /\ r.handled = run.handled /\ r.live = run.live
          /\ r.agenda = Tail(run.agenda) /\ Alike(r, run)
          /\ Committed(None, [start \in Starts |-> None], FALSE, r) /\ src' = src
      BY <1>8, <2>1, <2>4, SyncRemoveStep DEF Lost, Bystanders
    <3> HIDE DEF r
    <3> QED BY <2>2, <3>1 DEF Onward, Committed, Kept, Alike
  <2> QED BY <2>3, <2>4
<1>9. CASE SyncCreate
  <2>1. /\ Doing("sync") /\ src' = src /\ Alike(run', run) /\ run'.srcTodo = run.srcTodo
        /\ run'.handled = run.handled /\ run'.live = TRUE /\ TRUE \in LiveAnswers
        /\ ItemsOf(run'.agenda) =
             {Then("reverify", Item.series), Then("complete", Item.series)}
               \cup (IF run.full THEN {} ELSE {Then("replay", Item.series)})
               \cup ItemsOf(Tail(run.agenda))
    BY <1>2, <1>9, SyncCreateStep DEF Lost, Bystanders
  <2>2. \A item \in ItemsOf(Tail(run.agenda)) : item.do # "sync"
    BY <2>1, DoingStep
  <2>3. \A item \in ItemsOf(run'.agenda) : item.do # "sync"
    BY <2>1, <2>2 DEF Then
  <2>4. run'.live \in LiveAnswers
    BY <2>1
  <2> QED BY <2>1, <2>3, <2>4 DEF Onward
<1>10. CASE SyncDormant
  <2> DEFINE r == [Done EXCEPT !.live = FALSE]
  <2>1. /\ Doing("sync") /\ FALSE \in LiveAnswers /\ r \in Runs /\ Alike(r, run) /\ r.srcTodo = run.srcTodo
        /\ r.handled = run.handled /\ r.live = FALSE /\ r.agenda = Tail(run.agenda)
        /\ \/ Still /\ run' = r
           \/ Bystanders /\ (Committed(None, recorded, replays, r) \/ Lost)
    BY <1>10, SyncDormantStep
  <2>2. \A item \in ItemsOf(Tail(run.agenda)) : item.do # "sync"
    BY <2>1, DoingStep
  <2>3. r.live \in LiveAnswers
    BY <2>1
  <2> HIDE DEF r
  <2>4. src' = src /\ (run' = r \/ (Kept(run', r) /\ run'.agenda = r.agenda))
    BY <1>2, <2>1 DEF Still, Bystanders, Committed, Lost
  <2> QED BY <2>1, <2>2, <2>3, <2>4 DEF Onward, Kept, Alike
<1>11. CASE SyncUpdate
  <2>1. /\ Doing("sync") /\ src' = src /\ Alike(run', run) /\ run'.srcTodo = run.srcTodo
        /\ run'.handled = run.handled /\ run'.live = run.live
        /\ ItemsOf(run'.agenda) =
             {Then("reverify", Item.series), Then("complete", Item.series)} \cup ItemsOf(Tail(run.agenda))
    BY <1>2, <1>11, SyncUpdateStep DEF Lost, Bystanders
  <2>2. \A item \in ItemsOf(Tail(run.agenda)) : item.do # "sync"
    BY <2>1, DoingStep
  <2>3. \A item \in ItemsOf(run'.agenda) : item.do # "sync"
    BY <2>1, <2>2 DEF Then
  <2> QED BY <2>1, <2>3 DEF Onward
<1>12. CASE SyncCurrent
  <2>1. Doing("sync")
    BY <1>12, SyncCurrentStep
  <2>2. /\ Kept(Done, run) /\ Done.agenda = Tail(run.agenda)
        /\ \A item \in ItemsOf(Tail(run.agenda)) : item.do # "sync"
    BY <2>1, DoingStep
  <2>3. src' = src /\ Kept(run', run)
    BY <1>12, <2>2, SyncCurrentStep DEF Still
  <2>4. \A item \in ItemsOf(run'.agenda) : item.do # "sync"
    BY <1>12, <2>2, SyncCurrentStep DEF Then
  <2> QED BY <2>3, <2>4 DEF Onward, Kept
<1>13. CASE SyncRefused \/ \E s \in Starts : OccurrenceRefused(s)
  BY <1>2, <1>13 DEF SyncRefused, OccurrenceRefused, Only
<1>14. CASE ReverifyRecorded
  <2>1. /\ Doing("reverify") /\ src' = src /\ Kept(run', run)
        /\ \/ run'.agenda = Tail(run.agenda)
           \/ \E item \in Items : /\ item.do = "decide"
                                  /\ ItemsOf(run'.agenda) = {item} \cup ItemsOf(Tail(run.agenda))
    BY <1>14, ReverifyRecordedStep DEF Still
  <2>2. \A item \in ItemsOf(Tail(run.agenda)) : item.do # "sync"
    BY <2>1, DoingStep
  <2> QED BY <2>1, <2>2 DEF Onward, Kept
<1>15. CASE CompleteRevision \/ ReplayDone
  <2>1. Doing("complete") \/ Doing("replayed")
    BY <1>15, CompleteRevisionStep, ReplayDoneStep
  <2>2. /\ Kept(Done, run) /\ Done.agenda = Tail(run.agenda)
        /\ \A item \in ItemsOf(Tail(run.agenda)) : item.do # "sync"
    BY <2>1, DoingStep
  <2>3. run' = Done /\ src' = src
    BY <1>15, CompleteRevisionStep, ReplayDoneStep
  <2> QED BY <2>2, <2>3 DEF Onward, Kept
<1>16. CASE ReplayExceptions
  <2>1. /\ Doing("replay") /\ src' = src /\ Kept(run', run)
        /\ \/ ItemsOf(run'.agenda) = {Then("replayed", Item.series)} \cup ItemsOf(Tail(run.agenda))
           \/ \E item \in Items :
                /\ item.do = "decide"
                /\ ItemsOf(run'.agenda) = {item, Then("replayed", Item.series)} \cup ItemsOf(Tail(run.agenda))
    BY <1>16, ReplayExceptionsStep DEF Still
  <2>2. \A item \in ItemsOf(Tail(run.agenda)) : item.do # "sync"
    BY <2>1, DoingStep
  <2>3. \A item \in ItemsOf(run'.agenda) : item.do # "sync"
    BY <2>1, <2>2 DEF Then
  <2> QED BY <2>1, <2>3 DEF Onward, Kept
<1>17. ASSUME NEW s \in Starts, RepairMissing(s)
       PROVE  Onward
  <2>1. /\ Doing("decide") /\ s \in DOMAIN Item.wants /\ src' = src /\ Alike(run', run)
        /\ run'.srcTodo = run.srcTodo /\ run.handled \subseteq run'.handled /\ run'.live \in LiveAnswers
    BY <1>17, RepairMissingStep DEF Still
  <2>2. /\ \A item \in ItemsOf(Tail(run.agenda)) : item.do # "sync"
        /\ Rest(s).do = "decide" /\ Again(s).do = "decide"
    BY <2>1, DoingStep, RestFields DEF Again, Decide
  <2>3. \A item \in {Again(s)} \cup RestItems(s) : item.do # "sync"
    BY <2>2 DEF RestItems
  <2>4. \/ ItemsOf(run'.agenda) = {Again(s)} \cup RestItems(s)
        \/ /\ run'.agenda # <<>> /\ Head(run'.agenda) = Sync(Item.series, "fresh")
           /\ ItemsOf(Tail(run'.agenda)) = {Again(s)} \cup RestItems(s)
           /\ Tail(run'.agenda) # <<>>
    BY <1>17, RepairMissingStep
  <2>5. Sync(Item.series, "fresh").actual = "fresh"
    BY DEF Sync
  <2> QED BY <2>1, <2>3, <2>4, <2>5 DEF Onward
<1>18. ASSUME NEW s \in Starts, ApplyOccurrence(s)
       PROVE  Onward
  <2>1. /\ Doing("decide") /\ s \in DOMAIN Item.wants /\ src' = src /\ Alike(run', run)
        /\ run'.srcTodo = run.srcTodo /\ run.handled \subseteq run'.handled /\ run'.live = run.live
        /\ ItemsOf(run'.agenda) = RestItems(s)
    BY <1>2, <1>18, ApplyOccurrenceStep DEF Bystanders, Lost
  <2>2. /\ \A item \in ItemsOf(Tail(run.agenda)) : item.do # "sync"
        /\ Rest(s).do = "decide"
    BY <2>1, DoingStep, RestFields
  <2> QED BY <2>1, <2>2 DEF Onward, RestItems
<1>19. CASE FinishReplay
  <2>1. run' = run /\ src' = src /\ run.agenda = <<>>
    BY <1>19, FinishReplayStep
  <2> QED BY <2>1, ItemsOfNone DEF Onward, Alike
<1> QED BY <1>4, <1>5, <1>6, <1>7, <1>8, <1>9, <1>10, <1>11, <1>12, <1>13, <1>14, <1>15, <1>16, <1>17,
           <1>18, <1>19 DEF Run

LEMMA OnwardCloses ==
  ASSUME SeriesAssumption, Typed, Onward, SeriesFirst, LiveRight, Running, run.full, "series" \notin run.srcTodo
  PROVE  SeriesFirst' /\ ~Opening' /\ LiveRight'
<1>1. run' \in Runs /\ run' # None /\ run'.agenda \in Seq(Items)
  BY NoneAssumption DEF Onward, Runs
<1>2. run'.agenda # <<>> => Head(run'.agenda) \in ItemsOf(run'.agenda)
  BY <1>1, ItemsOfTail
<1>3. Doing("sync")' => /\ Head(run'.agenda).actual = "fresh"
                        /\ Tail(run'.agenda) # <<>>
  BY <1>2 DEF Onward, Doing, Item
<1>4. "series" \in run'.handled
  BY DEF SeriesFirst, Onward
<1>5. SeriesFirst'
  BY <1>3, <1>4 DEF SeriesFirst, Item, Onward
<1>6. ~Opening'
  BY <1>3 DEF Opening, Onward
<1>7. LiveRight'
  <2>1. CASE ~(Quiet' /\ src'.master # "cancelled")
    BY <2>1 DEF LiveRight
  <2>2. CASE Quiet' /\ src'.master # "cancelled"
    <3>1. src' = src /\ Quiet /\ src.master # "cancelled"
      BY <2>2 DEF Quiet, Onward, Alike
    <3>2. Calling' <=> Calling
      BY <3>1 DEF Calling, Calls
    <3>3. CASE run'.live = run.live
      BY <3>1, <3>2, <3>3 DEF LiveRight
    <3>4. CASE run'.live \in LiveAnswers
      <4>1. PICK answer \in LiveAnswers : answer = run'.live
        BY <3>4
      <4>2. /\ answer \in BOOLEAN
            /\ run.live # None => answer = run.live
            /\ run.live = None => (answer <=> Calling)
        BY <3>1, LiveAnswered
      <4>3. CASE run.live # None
        BY <3>1, <3>2, <4>1, <4>2, <4>3 DEF LiveRight
      <4>4. CASE run.live = None /\ Calling
        <5>1. answer = TRUE
          BY <4>2, <4>4
        <5> QED BY <3>2, <4>1, <4>4, <5>1 DEF LiveRight
      <4>5. CASE run.live = None /\ ~Calling
        <5>1. answer = FALSE
          BY <4>2, <4>5
        <5> QED BY <3>2, <4>1, <4>5, <5>1 DEF LiveRight
      <4> QED BY <4>3, <4>4, <4>5
    <3> QED BY <3>3, <3>4 DEF Onward
  <2> QED BY <2>1, <2>2
<1> QED BY <1>5, <1>6, <1>7

\* The series is taken up, and nothing else has happened yet.
LEMMA OpeningKept ==
  ASSUME SeriesAssumption, Typed, HandleSeries, run.full, SeriesFirst, Opened, LiveRight
  PROVE  SeriesFirst' /\ Opened' /\ LiveRight' /\ (Quiet' => Opening')
<1>1. /\ Still /\ Running /\ run.agenda = <<>> /\ "series" \in run.srcTodo
      /\ run' \in Runs /\ Alike(run', run) /\ Knowing(run', run)
      /\ run'.srcTodo = run.srcTodo \ {"series"} /\ run'.dstTodo = run.dstTodo
      /\ run'.handled = run.handled \cup {"series"}
      /\ run'.agenda = <<Sync(Read(run.srcSaw), "fresh")>>
  BY HandleSeriesStep
<1> DEFINE sync == Sync(Read(run.srcSaw), "fresh")
<1>2. sync.do = "sync" /\ sync.actual = "fresh"
  BY DEF Sync
<1> HIDE DEF sync
<1>3. run'.agenda = <<sync>>
  BY <1>1 DEF sync
<1>4. Head(<<sync>>) = sync /\ Tail(<<sync>>) = <<>> /\ <<sync>> # <<>>
  BY ItemsOfOne
<1>5. Head(run'.agenda) = sync /\ Tail(run'.agenda) = <<>> /\ run'.agenda # <<>>
  BY <1>3, <1>4, Zenon
<1>6. run'.handled = {"series"} /\ run' # None
  BY <1>1, NoneAssumption DEF SeriesFirst
<1>7. SeriesFirst'
  BY <1>1, <1>2, <1>5, <1>6 DEF SeriesFirst, Item
<1>8. Opening' /\ Opening
  BY <1>1, <1>2, <1>5, <1>6 DEF Opening, Doing, Item, Running
<1>9. Quiet' => Quiet
  BY <1>1 DEF Quiet, Alike
<1>10. Opened'
  <2> SUFFICES ASSUME Quiet' PROVE Opened'
    BY DEF Opened
  <2>1. /\ run.live = None /\ ~run.repaired
        /\ \A start \in Starts : dst.occ[start] # "follows" => start \in run.dstTodo
        /\ Exceptions \subseteq run.srcTodo
    BY <1>8, <1>9 DEF Opened
  <2>2. Exceptions' = Exceptions /\ "series" \notin Exceptions
    BY <1>1 DEF Exceptions, Still, SeriesAssumption
  <2> QED BY <1>1, <2>1, <2>2 DEF Opened, Still, Knowing
<1>11. LiveRight'
  BY <1>1, <1>9 DEF LiveRight, Knowing, Still, Calling, Calls
<1> QED BY <1>7, <1>8, <1>10, <1>11

\* How a full pass starts.
LEMMA StartOpens ==
  ASSUME SeriesAssumption, Typed, NEW full \in BOOLEAN, StartRun(full)
  PROVE  SeriesFirst' /\ Opened' /\ LiveRight' /\ (Quiet' => Opening')
<1>1. /\ run' \in Runs /\ src' = src /\ dst' = dst /\ run'.live = None /\ ~run'.repaired
      /\ run'.full = full /\ run'.handled = {} /\ run'.agenda = <<>>
      /\ full => run'.srcTodo = Listed(src.occ) /\ run'.dstTodo = Listed(dst.occ)
  BY StartRunStep
<1>2. ~Doing("sync")'
  BY <1>1 DEF Doing
<1>3. full => "series" \in run'.srcTodo
  BY <1>1 DEF Listed
<1>4. SeriesFirst' /\ LiveRight'
  BY <1>1, <1>2, <1>3 DEF SeriesFirst, LiveRight
<1>5. Quiet' => Opening'
  BY <1>1, <1>3 DEF Quiet, Opening
<1>6. Opened'
  <2> SUFFICES ASSUME Quiet' PROVE Opened'
    BY DEF Opened
  <2>1. full
    BY <1>1 DEF Quiet
  <2>2. ASSUME NEW start \in Starts, dst.occ[start] # "follows"
        PROVE  start \in run'.dstTodo
    BY <1>1, <2>1, <2>2 DEF Listed
  <2>3. ASSUME NEW start \in Exceptions PROVE start \in run'.srcTodo
    <3>1. src.occ[start] # "follows" /\ start \in Starts
      BY DEF Exceptions, SourceView
    <3> QED BY <1>1, <2>1, <3>1 DEF Listed
  <2>4. Exceptions' = Exceptions
    BY <1>1 DEF Exceptions
  <2> QED BY <1>1, <2>2, <2>3, <2>4 DEF Opened
<1> QED BY <1>4, <1>5, <1>6


-----------------------------------------------------------------------------
(***************************************************************************)
(* What holds of an undisturbed full pass once it has synchronised the     *)
(* series: where the destination series stands, and which of its           *)
(* occurrences the pass has still to decide.                               *)
(***************************************************************************)
Pending(start) == \E item \in Decisions : start \in DOMAIN item.wants
PendingCurrent(start) == \E item \in Decisions : item.current /\ start \in DOMAIN item.wants

Placed ==
  /\ mapping # None => src.master # "cancelled"
  /\ Calling => Linked
  /\ Linked /\ (Calling \/ dst.live) => dst.master = src.master

\* A series that is gone went with its last occurrence.
Bereft == ~dst.live => \A start \in Starts : Calls(start) => dst.occ[start] = "cancelled"

CancelledDue ==
  \A start \in Starts : Calls(start) /\ dst.occ[start] = "cancelled" =>
    Pending(start) \/ start \in run.dstTodo \ run.handled

RepairedOnce ==
  /\ Doing("sync") => run.repaired /\ ~dst.live
  /\ run.repaired =>
       Calling /\ (Doing("sync") \/ \A start \in Starts : Calls(start) => dst.occ[start] # "cancelled")
  /\ \A item \in Decisions : item.again => run.live # None /\ (run.live = TRUE => run.repaired)

ExceptionsDue ==
  \A start \in Exceptions :
    /\ start \in run.srcTodo \cup run.handled \/ PendingCurrent(start)
    /\ start \in run.handled =>
         PendingCurrent(start) \/ recorded[start] # None \/ start \in skipped \/ ~(Linked /\ dst.live)

\* A repair does not record what it finds as it should be.
RepeatsOnly == \A item \in Decisions : ~item.current => DOMAIN item.wants \cap Exceptions = {}

Passed == Placed /\ Bereft /\ CancelledDue /\ RepairedOnce /\ ExceptionsDue /\ RepeatsOnly

Passing == Quiet /\ ~Opening => Passed

\* What a quiet run read is what the source still shows.
LEMMA QuietReads ==
  ASSUME ReadStill, Quiet
  PROVE  /\ Running /\ Read(run.srcSaw) = Read(src)
         /\ \A item \in Asked : item.series.master = src.master /\ item.series.rev = src.rev
         /\ \A start \in Starts :
              /\ SourceView(run.srcSaw, start) = SourceView(src, start)
              /\ \A item \in Decisions :
                   start \in DOMAIN item.wants => item.wants[start] = SourceView(src, start)
<1>1. /\ Running /\ Read(run.srcSaw) = Read(src) /\ \A item \in Asked : item.series = Read(src)
      /\ \A start \in Starts :
           /\ run.srcSaw.occ[start] = src.occ[start]
           /\ \A item \in Decisions :
                start \in DOMAIN item.wants => item.wants[start] = SourceView(src, start)
  BY DEF Quiet, ReadStill
<1>2. run.srcSaw.master = src.master
  BY <1>1 DEF Read
<1>3. \A start \in Starts : SourceView(run.srcSaw, start) = SourceView(src, start)
  BY <1>1, <1>2, StillViewed
<1>4. \A item \in Asked : item.series.master = src.master /\ item.series.rev = src.rev
  BY <1>1 DEF Read
<1> QED BY <1>1, <1>3, <1>4

LEMMA CalledRecurs ==
  ASSUME Typed, NEW start \in Starts, Calls(start)
  PROVE  src.master \in Masters /\ start \in Recurs[src.master]
BY DEF Calls, SourceView, Hidden, Typed, TypeOK, SourceSeries

\* A destination series of the content the source has only ends with what it shows.
LEMMA WrittenBereft ==
  ASSUME SeriesAssumption, Typed, NEW d \in DestinationSeries, d.live, d.master = src.master,
         dst' = Surviving(d), src' = src
  PROVE  Bereft'
<1> SUFFICES ASSUME ~dst'.live, NEW start \in Starts, Calls(start)
             PROVE  dst'.occ[start] = "cancelled"
  BY DEF Bereft, Calls
<1>1. src.master \in Masters /\ start \in Recurs[src.master]
  BY CalledRecurs
<1>2. dst'.occ = d.occ /\ DestinationView(d, start) \in Hidden
  BY SurvivingFields DEF Visible
<1>3. d.occ[start] # "follows"
  BY <1>1, <1>2 DEF DestinationView, Hidden, SeriesAssumption
<1>4. d.occ[start] \in Hidden /\ d.occ[start] \in Contents \cup {"follows", "cancelled"}
  BY <1>2, <1>3 DEF DestinationView, DestinationSeries
<1>5. "absent" \notin Contents
  BY DEF Contents, SeriesAssumption
<1> QED BY <1>2, <1>3, <1>4, <1>5 DEF Hidden

LEMMA CreatedLives ==
  ASSUME SeriesAssumption, Typed, NEW d \in DestinationSeries, d.live, d.master = src.master,
         \A start \in Starts : d.occ[start] = "follows", Calling
  PROVE  Surviving(d).live
<1>1. PICK start \in Starts : Calls(start)
  BY DEF Calling
<1>2. src.master \in Masters /\ start \in Recurs[src.master]
  BY <1>1, CalledRecurs
<1>3. DestinationView(d, start) \notin Hidden
  BY <1>2 DEF DestinationView, Hidden, SeriesAssumption
<1> QED BY <1>3, SurvivingFields DEF Visible

LEMMA OpenedPasses ==
  ASSUME SeriesAssumption, Typed, Opened, Quiet, Opening, run.handled = {"series"}, src' = src,
         run' \in Runs, run'.handled = run.handled, run'.srcTodo = run.srcTodo, run'.repaired = run.repaired,
         \A item \in ItemsOf(run'.agenda) : item.do # "sync" /\ item.do # "decide",
         Placed', Bereft',
         \A start \in Starts : Calls(start) /\ dst'.occ[start] = "cancelled" => start \in run'.dstTodo
  PROVE  Passed'
<1>1. ~run.repaired /\ Exceptions \subseteq run.srcTodo
  BY DEF Opened
<1>2. Decisions' = {}
  BY DEF Decisions, Asked
<1>3. ~Doing("sync")'
  <2>1. run'.agenda # <<>> => Head(run'.agenda) \in ItemsOf(run'.agenda)
    BY ItemsOfTail DEF Runs
  <2> QED BY <2>1 DEF Doing, Item
<1>4. CancelledDue'
  BY DEF CancelledDue, Calls, SeriesAssumption
<1>5. RepairedOnce'
  BY <1>1, <1>2, <1>3 DEF RepairedOnce
<1>6. ExceptionsDue'
  <2>1. Exceptions' = Exceptions /\ "series" \notin Exceptions
    BY DEF Exceptions, SeriesAssumption
  <2> QED BY <1>1, <2>1 DEF ExceptionsDue
<1>7. RepeatsOnly'
  BY <1>2 DEF RepeatsOnly
<1> QED BY <1>4, <1>5, <1>6, <1>7 DEF Passed

\* What the series is created as, or found again as.
LEMMA CreatesPlaced ==
  ASSUME SeriesAssumption, Typed, ReadStill, Orphan, Quiet, SyncCreate, run' \in Runs, Calling
  PROVE  /\ Placed' /\ Bereft' /\ dst'.live
         /\ \A start \in Starts : dst'.occ[start] = "follows"
<1>1. /\ Doing("sync") /\ Creating /\ Created(Item.series) \in DestinationSeries /\ src' = src
      /\ dst' = Surviving(IF Found THEN dst ELSE Created(Item.series))
      /\ mapping' = [linked |-> TRUE, rev |-> Item.series.rev, shown |-> Item.series.master]
  BY SyncCreateStep, NoneAssumption DEF Bystanders, Lost
<1>2. /\ Item.series.master = src.master /\ Item.series.rev = src.rev
      /\ Item.series \in SeriesRead /\ Item.series.master # "cancelled"
  BY <1>1, QuietReads, DoingStep DEF Creating
<1> DEFINE m == [linked |-> TRUE, rev |-> Item.series.rev, shown |-> Item.series.master]
<1>3. m \in SeriesMapping /\ m.linked
  BY <1>2 DEF SeriesMapping, SeriesRead
<1>4. mapping' = m
  BY <1>1
<1> HIDE DEF m
<1>5. Linked' /\ mapping' # None
  BY <1>3, <1>4, NoneAssumption DEF Linked
<1>6. PICK d : d = IF Found THEN dst ELSE Created(Item.series)
  OBVIOUS
<1>7. d \in DestinationSeries /\ d.live /\ d.master = src.master /\ \A start \in Starts : d.occ[start] = "follows"
  <2>1. CASE Found
    <3>1. dst.live /\ ~Linked /\ dst.key = src.rev
      BY <1>2, <2>1 DEF Found, Acknowledged
    <3> QED BY <1>6, <2>1, <3>1 DEF Orphan, Typed, TypeOK
  <2>2. CASE ~Found
    <3>1. d = Created(Item.series)
      BY <1>6, <2>2
    <3> QED BY <1>1, <1>2, <3>1 DEF Created
  <2> QED BY <2>1, <2>2
<1>8. dst' = Surviving(d)
  BY <1>1, <1>6
<1>9. dst'.live /\ dst'.occ = d.occ /\ dst'.master = d.master
  BY <1>7, <1>8, CreatedLives, SurvivingFields
<1>10. Bereft'
  BY <1>1, <1>7, <1>8, WrittenBereft
<1>11. Placed'
  BY <1>1, <1>2, <1>5, <1>7, <1>9 DEF Placed
<1> QED BY <1>7, <1>9, <1>10, <1>11


LEMMA PassOpens ==
  ASSUME SeriesAssumption, Typed, ReadStill, Orphan, SeriesFirst, Opened, Quiet, Opening,
         "series" \notin run.srcTodo, Run, run' \in Runs
  PROVE  Passed'
<1>1. /\ Running /\ run.handled = {"series"} /\ Doing("sync") /\ Tail(run.agenda) = <<>>
      /\ run.live = None /\ run.full /\ Item.actual = "fresh" /\ run' # None
      /\ \A start \in Starts : dst.occ[start] # "follows" => start \in run.dstTodo
  BY NoneAssumption DEF Quiet, Opening, Opened, SeriesFirst
<1>2. /\ ItemsOf(Tail(run.agenda)) = {} /\ run.agenda # <<>> /\ Item.do = "sync"
      /\ Kept(Done, run) /\ Done.agenda = Tail(run.agenda)
      /\ Item.series.master = src.master /\ Item.series.rev = src.rev /\ Item.series \in SeriesRead
  BY <1>1, ItemsOfNone, DoingStep, QuietReads
<1>3. /\ dst \in DestinationSeries /\ src \in SourceSeries
      /\ mapping \in SeriesMapping \cup {None}
  BY DEF Typed, TypeOK
<1>4. ASSUME src.master = "cancelled", NEW start \in Starts PROVE ~Calls(start)
  BY <1>4 DEF Calls, SourceView, Hidden
<1>5. ASSUME \A item \in ItemsOf(run'.agenda) : item.do # "sync" /\ item.do # "decide",
             src' = src, run'.handled = run.handled, run'.srcTodo = run.srcTodo, run'.repaired = run.repaired,
             Placed', Bereft',
             \A start \in Starts : Calls(start) /\ dst'.occ[start] = "cancelled" => start \in run'.dstTodo
      PROVE  Passed'
  BY <1>1, <1>5, OpenedPasses
<1>6. CASE SyncRemove
  <2>1. src.master = "cancelled"
    BY <1>2, <1>6, SyncRemoveStep
  <2>2. \A start \in Starts : ~Calls(start)
    BY <1>4, <2>1
  <2>3. /\ run'.handled = run.handled /\ run'.srcTodo = run.srcTodo /\ run'.repaired = run.repaired
        /\ ItemsOf(run'.agenda) = {} /\ src' = src /\ mapping' = None
    <3>1. CASE Still /\ run' = Done /\ mapping = None
      BY <1>2, <3>1 DEF Still, Kept
    <3>2. CASE ~(Still /\ run' = Done /\ mapping = None)
      <4> DEFINE r == [Done EXCEPT !.known = None]
      <4>1. /\ r.srcTodo = run.srcTodo /\ r.handled = run.handled /\ r.repaired = run.repaired
            /\ r.agenda = Tail(run.agenda)
            /\ Committed(None, [start \in Starts |-> None], FALSE, r) /\ src' = src
        BY <1>1, <1>6, <3>2, SyncRemoveStep DEF Lost, Bystanders
      <4> HIDE DEF r
      <4> QED BY <1>2, <4>1 DEF Committed, Kept
    <3> QED BY <3>1, <3>2
  <2>4. Placed' /\ Bereft'
    BY <2>2, <2>3 DEF Placed, Bereft, Calling, Calls, Linked
  <2> QED BY <1>5, <2>2, <2>3, <2>4
<1>7. CASE SyncCreate
  <2>1. /\ TRUE \in LiveAnswers /\ Creating /\ src' = src /\ run'.srcTodo = run.srcTodo
        /\ run'.handled = run.handled /\ run'.repaired = run.repaired
        /\ ItemsOf(run'.agenda) = {Then("reverify", Item.series), Then("complete", Item.series)}
    BY <1>1, <1>2, <1>7, SyncCreateStep DEF Lost, Bystanders
  <2>2. Calling
    BY <1>1, <1>2, <2>1, LiveAnswered DEF Creating
  <2>3. Placed' /\ Bereft' /\ \A start \in Starts : dst'.occ[start] = "follows"
    BY <1>7, <2>2, CreatesPlaced
  <2>4. \A item \in ItemsOf(run'.agenda) : item.do # "sync" /\ item.do # "decide"
    BY <2>1 DEF Then
  <2> QED BY <1>5, <2>1, <2>3, <2>4
<1>8. CASE SyncDormant
  <2> DEFINE r == [Done EXCEPT !.live = FALSE]
  <2>1. /\ Creating /\ FALSE \in LiveAnswers /\ r \in Runs /\ r.srcTodo = run.srcTodo
        /\ r.handled = run.handled /\ r.repaired = run.repaired /\ r.agenda = Tail(run.agenda)
        /\ \/ Still /\ run' = r
           \/ Bystanders /\ mapping = None /\ Committed(None, recorded, replays, r)
    BY <1>1, <1>8, SyncDormantStep DEF Lost
  <2> HIDE DEF r
  <2>2. src' = src /\ (run' = r \/ (Kept(run', r) /\ run'.agenda = r.agenda))
    BY <2>1 DEF Still, Bystanders, Committed
  <2>3. src.master # "cancelled" /\ Actual = None
    BY <1>2, <2>1 DEF Creating
  <2>4. ~Calling
    BY <1>1, <2>1, <2>3, LiveAnswered
  <2>5. ~(Linked /\ dst.live)
    BY <1>1, <2>3, ActualTyped
  <2>6. Placed'
    <3>1. CASE Still
      BY <2>3, <2>4, <2>5, <3>1 DEF Placed, Still, Linked, Calling, Calls
    <3>2. CASE ~Still
      BY <2>1, <2>2, <2>4, <3>2 DEF Placed, Committed, Linked, Calling, Calls
    <3> QED BY <3>1, <3>2
  <2>7. Bereft'
    BY <2>2, <2>4 DEF Bereft, Calling, Calls
  <2> QED BY <1>2, <1>5, <2>1, <2>2, <2>4, <2>6, <2>7 DEF Kept, Calling
<1>9. CASE SyncUpdate
  <2> DEFINE next == Reshaped(dst, Item.series.master)
             m == [mapping EXCEPT !.rev = Revision(Item.series), !.shown = Item.series.master]
  <2>1. /\ Item.series.master \in Masters /\ dst.live /\ Linked /\ mapping # None
        /\ m \in SeriesMapping /\ m.linked = mapping.linked /\ mapping' = m
        /\ src' = src /\ dst' = Surviving(next)
        /\ run'.srcTodo = run.srcTodo /\ run'.dstTodo = run.dstTodo
        /\ run'.handled = run.handled /\ run'.repaired = run.repaired
        /\ ItemsOf(run'.agenda) = {Then("reverify", Item.series), Then("complete", Item.series)}
    BY <1>1, <1>2, <1>9, SyncUpdateStep DEF Lost, Bystanders
  <2> HIDE DEF m
  <2>2. \A item \in ItemsOf(run'.agenda) : item.do # "sync" /\ item.do # "decide"
    BY <2>1 DEF Then
  <2>3. /\ next \in DestinationSeries /\ next.live = dst.live /\ next.master = src.master
        /\ next.occ = [start \in Starts |-> IF start \in Recurs[src.master] THEN dst.occ[start] ELSE "follows"]
    <3>1. src.master \in Masters /\ next = Reshaped(dst, src.master)
      BY <1>2, <2>1
    <3> HIDE DEF next
    <3> QED BY <1>3, <3>1, ReshapedDestination
  <2> HIDE DEF next
  <2>4. Bereft'
    BY <2>1, <2>3, WrittenBereft
  <2>5. dst'.master = src.master /\ dst'.occ = next.occ
    BY <2>1, <2>3, SurvivingFields
  <2>6. Placed'
    <3>1. mapping' # None /\ mapping'.linked
      BY <2>1, NoneAssumption DEF Linked
    <3> QED BY <1>2, <2>1, <2>5, <3>1 DEF Placed, Linked
  <2>7. ASSUME NEW start \in Starts, Calls(start), dst'.occ[start] = "cancelled"
        PROVE  start \in run'.dstTodo
    <3>1. start \in Recurs[src.master]
      BY <2>7, CalledRecurs
    <3>2. dst.occ[start] = "cancelled"
      BY <2>3, <2>5, <2>7, <3>1
    <3> QED BY <1>1, <2>1, <3>2
  <2> QED BY <1>5, <2>1, <2>2, <2>4, <2>6, <2>7
<1>10. CASE SyncCurrent
  <2> DEFINE m == [mapping EXCEPT !.rev = Revision(Item.series), !.shown = Item.series.master]
  <2>0. /\ Actual = Item.series.master /\ Actual # None /\ mapping # None /\ Linked
        /\ Item.series.master \in Masters
        /\ \/ Still /\ run' = Done
           \/ /\ m \in SeriesMapping /\ m.linked = mapping.linked /\ mapping' = m
              /\ src' = src /\ dst' = dst /\ Kept(run', run)
              /\ ItemsOf(run'.agenda) = {Then("reverify", Item.series), Then("complete", Item.series)}
                                          \cup ItemsOf(Tail(run.agenda))
    BY <1>10, SyncCurrentStep
  <2> HIDE DEF m
  <2>1. /\ src' = src /\ dst' = dst /\ Kept(run', run)
        /\ \A item \in ItemsOf(run'.agenda) : item.do # "sync" /\ item.do # "decide"
        /\ mapping' = mapping \/ (mapping' \in SeriesMapping /\ mapping'.linked = mapping.linked)
    <3>1. CASE Still /\ run' = Done
      BY <1>2, <3>1 DEF Still
    <3>2. CASE ~(Still /\ run' = Done)
      BY <1>2, <2>0, <3>2 DEF Then
    <3> QED BY <3>1, <3>2
  <2>2. dst.live /\ dst.master = src.master
    BY <1>1, <1>2, <2>0, ActualTyped
  <2>3. mapping' # None /\ Linked'
    BY <2>0, <2>1, NoneAssumption DEF Linked
  <2>4. Placed' /\ Bereft'
    BY <1>2, <2>0, <2>1, <2>2, <2>3 DEF Placed, Bereft
  <2> QED BY <1>1, <1>5, <2>1, <2>4 DEF Kept
<1>11. ~HandleSeries /\ ~RepairSeries /\ ~FinishReplay
       /\ \A start \in Starts : ~HandleException(start) /\ ~RepairOccurrence(start)
  BY <1>2 DEF HandleSeries, RepairSeries, RepairOccurrence, HandleException, FinishReplay, Ended, Free
<1>12. ASSUME NEW what, what # "sync" PROVE ~Doing(what)
  BY <1>2, <1>12 DEF Doing
<1>13. /\ ~ReverifyRecorded /\ ~CompleteRevision /\ ~ReplayExceptions /\ ~ReplayDone
       /\ \A start \in Starts : ~RepairMissing(start) /\ ~OccurrenceRefused(start) /\ ~ApplyOccurrence(start)
  BY <1>12 DEF ReverifyRecorded, CompleteRevision, ReplayExceptions, ReplayDone,
               RepairMissing, OccurrenceRefused, ApplyOccurrence
<1>14. ~SyncRefused
  BY <1>1 DEF SyncRefused, Only
<1> QED BY <1>6, <1>7, <1>8, <1>9, <1>10, <1>11, <1>13, <1>14 DEF Run


(***************************************************************************)
(* What a step that only asks leaves as it is.                             *)
(***************************************************************************)
LEMMA StillPlaced ==
  ASSUME Placed, src' = src, mapping' = None <=> mapping = None, Linked' <=> Linked,
         dst'.master = dst.master, dst'.live => dst.live
  PROVE  Placed'
BY DEF Placed, Calling, Calls

LEMMA NotDoing ==
  ASSUME run' \in Runs, NEW what, \A item \in ItemsOf(run'.agenda) : item.do # what
  PROVE  ~Doing(what)'
<1>1. run'.agenda # <<>> => Head(run'.agenda) \in ItemsOf(run'.agenda)
  BY ItemsOfTail DEF Runs
<1> QED BY <1>1 DEF Doing, Item

LEMMA NothingPending ==
  ASSUME run.agenda = <<>>, NEW start
  PROVE  ~Pending(start) /\ ~PendingCurrent(start) /\ Decisions = {} /\ \A what : ~Doing(what)
BY ItemsOfNone DEF Pending, PendingCurrent, Decisions, Asked, Doing

LEMMA TailPending ==
  ASSUME Asked = {Item} \cup ItemsOf(Tail(run.agenda)), Item.do # "decide",
         ItemsOf(Tail(run.agenda)) \subseteq ItemsOf(run'.agenda), NEW start
  PROVE  (Pending(start) => Pending(start)') /\ (PendingCurrent(start) => PendingCurrent(start)')
<1>1. Decisions \subseteq Decisions'
  BY DEF Decisions, Asked
<1>2. Pending(start) => Pending(start)'
  BY <1>1 DEF Pending
<1>3. PendingCurrent(start) => PendingCurrent(start)'
  BY <1>1 DEF PendingCurrent
<1> QED BY <1>2, <1>3

LEMMA AskedPasses ==
  ASSUME Passed, src' = src, dst' = dst, mapping' = None <=> mapping = None, Linked' <=> Linked,
         recorded' = recorded, skipped' = skipped,
         run'.live = run.live, run'.repaired = run.repaired, run'.handled = run.handled,
         ~Doing("sync"), ~Doing("sync")',
         \A start \in Starts : (Pending(start) => Pending(start)')
                               /\ (PendingCurrent(start) => PendingCurrent(start)'),
         \A start \in Exceptions :
           start \in run.srcTodo => start \in run'.srcTodo \cup run.handled \/ PendingCurrent(start)',
         \A start \in Starts :
           Calls(start) /\ start \in run.dstTodo \ run.handled => start \in run'.dstTodo \/ Pending(start)',
         \A item \in Decisions' :
           \/ item \in Decisions
           \/ ~item.again /\ (item.current \/ DOMAIN item.wants \cap Exceptions = {})
  PROVE  Passed'
<1>1. Exceptions' = Exceptions /\ Exceptions \subseteq Starts /\ \A start \in Starts : Calls(start)' <=> Calls(start)
  BY DEF Exceptions, Calls
<1>2. Placed'
  BY StillPlaced DEF Passed
<1>3. Bereft'
  BY <1>1 DEF Passed, Bereft
<1>4. CancelledDue'
  BY <1>1 DEF Passed, CancelledDue
<1>5. RepairedOnce'
  <2>1. Calling' <=> Calling
    BY <1>1 DEF Calling
  <2>2. run'.repaired => Calling' /\ \A start \in Starts : Calls(start)' => dst'.occ[start] # "cancelled"
    BY <1>1, <2>1 DEF Passed, RepairedOnce
  <2>3. \A item \in Decisions' : item.again => run'.live # None /\ (run'.live = TRUE => run'.repaired)
    BY DEF Passed, RepairedOnce
  <2> QED BY <2>2, <2>3 DEF RepairedOnce
<1>6. ExceptionsDue'
  BY <1>1 DEF Passed, ExceptionsDue
<1>7. RepeatsOnly'
  BY <1>1 DEF Passed, RepeatsOnly
<1> QED BY <1>2, <1>3, <1>4, <1>5, <1>6, <1>7 DEF Passed

LEMMA AnsweredRight ==
  ASSUME Typed, Quiet, LiveRight, src.master # "cancelled", NEW live \in LiveAnswers
  PROVE  (live = TRUE /\ Calling) \/ (live = FALSE /\ ~Calling)
<1>1. /\ Running /\ live \in BOOLEAN
      /\ run.live # None => live = run.live
      /\ run.live = None => (live <=> Calling)
  BY LiveAnswered DEF Quiet
<1>2. CASE run.live # None
  BY <1>1, <1>2 DEF LiveRight
<1>3. CASE run.live = None /\ Calling
  BY <1>1, <1>3
<1>4. CASE run.live = None /\ ~Calling
  BY <1>1, <1>4
<1> QED BY <1>2, <1>3, <1>4


-----------------------------------------------------------------------------
(***************************************************************************)
(* A full pass goes on: the feeds, and what follows a written series.      *)
(***************************************************************************)
LEMMA OnePending ==
  ASSUME NEW item \in Items, item.do = "decide", run'.agenda = <<item>>
  PROVE  /\ Decisions' = {item} /\ \A what : what # "decide" => ~Doing(what)'
         /\ \A start \in DOMAIN item.wants : Pending(start)' /\ (item.current => PendingCurrent(start)')
<1>1. ItemsOf(<<item>>) = {item} /\ Head(<<item>>) = item
  BY ItemsOfOne
<1>2. ItemsOf(run'.agenda) = {item} /\ Head(run'.agenda) = item
  BY <1>1, Zenon
<1>3. Decisions' = {item}
  BY <1>2 DEF Decisions, Asked
<1>4. ASSUME NEW what, what # "decide" PROVE ~Doing(what)'
  BY <1>2, <1>4 DEF Doing, Item
<1>5. ASSUME NEW start \in DOMAIN item.wants
      PROVE  Pending(start)' /\ (item.current => PendingCurrent(start)')
  BY <1>3 DEF Pending, PendingCurrent
<1> QED BY <1>3, <1>4, <1>5

LEMMA PassHandles ==
  ASSUME SeriesAssumption, Typed, ReadStill, SeriesFirst, Quiet, "series" \notin run.srcTodo, Passed,
         RepairSeries \/ \E start \in Starts : HandleException(start) \/ RepairOccurrence(start)
  PROVE  Passed'
<1>1. Running /\ run.full /\ "series" \in run.handled
  BY DEF Quiet, SeriesFirst
<1>2. \A start \in Starts : SourceView(run.srcSaw, start) = SourceView(src, start)
  BY QuietReads
<1>3. \A start \in Exceptions : start \in Starts /\ SourceView(src, start) # "absent"
  BY DEF Exceptions
<1>4. ASSUME Still, Knowing(run', run), run'.srcTodo \subseteq run.srcTodo, run'.handled = run.handled,
             run.agenda = <<>>, ~Doing("sync")',
             \A item \in Decisions' : ~item.again /\ (item.current \/ DOMAIN item.wants \cap Exceptions = {}),
             \A start \in Exceptions :
               start \in run.srcTodo => start \in run'.srcTodo \cup run.handled \/ PendingCurrent(start)',
             \A start \in Starts :
               Calls(start) /\ start \in run.dstTodo \ run.handled => start \in run'.dstTodo \/ Pending(start)'
      PROVE  Passed'
  <2>1. ~Doing("sync") /\ \A start \in Starts : ~Pending(start) /\ ~PendingCurrent(start)
    BY <1>4, NothingPending
  <2>2. (mapping' = None <=> mapping = None) /\ (Linked' <=> Linked)
    BY <1>4 DEF Still, Linked
  <2> QED BY <1>4, <2>1, <2>2, AskedPasses DEF Still, Knowing
<1>5. run'.agenda = <<>> => Decisions' = {} /\ ~Doing("sync")'
  BY ItemsOfNone DEF Decisions, Asked, Doing
<1>6. CASE RepairSeries
  <2>1. /\ Still /\ run.agenda = <<>> /\ Knowing(run', run)
        /\ run'.srcTodo = run.srcTodo /\ run'.dstTodo = run.dstTodo \ {"series"}
        /\ run'.handled = run.handled /\ run'.agenda = <<>>
    BY <1>1, <1>6, RepairSeriesStep
  <2> QED BY <1>3, <1>4, <1>5, <2>1 DEF SeriesAssumption
<1>7. ASSUME NEW start \in Starts, HandleException(start)
      PROVE  Passed'
  <2>1. /\ Still /\ run.agenda = <<>> /\ Knowing(run', run)
        /\ run'.srcTodo = run.srcTodo \ {start} /\ run'.dstTodo = run.dstTodo /\ run'.handled = run.handled
        /\ Wanted(start) \in Items
        /\ \/ /\ start \in run.handled \/ SourceView(run.srcSaw, start) = "absent"
              /\ run'.agenda = <<>>
           \/ run'.agenda = <<Wanted(start)>>
    BY <1>1, <1>7, HandleExceptionStep
  <2>2. CASE run'.agenda = <<>> /\ (start \in run.handled \/ SourceView(run.srcSaw, start) = "absent")
    <3>1. start \in Exceptions => start \in run.handled
      BY <1>2, <1>3, <2>2
    <3> QED BY <1>3, <1>4, <1>5, <2>1, <2>2, <3>1
  <2>3. CASE run'.agenda = <<Wanted(start)>>
    <3>1. /\ Wanted(start).do = "decide" /\ Wanted(start).current /\ ~Wanted(start).again
          /\ DOMAIN Wanted(start).wants = {start}
      BY DEF Wanted, Decide, At
    <3>2. Decisions' = {Wanted(start)} /\ ~Doing("sync")' /\ Pending(start)' /\ PendingCurrent(start)'
      BY <2>1, <2>3, <3>1, OnePending
    <3> QED BY <1>3, <1>4, <2>1, <3>1, <3>2
  <2> QED BY <2>1, <2>2, <2>3
<1>8. ASSUME NEW start \in Starts, RepairOccurrence(start)
      PROVE  Passed'
  <2>1. /\ Still /\ run.agenda = <<>> /\ Knowing(run', run) /\ run.srcTodo = {}
        /\ run'.srcTodo = run.srcTodo /\ run'.dstTodo = run.dstTodo \ {start} /\ run'.handled = run.handled
        /\ Repeated(start) \in Items
        /\ \/ /\ run'.agenda = <<>>
              /\ ~Linked \/ start \in run.handled
           \/ run'.agenda = <<Repeated(start)>> /\ start \notin run.handled
    BY <1>1, <1>8, RepairOccurrenceStep DEF Linked
  <2>2. CASE run'.agenda = <<>> /\ (~Linked \/ start \in run.handled)
    <3>1. Calls(start) => start \in run.handled
      BY <2>2 DEF Passed, Placed, Calling
    <3> QED BY <1>3, <1>4, <1>5, <2>1, <2>2, <3>1
  <2>3. CASE run'.agenda = <<Repeated(start)>> /\ start \notin run.handled
    <3>1. /\ Repeated(start).do = "decide" /\ ~Repeated(start).again
          /\ DOMAIN Repeated(start).wants = {start}
      BY DEF Repeated, Decide, At
    <3>2. Decisions' = {Repeated(start)} /\ ~Doing("sync")' /\ Pending(start)'
      BY <2>1, <2>3, <3>1, OnePending
    <3>3. start \notin Exceptions
      <4>1. ~PendingCurrent(start)
        BY <2>1, NothingPending
      <4> QED BY <2>1, <2>3, <4>1 DEF Passed, ExceptionsDue
    <3> QED BY <1>3, <1>4, <2>1, <3>1, <3>2, <3>3
  <2> QED BY <2>1, <2>2, <2>3
<1> QED BY <1>6, <1>7, <1>8

LEMMA PassFollows ==
  ASSUME SeriesAssumption, Typed, run' \in Runs, Passed, Quiet,
         ReverifyRecorded \/ CompleteRevision \/ ReplayExceptions \/ ReplayDone \/ FinishReplay
  PROVE  Passed'
<1>1. ASSUME NEW what \in {"reverify", "complete", "replay", "replayed"}, Doing(what),
             src' = src, dst' = dst, mapping' = None <=> mapping = None, Linked' <=> Linked,
             recorded' = recorded, skipped' = skipped, Kept(run', run),
             ItemsOf(Tail(run.agenda)) \subseteq ItemsOf(run'.agenda),
             \A item \in ItemsOf(run'.agenda) :
               \/ item \in ItemsOf(Tail(run.agenda))
               \/ item.do = "replayed" \/ (item.do = "decide" /\ item.current /\ ~item.again)
      PROVE  Passed'
  <2>1. /\ Item.do = what /\ Asked = {Item} \cup ItemsOf(Tail(run.agenda))
        /\ \A item \in ItemsOf(Tail(run.agenda)) : item.do # "sync"
    BY <1>1, DoingStep
  <2>2. \A start \in Starts : (Pending(start) => Pending(start)') /\ (PendingCurrent(start) => PendingCurrent(start)')
    BY <1>1, <2>1, TailPending
  <2>3. ~Doing("sync")'
    BY <1>1, <2>1, NotDoing
  <2>4. \A item \in Decisions' : item \in Decisions \/ (~item.again /\ item.current)
    BY <1>1, <2>1 DEF Decisions, Asked
  <2>5. ~Doing("sync")
    BY <1>1 DEF Doing
  <2>6. Exceptions \subseteq Starts
    BY DEF Exceptions
  <2> QED BY <1>1, <2>2, <2>3, <2>4, <2>5, <2>6, AskedPasses DEF Kept
<1>2. CASE ReverifyRecorded
  <2>1. /\ Doing("reverify") /\ Still /\ Kept(run', run)
        /\ \/ run'.agenda = Tail(run.agenda)
           \/ \E item \in Items :
                /\ item.do = "decide" /\ item.current /\ ~item.again
                /\ ItemsOf(run'.agenda) = {item} \cup ItemsOf(Tail(run.agenda))
    BY <1>2, ReverifyRecordedStep
  <2> QED BY <1>1, <2>1 DEF Still, Linked
<1>3. CASE CompleteRevision
  <2>1. /\ Doing("complete") /\ run' = Done
        /\ UNCHANGED <<src, dst, recorded, replays, synced, due, srcNews, dstNews, skipped, left>>
        /\ \/ mapping = None /\ mapping' = None
           \/ /\ mapping # None /\ mapping' \in SeriesMapping
              /\ mapping'.linked = mapping.linked
    BY <1>3, CompleteRevisionStep
  <2>2. Kept(run', run) /\ run'.agenda = Tail(run.agenda)
    BY <2>1, DoingStep
  <2>3. (mapping' = None <=> mapping = None) /\ (Linked' <=> Linked)
    BY <2>1, NoneAssumption DEF Linked
  <2> QED BY <1>1, <2>1, <2>2, <2>3
<1>4. CASE ReplayExceptions
  <2>1. /\ Doing("replay") /\ Still /\ Kept(run', run)
        /\ \/ ItemsOf(run'.agenda) = {Then("replayed", Item.series)} \cup ItemsOf(Tail(run.agenda))
           \/ \E item \in Items :
                /\ item.do = "decide" /\ item.current /\ ~item.again
                /\ ItemsOf(run'.agenda) =
                     {item, Then("replayed", Item.series)} \cup ItemsOf(Tail(run.agenda))
    BY <1>4, ReplayExceptionsStep
  <2>2. Then("replayed", Item.series).do = "replayed"
    BY DEF Then
  <2> QED BY <1>1, <2>1, <2>2 DEF Still, Linked
<1>5. CASE ReplayDone
  <2>1. /\ Doing("replayed") /\ run' = Done
        /\ UNCHANGED <<src, dst, mapping, recorded, synced, due, srcNews, dstNews, skipped, left>>
    BY <1>5, ReplayDoneStep
  <2>2. Kept(run', run) /\ run'.agenda = Tail(run.agenda)
    BY <2>1, DoingStep
  <2> QED BY <1>1, <2>1, <2>2 DEF Linked
<1>6. CASE FinishReplay
  <2>1. /\ run' = run /\ run.agenda = <<>>
        /\ UNCHANGED <<src, dst, mapping, recorded, synced, due, srcNews, dstNews, skipped, left>>
    BY <1>6, FinishReplayStep DEF Quiet
  <2>2. ~Doing("sync") /\ ~Doing("sync")' /\ Decisions' = Decisions
        /\ \A start \in Starts : ~Pending(start) /\ ~PendingCurrent(start)
    BY <2>1, NothingPending DEF Doing, Decisions, Asked
  <2>3. Exceptions \subseteq Starts
    BY DEF Exceptions
  <2> QED BY <2>1, <2>2, <2>3, AskedPasses DEF Linked
<1> QED BY <1>2, <1>3, <1>4, <1>5, <1>6

\* A series that a repair of the pass recreates.
LEMMA PassCreates ==
  ASSUME SeriesAssumption, Typed, ReadStill, Orphan, SeriesFirst, LiveRight, Quiet, Passed, run' \in Runs,
         SyncRemove \/ SyncCreate \/ SyncDormant \/ SyncUpdate \/ SyncRefused \/ SyncCurrent
  PROVE  Passed'
<1>1. /\ Running /\ run.full /\ run' # None /\ Doing("sync")
  BY NoneAssumption, SyncRemoveStep, SyncCreateStep, SyncDormantStep, SyncUpdateStep, SyncCurrentStep
     DEF Quiet, SyncRefused
<1>2. /\ Item.actual = "fresh" /\ run.repaired /\ ~dst.live /\ Calling
      /\ Item.series.master = src.master /\ Item.series.master # None
      /\ Asked = {Item} \cup ItemsOf(Tail(run.agenda)) /\ Item.do = "sync"
      /\ \A item \in ItemsOf(Tail(run.agenda)) : item.do # "sync"
  <2>1. Item \in Asked /\ Item.series \in SeriesRead
    BY <1>1, DoingStep
  <2>2. Item.series.master # None
    BY <2>1, NoneAssumption DEF SeriesRead, SeriesAssumption
  <2> QED BY <1>1, <2>1, <2>2, DoingStep, QuietReads DEF SeriesFirst, Passed, RepairedOnce
<1>3. Linked /\ mapping # None /\ src.master # "cancelled" /\ Actual = None
  BY <1>2 DEF Passed, Placed, Linked, Actual
<1>4. ~SyncRemove /\ ~SyncUpdate /\ ~SyncRefused /\ ~SyncCurrent
  BY <1>1, <1>2, <1>3 DEF SyncRemove, SyncUpdate, SyncRefused, SyncCurrent
<1>5. ~SyncDormant
  <2> SUFFICES ASSUME SyncDormant PROVE FALSE
    OBVIOUS
  <2>1. FALSE \in LiveAnswers
    BY SyncDormantStep
  <2> QED BY <1>2, <1>3, <2>1, AnsweredRight
<1>6. SyncCreate
  BY <1>4, <1>5
<1>7. /\ src' = src /\ run'.srcTodo = run.srcTodo /\ run'.handled = run.handled
      /\ run'.repaired = run.repaired /\ run'.live = TRUE /\ recorded' = recorded
      /\ skipped' = skipped \cup (run.handled \cap Starts)
      /\ ItemsOf(run'.agenda) =
           {Then("reverify", Item.series), Then("complete", Item.series)} \cup ItemsOf(Tail(run.agenda))
  BY <1>1, <1>6, SyncCreateStep DEF Lost, Bystanders
<1>8. Placed' /\ Bereft' /\ \A start \in Starts : dst'.occ[start] = "follows"
  BY <1>2, <1>6, CreatesPlaced
<1>9. \A item \in ItemsOf(run'.agenda) : item.do # "sync"
  BY <1>2, <1>7 DEF Then
<1>10. ~Doing("sync")'
  BY <1>9, NotDoing
<1>11. \A start : PendingCurrent(start) => PendingCurrent(start)'
  BY <1>2, <1>7, TailPending
<1>12. Decisions' = Decisions /\ Exceptions' = Exceptions /\ Exceptions \subseteq Starts /\ (Calling' <=> Calling)
  BY <1>2, <1>7 DEF Decisions, Asked, Exceptions, Calling, Calls, Then
<1>13. CancelledDue'
  BY <1>8 DEF CancelledDue
<1>14. RepairedOnce'
  <2>1. run'.repaired /\ Calling' /\ run'.live # None
    BY <1>2, <1>7, <1>12 DEF SeriesAssumption
  <2>2. \A start \in Starts : dst'.occ[start] # "cancelled"
    BY <1>8
  <2> QED BY <1>10, <2>1, <2>2 DEF RepairedOnce
<1>15. ExceptionsDue'
  BY <1>7, <1>11, <1>12 DEF Passed, ExceptionsDue
<1>16. RepeatsOnly'
  BY <1>12 DEF Passed, RepeatsOnly
<1> QED BY <1>8, <1>13, <1>14, <1>15, <1>16 DEF Passed


-----------------------------------------------------------------------------
(***************************************************************************)
(* A full pass decides an occurrence.                                      *)
(***************************************************************************)
\* What is left of the agenda is what was asked for, but for the occurrence that was decided.
LEMMA RestPending ==
  ASSUME Typed, Doing("decide"), NEW start \in DOMAIN Item.wants, run' \in Runs
  PROVE  /\ \A item \in RestItems(start) :
              \/ item \in Decisions
              \/ item.do # "decide" /\ item.do # "sync"
              \/ /\ item.do = "decide" /\ item.current = Item.current /\ item.again = Item.again
                 /\ DOMAIN item.wants \subseteq DOMAIN Item.wants
         /\ Item \in Decisions
         /\ RestItems(start) \subseteq ItemsOf(run'.agenda) =>
              \A s \in Starts \ {start} :
                (Pending(s) => Pending(s)') /\ (PendingCurrent(s) => PendingCurrent(s)')
<1>1. /\ Asked = {Item} \cup ItemsOf(Tail(run.agenda)) /\ Item.do = "decide"
      /\ \A item \in ItemsOf(Tail(run.agenda)) : item.do # "sync"
  BY DoingStep
<1>2. /\ Rest(start).do = "decide" /\ Rest(start).current = Item.current /\ Rest(start).again = Item.again
      /\ DOMAIN Rest(start).wants = DOMAIN Item.wants \ {start}
  BY RestFields
<1>3. Item \in Decisions /\ \A item \in ItemsOf(Tail(run.agenda)) : item.do = "decide" => item \in Decisions
  BY <1>1 DEF Decisions
<1>4. \A item \in RestItems(start) :
        \/ item \in Decisions
        \/ item.do # "decide" /\ item.do # "sync"
        \/ /\ item.do = "decide" /\ item.current = Item.current /\ item.again = Item.again
           /\ DOMAIN item.wants \subseteq DOMAIN Item.wants
  BY <1>1, <1>2, <1>3 DEF RestItems
<1>5. ASSUME RestItems(start) \subseteq ItemsOf(run'.agenda), NEW s \in Starts \ {start}
      PROVE  (Pending(s) => Pending(s)') /\ (PendingCurrent(s) => PendingCurrent(s)')
  <2>1. ASSUME NEW item \in Decisions, s \in DOMAIN item.wants
        PROVE  \E later \in Decisions' : s \in DOMAIN later.wants /\ later.current = item.current
    <3>1. CASE item \in ItemsOf(Tail(run.agenda))
      <4>1. item \in Decisions'
        BY <1>5, <3>1 DEF RestItems, Decisions, Asked
      <4> QED BY <2>1, <4>1
    <3>2. CASE item = Item
      <4>1. s \in DOMAIN Item.wants \ {start} /\ DOMAIN Item.wants # {start}
        BY <1>5, <2>1, <3>2
      <4>2. Rest(start) \in ItemsOf(run'.agenda)
        BY <1>5, <4>1 DEF RestItems
      <4>3. Rest(start) \in Decisions'
        BY <1>2, <4>2 DEF Decisions, Asked
      <4> QED BY <1>2, <3>2, <4>1, <4>3
    <3> QED BY <1>1, <3>1, <3>2 DEF Decisions
  <2>2. Pending(s) => Pending(s)'
    BY <2>1 DEF Pending
  <2>3. PendingCurrent(s) => PendingCurrent(s)'
    <3>1. ASSUME NEW item \in Decisions, item.current, s \in DOMAIN item.wants
          PROVE  PendingCurrent(s)'
      <4>1. PICK later \in Decisions' : s \in DOMAIN later.wants /\ later.current = item.current
        BY <2>1, <3>1
      <4>2. later.current
        BY <3>1, <4>1
      <4> QED BY <4>1, <4>2 DEF PendingCurrent
    <3> QED BY <3>1 DEF PendingCurrent
  <2> QED BY <2>2, <2>3
<1> QED BY <1>3, <1>4, <1>5

\* What is decided in a quiet pass.
LEMMA PassDecides ==
  ASSUME SeriesAssumption, Typed, ReadStill, KnownRight, Quiet, Passed, Doing("decide"),
         NEW start \in DOMAIN Item.wants
  PROVE  /\ start \in Starts /\ Item.wants[start] = SourceView(src, start)
         /\ Item.series.master = src.master
         /\ Item.again => run.live # None /\ (run.live = TRUE => run.repaired)
         /\ ~Item.current => start \notin Exceptions
         /\ Known => Linked
         /\ ~Known => ~(Linked /\ dst.live)
         /\ dst.live /\ Calls(start) /\ Linked => DestinationView(dst, start) # "absent"
<1>1. /\ Running /\ Item \in Asked /\ Item.do = "decide" /\ start \in Starts /\ Item \in Decisions
      /\ dst \in DestinationSeries
  BY DoingStep, RestFields DEF Decisions, Typed, TypeOK
<1>2. Item.wants[start] = SourceView(src, start) /\ Item.series.master = src.master
  BY <1>1, QuietReads
<1>3. Item.again => run.live # None /\ (run.live = TRUE => run.repaired)
  BY <1>1 DEF Passed, RepairedOnce
<1>4. ~Item.current => start \notin Exceptions
  BY <1>1 DEF Passed, RepeatsOnly
<1>5. (Known => Linked) /\ (~Known => ~(Linked /\ dst.live))
  <2>1. CASE run.known = None
    BY <2>1 DEF Known
  <2>2. CASE run.known # None
    <3>1. run.known \in BOOLEAN /\ (Known <=> run.known)
      BY <1>1, <2>2, RunTyped DEF Known, Typed, Runs
    <3>2. CASE run.known = TRUE
      BY <1>1, <3>1, <3>2 DEF KnownRight
    <3>3. CASE run.known = FALSE
      BY <1>1, <3>1, <3>3 DEF KnownRight
    <3> QED BY <3>1, <3>2, <3>3
  <2> QED BY <2>1, <2>2
<1>6. ASSUME dst.live, Calls(start), Linked
      PROVE  DestinationView(dst, start) # "absent"
  <2>1. src.master \in Masters /\ start \in Recurs[src.master] /\ dst.master = src.master
    BY <1>1, <1>6, CalledRecurs DEF Passed, Placed
  <2>2. dst.occ[start] \in Contents \cup {"follows", "cancelled"}
    BY <1>1 DEF DestinationSeries
  <2> QED BY <1>6, <2>1, <2>2 DEF DestinationView, Contents, SeriesAssumption
<1> QED BY <1>1, <1>2, <1>3, <1>4, <1>5, <1>6

\* A missing occurrence is one of a series that is gone, and the pass has not repaired it yet.
LEMMA MissingGone ==
  ASSUME SeriesAssumption, Typed, ReadStill, KnownRight, Quiet, Passed, Doing("decide"),
         NEW start \in DOMAIN Item.wants, Outcome(start) = "missing"
  PROVE  /\ mapping # None /\ src.master # "cancelled" /\ ~(Linked /\ dst.live) /\ ~run.repaired
         /\ Calling => Linked /\ ~dst.live
         /\ ~(Item.again /\ run.live = FALSE) \/ Calling
<1>1. /\ mapping # None
      /\ \/ ~Known /\ ~(Item.again /\ run.live = FALSE)
         \/ Known /\ Item.wants[start] \notin {"absent", "cancelled"} /\ DestinationView(dst, start) = "absent"
  BY OutcomeWas
<1>2. start \in Starts /\ Item.wants[start] = SourceView(src, start)
  BY PassDecides
<1>3. ~(Linked /\ dst.live)
  <2>1. CASE ~Known
    BY <2>1, PassDecides
  <2>2. CASE Known
    <3>1. Calls(start)
      BY <1>1, <1>2, <2>2 DEF Calls, Hidden
    <3> QED BY <1>1, <2>2, <3>1, PassDecides
  <2> QED BY <2>1, <2>2
<1>4. src.master # "cancelled" /\ (Calling => Linked /\ ~dst.live)
  BY <1>1, <1>3 DEF Passed, Placed
<1>5. ~run.repaired
  <2> SUFFICES ASSUME run.repaired PROVE FALSE
    OBVIOUS
  <2>1. ~Doing("sync")
    BY DEF Doing
  <2>2. Calling /\ \A s \in Starts : Calls(s) => dst.occ[s] # "cancelled"
    BY <2>1 DEF Passed, RepairedOnce
  <2>3. \A s \in Starts : Calls(s) => dst.occ[s] = "cancelled"
    BY <1>4, <2>2 DEF Passed, Bereft
  <2> QED BY <2>2, <2>3 DEF Calling
<1>6. ~(Item.again /\ run.live = FALSE) \/ Calling
  <2>1. Known => Calls(start)
    BY <1>1, <1>2 DEF Calls, Hidden
  <2> QED BY <1>1, <1>2, <2>1 DEF Calling
<1> QED BY <1>1, <1>3, <1>4, <1>5, <1>6


LEMMA PassRepairs ==
  ASSUME SeriesAssumption, Typed, ReadStill, KnownRight, LiveRight, Quiet, Passed, run' \in Runs,
         NEW start \in Starts, RepairMissing(start)
  PROVE  Passed'
<1>1. /\ Doing("decide") /\ start \in DOMAIN Item.wants /\ Outcome(start) = "missing" /\ Still
      /\ Again(start) \in Items
      /\ run'.srcTodo = run.srcTodo /\ run'.dstTodo = run.dstTodo /\ run'.live \in LiveAnswers
      /\ run'.repaired = (run.repaired \/ run'.live = TRUE)
      /\ run'.handled = run.handled \/ run'.handled = run.handled \cup {start}
      /\ \/ /\ ~(run'.live = TRUE /\ ~run.repaired)
            /\ ItemsOf(run'.agenda) = {Again(start)} \cup RestItems(start)
         \/ /\ run'.live = TRUE /\ ~run.repaired
            /\ run'.agenda # <<>> /\ Head(run'.agenda) = Sync(Item.series, "fresh")
            /\ ItemsOf(run'.agenda) = {Sync(Item.series, "fresh"), Again(start)} \cup RestItems(start)
  BY RepairMissingStep
<1>2. /\ mapping # None /\ src.master # "cancelled" /\ ~(Linked /\ dst.live) /\ ~run.repaired
      /\ Calling => Linked /\ ~dst.live
  BY <1>1, MissingGone
<1>3. (run'.live = TRUE /\ Calling) \/ (run'.live = FALSE /\ ~Calling)
  <2>1. PICK live \in LiveAnswers : live = run'.live
    BY <1>1
  <2>2. (live = TRUE /\ Calling) \/ (live = FALSE /\ ~Calling)
    BY <1>2, AnsweredRight
  <2> QED BY <2>1, <2>2
<1>4. /\ run'.live # None /\ (run'.repaired <=> Calling) /\ (Calling <=> run'.live = TRUE)
      /\ (run'.live = TRUE => run'.repaired)
  BY <1>1, <1>2, <1>3 DEF SeriesAssumption
<1>5. /\ Again(start).do = "decide" /\ Again(start).current = Item.current
      /\ DOMAIN Again(start).wants = {start}
      /\ Sync(Item.series, "fresh").do = "sync"
  BY DEF Again, Decide, At, Sync
<1>6. /\ \A item \in RestItems(start) :
           \/ item \in Decisions
           \/ item.do # "decide" /\ item.do # "sync"
           \/ /\ item.do = "decide" /\ item.current = Item.current /\ item.again = Item.again
              /\ DOMAIN item.wants \subseteq DOMAIN Item.wants
      /\ Item \in Decisions
      /\ \A s \in Starts \ {start} :
           (Pending(s) => Pending(s)') /\ (PendingCurrent(s) => PendingCurrent(s)')
  BY <1>1, RestPending
<1>7. Pending(start)' /\ (Item.current => PendingCurrent(start)')
  <2>1. Again(start) \in Decisions'
    BY <1>1, <1>5 DEF Decisions, Asked
  <2> QED BY <1>5, <2>1 DEF Pending, PendingCurrent
<1>8. Exceptions' = Exceptions /\ Exceptions \subseteq Starts /\ (Calling' <=> Calling)
      /\ \A s : Calls(s)' <=> Calls(s)
  BY <1>1 DEF Exceptions, Still, Calling, Calls
<1>9. Placed' /\ Bereft'
  BY <1>1, StillPlaced DEF Passed, Bereft, Still, Linked, Calls
<1>10. CancelledDue'
  BY <1>1, <1>6, <1>7, <1>8 DEF Passed, CancelledDue, Still
<1>11. Doing("sync")' <=> Calling
  <2>1. CASE Calling
    BY <1>1, <1>2, <1>4, <1>5, <2>1, NoneAssumption DEF Doing, Item, Running
  <2>2. CASE ~Calling
    <3>1. ItemsOf(run'.agenda) = {Again(start)} \cup RestItems(start)
      BY <1>1, <1>4, <2>2
    <3>2. \A item \in Decisions : item.do # "sync"
      BY DEF Decisions
    <3>3. \A item \in ItemsOf(run'.agenda) : item.do # "sync"
      BY <1>5, <1>6, <3>1, <3>2
    <3> QED BY <2>2, <3>3, NotDoing
  <2> QED BY <2>1, <2>2
<1>12. RepairedOnce'
  <2>1. Doing("sync")' => run'.repaired /\ ~dst'.live
    BY <1>1, <1>2, <1>4, <1>11 DEF Still
  <2>2. run'.repaired => Calling' /\ Doing("sync")'
    BY <1>4, <1>8, <1>11
  <2> QED BY <1>4, <2>1, <2>2 DEF RepairedOnce
<1>13. start \in Exceptions => PendingCurrent(start)'
  BY <1>1, <1>7, PassDecides
<1>14. ExceptionsDue'
  BY <1>1, <1>6, <1>8, <1>13 DEF Passed, ExceptionsDue, Still, Linked
<1>15. RepeatsOnly'
  <2>1. ~Item.current => DOMAIN Item.wants \cap Exceptions = {}
    BY <1>6 DEF Passed, RepeatsOnly
  <2>2. ASSUME NEW item \in Decisions', ~item.current
        PROVE  DOMAIN item.wants \cap Exceptions = {}
    <3>1. item.do = "decide" /\ item \in {Sync(Item.series, "fresh"), Again(start)} \cup RestItems(start)
      BY <1>1 DEF Decisions, Asked
    <3>2. CASE item = Again(start)
      BY <1>1, <1>5, <2>1, <2>2, <3>2
    <3>3. CASE item \in RestItems(start)
      BY <1>6, <2>1, <2>2, <3>1, <3>3 DEF Passed, RepeatsOnly
    <3> QED BY <1>5, <3>1, <3>2, <3>3
  <2> QED BY <1>8, <2>2 DEF RepeatsOnly
<1> QED BY <1>9, <1>10, <1>12, <1>14, <1>15 DEF Passed

\* What deciding an occurrence does to the series and to the records.
LEMMA OutcomeSettles ==
  ASSUME SeriesAssumption, Typed, ReadStill, KnownRight, LiveRight, Quiet, Passed, Doing("decide"),
         NEW start \in DOMAIN Item.wants, Outcomes(start), src' = src
  PROVE  /\ Bereft'
         /\ mapping' = mapping /\ dst'.master = dst.master /\ (dst'.live => dst.live)
         /\ Calls(start) => dst'.occ[start] # "cancelled"
         /\ start \in Exceptions => recorded'[start] # None \/ ~(Linked /\ dst.live)
         /\ \A s \in Starts \ {start} : dst'.occ[s] = dst.occ[s] /\ recorded'[s] = recorded[s]
<1> DEFINE want == Item.wants[start]
           shown == DestinationView(dst, start)
<1>1. /\ start \in Starts /\ want = SourceView(src, start) /\ Item.series.master = src.master
      /\ Item.again => run.live # None /\ (run.live = TRUE => run.repaired)
      /\ ~Item.current => start \notin Exceptions
      /\ Known => Linked
      /\ ~Known => ~(Linked /\ dst.live)
      /\ dst.live /\ Calls(start) /\ Linked => shown # "absent"
      /\ Running /\ dst \in DestinationSeries
      /\ recorded \in [Starts -> Contents \cup {"cancelled", None}]
  BY PassDecides DEF Quiet, Typed, TypeOK
<1>2. /\ want \in Views /\ want # None /\ "cancelled" # None
  <2>1. want \in Views
    BY RestFields
  <2> QED BY <2>1 DEF Views, Contents, Hidden, SeriesAssumption
<1>3. /\ Calls(start) <=> want \notin Hidden
      /\ start \in Exceptions => want # "absent"
      /\ Calls(start) => Calling
  BY <1>1 DEF Calls, Calling, Exceptions
<1>4. /\ dst.live /\ dst.occ[start] # "follows" => shown = dst.occ[start]
      /\ ~dst.live => shown = "absent"
  BY DEF DestinationView
<1>5. ASSUME dst' = dst, mapping' = mapping, NEW value, recorded' = [recorded EXCEPT ![start] = value] \/ recorded' = recorded,
             Calls(start) => dst.occ[start] # "cancelled",
             start \in Exceptions => recorded'[start] # None \/ ~(Linked /\ dst.live)
      PROVE  /\ Bereft'
             /\ mapping' = mapping /\ dst'.master = dst.master /\ (dst'.live => dst.live)
             /\ Calls(start) => dst'.occ[start] # "cancelled"
             /\ start \in Exceptions => recorded'[start] # None \/ ~(Linked /\ dst.live)
             /\ \A s \in Starts \ {start} : dst'.occ[s] = dst.occ[s] /\ recorded'[s] = recorded[s]
  <2>1. Bereft'
    BY <1>5 DEF Passed, Bereft, Calls
  <2> QED BY <1>1, <1>5, <2>1
<1>6. ASSUME NEW value, NEW how \in Contents \cup {"cancelled"}, Known, dst.live, mapping' = mapping,
             dst' = Surviving([dst EXCEPT !.occ[start] = how]),
             recorded' = [recorded EXCEPT ![start] = value],
             Calls(start) => how # "cancelled",
             start \in Exceptions => value # None
      PROVE  /\ Bereft'
             /\ mapping' = mapping /\ dst'.master = dst.master /\ (dst'.live => dst.live)
             /\ Calls(start) => dst'.occ[start] # "cancelled"
             /\ start \in Exceptions => recorded'[start] # None \/ ~(Linked /\ dst.live)
             /\ \A s \in Starts \ {start} : dst'.occ[s] = dst.occ[s] /\ recorded'[s] = recorded[s]
  <2> DEFINE next == [dst EXCEPT !.occ[start] = how]
  <2>1. /\ next \in DestinationSeries /\ next.live = dst.live /\ next.master = dst.master
        /\ next.occ = [dst.occ EXCEPT ![start] = how]
    <3>1. start \in Starts /\ dst \in DestinationSeries /\ how \in Contents \cup {"follows", "cancelled"}
      BY <1>1, <1>6
    <3> QED BY <3>1, WrittenFields
  <2>2. dst' = Surviving(next)
    BY <1>6
  <2> HIDE DEF next
  <2>3. dst'.master = dst.master /\ dst'.occ = next.occ
    BY <2>1, <2>2, SurvivingFields
  <2>4. dst.master = src.master
    BY <1>1, <1>6 DEF Passed, Placed
  <2>5. Bereft'
    BY <1>6, <2>1, <2>2, <2>4, WrittenBereft
  <2>6. dst'.occ[start] = how /\ \A s \in Starts \ {start} : dst'.occ[s] = dst.occ[s]
    BY <1>1, <2>1, <2>3 DEF DestinationSeries
  <2>7. recorded'[start] = value /\ \A s \in Starts \ {start} : recorded'[s] = recorded[s]
    BY <1>1, <1>6
  <2> QED BY <1>6, <2>3, <2>5, <2>6, <2>7
<1> HIDE DEF want, shown
<1>7. CASE Outcome(start) = "ignore"
  <2>1. dst' = dst /\ mapping' = mapping /\ recorded' = recorded
    BY <1>7 DEF Outcomes
  <2>2. \/ mapping = None \/ src.master = "cancelled"
        \/ ~Known /\ Item.again /\ run.live = FALSE
    BY <1>1, <1>7, OutcomeWas
  <2>3. CASE mapping = None
    BY <1>3, <1>5, <2>1, <2>3 DEF Passed, Placed, Linked
  <2>4. CASE src.master = "cancelled"
    <3>1. SourceView(src, start) = "absent"
      BY <2>4 DEF SourceView
    <3> QED BY <1>1, <1>3, <1>5, <2>1, <3>1 DEF Hidden
  <2>5. CASE src.master # "cancelled" /\ ~Known /\ run.live = FALSE
    <3>1. ~Calling
      BY <2>5 DEF LiveRight, SeriesAssumption
    <3> QED BY <1>1, <1>3, <1>5, <2>1, <2>5, <3>1
  <2> QED BY <2>2, <2>3, <2>4, <2>5
<1>8. CASE Outcome(start) = "missing"
  <2>1. Item.again
    BY <1>8 DEF Outcomes
  <2>2. src.master # "cancelled" /\ ~run.repaired /\ (~(Item.again /\ run.live = FALSE) \/ Calling)
    BY <1>8, MissingGone
  <2>3. run.live # None /\ run.live # TRUE
    BY <1>1, <2>1, <2>2
  <2>4. run.live = FALSE /\ ~Calling
    BY <2>2, <2>3 DEF LiveRight
  <2> QED BY <2>1, <2>2, <2>4
<1>9. CASE Outcome(start) = "retire"
  <2>1. dst' = dst /\ mapping' = mapping /\ recorded' = [recorded EXCEPT ![start] = Retired(start)]
    BY <1>9 DEF Outcomes
  <2>2. want = "absent"
    BY <1>9, OutcomeWas DEF want
  <2> QED BY <1>3, <1>5, <2>1, <2>2 DEF Hidden
<1>10. CASE Outcome(start) = "unchanged"
  <2>1. /\ dst' = dst /\ mapping' = mapping
        /\ recorded' = IF Item.current /\ shown # "absent" THEN [recorded EXCEPT ![start] = want] ELSE recorded
    BY <1>10 DEF Outcomes, want, shown
  <2>2. /\ Known
        /\ \/ want = "cancelled" /\ shown \in Hidden
           \/ want \notin {"absent", "cancelled"} /\ shown = want
    BY <1>10, OutcomeWas DEF want, shown
  <2>3. Calls(start) => dst.occ[start] # "cancelled"
    <3>1. Calls(start) => dst.live /\ shown \notin {"absent", "cancelled"}
      BY <1>3, <1>4, <2>2 DEF Hidden
    <3> QED BY <1>4, <3>1
  <2>4. start \in Exceptions => recorded'[start] # None \/ ~(Linked /\ dst.live)
    <3> SUFFICES ASSUME start \in Exceptions, Linked /\ dst.live
                 PROVE  recorded'[start] # None
      OBVIOUS
    <3>1. Item.current /\ want # None
      BY <1>1, <1>2
    <3>2. shown # "absent"
      <4>1. CASE want = "cancelled"
        <5>1. src.master \in Masters /\ start \in Recurs[src.master] /\ dst.master = src.master
          BY <1>1, <4>1 DEF Exceptions, SourceView, Typed, TypeOK, SourceSeries, Passed, Placed
        <5>2. dst.occ[start] \in Contents \cup {"follows", "cancelled"}
          BY <1>1 DEF DestinationSeries
        <5> QED BY <5>1, <5>2 DEF shown, DestinationView, Contents, SeriesAssumption
      <4>2. CASE want # "cancelled"
        BY <2>2, <4>2
      <4> QED BY <4>1, <4>2
    <3>3. recorded'[start] = want
      BY <1>1, <2>1, <3>1, <3>2
    <3> QED BY <3>1, <3>3
  <2> QED BY <1>5, <2>1, <2>3, <2>4
<1>11. CASE Outcome(start) = "update"
  <2>1. /\ dst' = Surviving([dst EXCEPT !.occ[start] = want]) /\ mapping' = mapping
        /\ recorded' = [recorded EXCEPT ![start] = want]
    BY <1>11 DEF Outcomes, WriteOccurrence, want
  <2>2. Known /\ want \notin {"absent", "cancelled"} /\ shown # "absent"
    BY <1>11, OutcomeWas DEF want, shown
  <2>3. want \in Contents /\ dst.live
    BY <1>2, <1>4, <2>2 DEF Views, Hidden
  <2> QED BY <1>2, <1>6, <2>1, <2>2, <2>3
<1>12. CASE Outcome(start) = "cancel"
  <2>1. /\ dst' = Surviving([dst EXCEPT !.occ[start] = "cancelled"]) /\ mapping' = mapping
        /\ recorded' = [recorded EXCEPT ![start] = Retired(start)]
    BY <1>12 DEF Outcomes, CancelOccurrence
  <2>2. Known /\ want \in {"absent", "cancelled"} /\ shown \notin Hidden
    BY <1>12, OutcomeWas DEF want, shown
  <2>3. dst.live /\ ~Calls(start) /\ (start \in Exceptions => Retired(start) # None)
    BY <1>2, <1>3, <1>4, <2>2 DEF Hidden, Retired, want
  <2> QED BY <1>6, <2>1, <2>2, <2>3
<1> QED BY <1>7, <1>8, <1>9, <1>10, <1>11, <1>12 DEF Outcomes

LEMMA PassApplies ==
  ASSUME SeriesAssumption, Typed, ReadStill, KnownRight, LiveRight, Quiet, Passed, run' \in Runs,
         NEW start \in Starts, ApplyOccurrence(start)
  PROVE  Passed'
<1>1. /\ Doing("decide") /\ start \in DOMAIN Item.wants /\ src' = src /\ skipped' = skipped
      /\ Outcomes(start)
      /\ run'.srcTodo = run.srcTodo /\ run'.dstTodo = run.dstTodo
      /\ run'.repaired = run.repaired /\ run'.live = run.live
      /\ ItemsOf(run'.agenda) = RestItems(start)
      /\ run'.handled = (IF Item.wants[start] # "absent" \/ recorded[start] # None
                         THEN run.handled \cup {start} ELSE run.handled)
  BY ApplyOccurrenceStep, NoneAssumption DEF Bystanders, Lost
<1>2. /\ Bereft'
      /\ mapping' = mapping /\ dst'.master = dst.master /\ (dst'.live => dst.live)
      /\ Calls(start) => dst'.occ[start] # "cancelled"
      /\ start \in Exceptions => recorded'[start] # None \/ ~(Linked /\ dst.live)
      /\ \A s \in Starts \ {start} : dst'.occ[s] = dst.occ[s] /\ recorded'[s] = recorded[s]
  BY <1>1, OutcomeSettles
<1>3. /\ \A item \in RestItems(start) :
           \/ item \in Decisions
           \/ item.do # "decide" /\ item.do # "sync"
           \/ /\ item.do = "decide" /\ item.current = Item.current /\ item.again = Item.again
              /\ DOMAIN item.wants \subseteq DOMAIN Item.wants
      /\ Item \in Decisions
      /\ \A s \in Starts \ {start} :
           (Pending(s) => Pending(s)') /\ (PendingCurrent(s) => PendingCurrent(s)')
  BY <1>1, RestPending
<1>4. /\ Exceptions' = Exceptions /\ Exceptions \subseteq Starts /\ (Calling' <=> Calling)
      /\ (Linked' <=> Linked)
      /\ \A s : Calls(s)' <=> Calls(s)
  BY <1>1, <1>2 DEF Exceptions, Calling, Calls, Linked
<1>5. ~Doing("sync")' /\ ~Doing("sync")
  <2>1. \A item \in Decisions : item.do = "decide"
    BY DEF Decisions
  <2>2. \A item \in ItemsOf(run'.agenda) : item.do # "sync"
    BY <1>1, <1>3, <2>1
  <2> QED BY <1>1, <2>2, NotDoing DEF Doing
<1>6. Placed'
  BY <1>1, <1>2, <1>4, StillPlaced DEF Passed
<1>7. CancelledDue'
  <2>1. ASSUME NEW s \in Starts, Calls(s), dst'.occ[s] = "cancelled"
        PROVE  Pending(s)' \/ s \in run'.dstTodo \ run'.handled
    <3>1. s # start
      BY <1>2, <2>1
    <3>2. dst.occ[s] = "cancelled"
      BY <1>2, <2>1, <3>1
    <3> QED BY <1>1, <1>3, <2>1, <3>1, <3>2 DEF Passed, CancelledDue
  <2> QED BY <1>4, <2>1 DEF CancelledDue
<1>8. RepairedOnce'
  <2>1. run'.repaired => Calling' /\ \A s \in Starts : Calls(s)' => dst'.occ[s] # "cancelled"
    BY <1>1, <1>2, <1>4, <1>5 DEF Passed, RepairedOnce
  <2>2. ASSUME NEW item \in Decisions', item.again
        PROVE  run'.live # None /\ (run'.live = TRUE => run'.repaired)
    <3>1. item \in Decisions \/ Item.again
      BY <1>1, <1>3, <2>2 DEF Decisions, Asked
    <3> QED BY <1>1, <1>3, <2>2, <3>1 DEF Passed, RepairedOnce
  <2> QED BY <1>5, <2>1, <2>2 DEF RepairedOnce
<1>9. ExceptionsDue'
  <2>1. ASSUME NEW s \in Exceptions
        PROVE  /\ s \in run'.srcTodo \cup run'.handled \/ PendingCurrent(s)'
               /\ s \in run'.handled =>
                    PendingCurrent(s)' \/ recorded'[s] # None \/ s \in skipped' \/ ~(Linked' /\ dst'.live)
    <3>1. CASE s = start
      <4>1. Item.wants[start] # "absent"
        BY <1>1, <2>1, <3>1, PassDecides DEF Exceptions
      <4> QED BY <1>1, <1>2, <1>4, <2>1, <3>1, <4>1
    <3>2. CASE s # start
      <4>1. s \in Starts \ {start}
        BY <1>4, <3>2
      <4> QED BY <1>1, <1>2, <1>3, <1>4, <2>1, <4>1 DEF Passed, ExceptionsDue
    <3> QED BY <3>1, <3>2
  <2> QED BY <1>4, <2>1 DEF ExceptionsDue
<1>10. RepeatsOnly'
  <2>1. ~Item.current => DOMAIN Item.wants \cap Exceptions = {}
    BY <1>3 DEF Passed, RepeatsOnly
  <2>2. ASSUME NEW item \in Decisions', ~item.current
        PROVE  DOMAIN item.wants \cap Exceptions = {}
    <3>1. item.do = "decide" /\ item \in RestItems(start)
      BY <1>1 DEF Decisions, Asked
    <3> QED BY <1>3, <2>1, <2>2, <3>1 DEF Passed, RepeatsOnly
  <2> QED BY <1>4, <2>2 DEF RepeatsOnly
<1> QED BY <1>2, <1>6, <1>7, <1>8, <1>9, <1>10 DEF Passed


-----------------------------------------------------------------------------
(***************************************************************************)
(* Every step of the specification, and what a finished pass leaves.       *)
(***************************************************************************)
Course == KnownRight /\ Orphan /\ SeriesFirst /\ Opened /\ LiveRight /\ Passing

LEMMA RunAlike ==
  ASSUME SeriesAssumption, Typed, Run, run' \in Runs
  PROVE  Alike(run', run)
<1>1. run' # None
  BY NoneAssumption
<1>2. ASSUME NEW what \in {"sync", "complete", "replayed"}, Doing(what)
      PROVE  Alike(Done, run)
  BY <1>2, DoingStep DEF Kept
<1>3. CASE HandleSeries \/ RepairSeries \/ \E s \in Starts : HandleException(s) \/ RepairOccurrence(s)
  BY <1>3, HandleSeriesStep, RepairSeriesStep, HandleExceptionStep, RepairOccurrenceStep
<1>4. CASE SyncRemove
  <2> DEFINE r == [Done EXCEPT !.known = None]
  <2>1. /\ Alike(r, run) \/ run' = Done
        /\ run' = Done \/ Committed(None, [start \in Starts |-> None], FALSE, r)
    BY <1>1, <1>4, SyncRemoveStep DEF Lost
  <2>2. Doing("sync")
    BY <1>4, SyncRemoveStep
  <2> HIDE DEF r
  <2> QED BY <1>2, <2>1, <2>2 DEF Committed, Kept, Alike
<1>5. CASE SyncCreate
  BY <1>1, <1>5, SyncCreateStep DEF Lost
<1>6. CASE SyncDormant
  <2> DEFINE r == [Done EXCEPT !.live = FALSE]
  <2>1. Alike(r, run) /\ (run' = r \/ Committed(None, recorded, replays, r))
    BY <1>1, <1>6, SyncDormantStep DEF Lost
  <2> HIDE DEF r
  <2> QED BY <2>1 DEF Committed, Kept, Alike
<1>7. CASE SyncUpdate
  BY <1>1, <1>7, SyncUpdateStep DEF Lost
<1>8. CASE SyncCurrent
  BY <1>2, <1>8, SyncCurrentStep DEF Kept
<1>9. CASE SyncRefused \/ \E s \in Starts : OccurrenceRefused(s)
  BY <1>1, <1>9 DEF SyncRefused, OccurrenceRefused, Only
<1>10. CASE ReverifyRecorded \/ ReplayExceptions
  BY <1>10, ReverifyRecordedStep, ReplayExceptionsStep DEF Kept
<1>11. CASE CompleteRevision \/ ReplayDone
  BY <1>2, <1>11, CompleteRevisionStep, ReplayDoneStep
<1>12. CASE \E s \in Starts : RepairMissing(s) \/ ApplyOccurrence(s)
  BY <1>1, <1>12, RepairMissingStep, ApplyOccurrenceStep DEF Lost
<1>13. CASE FinishReplay
  BY <1>13, FinishReplayStep DEF Kept, Alike
<1> QED BY <1>3, <1>4, <1>5, <1>6, <1>7, <1>8, <1>9, <1>10, <1>11, <1>12, <1>13 DEF Run

LEMMA RunlessCourse ==
  ASSUME run' = None
  PROVE  SeriesFirst' /\ Opened' /\ LiveRight' /\ Passing'
BY DEF SeriesFirst, Opened, LiveRight, Passing, Quiet, Running

LEMMA CourseNext ==
  ASSUME SeriesAssumption, Typed, [Next]_vars, ReadEarlier, ReadStill, Course
  PROVE  Course'
<1>1. KnownRight' /\ Orphan'
  BY KnownNext, OrphanNext DEF Course
<1>2. ASSUME SeriesFirst', Opened', LiveRight', Passing'
      PROVE  Course'
  BY <1>1, <1>2 DEF Course
<1>3. CASE UNCHANGED vars
  <2>1. /\ src' = src /\ dst' = dst /\ mapping' = mapping /\ recorded' = recorded /\ run' = run
        /\ skipped' = skipped
    BY <1>3 DEF vars, store, cursors
  <2>2. /\ SeriesFirst' /\ Opened' /\ LiveRight'
    BY <2>1 DEF Course, SeriesFirst, Opened, LiveRight, Quiet, Opening, Running, Doing, Item, Exceptions,
                Calling, Calls
  <2>3. (Quiet' <=> Quiet) /\ (Opening' <=> Opening)
    BY <2>1 DEF Quiet, Opening, Running, Doing, Item
  <2>4. (Placed' <=> Placed) /\ (Bereft' <=> Bereft) /\ (RepeatsOnly' <=> RepeatsOnly)
    BY <2>1 DEF Placed, Bereft, RepeatsOnly, Linked, Calling, Calls, Exceptions, Decisions, Asked
  <2>5. (CancelledDue' <=> CancelledDue) /\ (RepairedOnce' <=> RepairedOnce)
    BY <2>1 DEF CancelledDue, RepairedOnce, Pending, Doing, Item, Running, Calling, Calls, Decisions, Asked
  <2>6. ExceptionsDue' <=> ExceptionsDue
    BY <2>1 DEF ExceptionsDue, PendingCurrent, Linked, Exceptions, Decisions, Asked
  <2>7. Passing'
    BY <2>3, <2>4, <2>5, <2>6 DEF Course, Passing, Passed
  <2> QED BY <1>2, <2>2, <2>7
<1>4. CASE run' = None
  BY <1>2, <1>4, RunlessCourse
<1>5. CASE run' # None /\ (SourceStep \/ DestinationStep)
  <2>1. /\ Running /\ run'.full = run.full /\ run'.srcTodo = run.srcTodo /\ run'.handled = run.handled
        /\ run'.agenda = run.agenda
        /\ run'.srcSince # {} \/ ~run'.calm
    BY <1>5 DEF SourceStep, DestinationStep, Noted
  <2>2. ~Quiet'
    BY <2>1 DEF Quiet
  <2>3. SeriesFirst'
    BY <2>1 DEF Course, SeriesFirst, Doing, Item
  <2> QED BY <1>2, <2>2, <2>3 DEF Opened, LiveRight, Passing
<1>6. ASSUME NEW full \in BOOLEAN, StartRun(full)
      PROVE  Course'
  <2>1. SeriesFirst' /\ Opened' /\ LiveRight' /\ (Quiet' => Opening')
    BY <1>6, StartOpens
  <2> QED BY <1>2, <2>1 DEF Passing
<1>7. CASE Run /\ run' # None
  <2>1. Typed' /\ run' \in Runs /\ Running
    BY <1>7, TypedNext, RunDrawn DEF Typed, TypeOK
  <2>2. Alike(run', run)
    BY <1>7, <2>1, RunAlike
  <2>3. CASE ~run.full
    <3>1. ~run'.full
      BY <2>2, <2>3 DEF Alike
    <3> QED BY <1>2, <3>1 DEF SeriesFirst, Opened, LiveRight, Passing, Quiet
  <2>4. CASE run.full /\ "series" \in run.srcTodo
    <3>1. HandleSeries
      BY <1>7, <2>4, OpenedByTheSeries DEF Course
    <3>2. SeriesFirst' /\ Opened' /\ LiveRight' /\ (Quiet' => Opening')
      BY <2>4, <3>1, OpeningKept DEF Course
    <3> QED BY <1>2, <3>2 DEF Passing
  <2>5. CASE run.full /\ "series" \notin run.srcTodo
    <3>1. SeriesFirst' /\ ~Opening' /\ LiveRight'
      BY <1>7, <2>1, <2>5, RunOnward, OnwardCloses DEF Course
    <3>2. ASSUME Quiet' PROVE Passed'
      <4>1. Quiet
        BY <2>1, <2>2, <3>2 DEF Quiet, Alike
      <4>2. CASE Opening
        BY <1>7, <2>1, <2>5, <4>1, <4>2, PassOpens DEF Course
      <4>3. CASE ~Opening
        <5>1. Passed /\ KnownRight /\ Orphan /\ SeriesFirst /\ LiveRight
          BY <4>1, <4>3 DEF Course, Passing
        <5>2. CASE RepairSeries \/ \E start \in Starts : HandleException(start) \/ RepairOccurrence(start)
          BY <2>5, <4>1, <5>1, <5>2, PassHandles
        <5>3. CASE SyncRemove \/ SyncCreate \/ SyncDormant \/ SyncUpdate \/ SyncRefused \/ SyncCurrent
          BY <2>1, <4>1, <5>1, <5>3, PassCreates
        <5>4. CASE ReverifyRecorded \/ CompleteRevision \/ ReplayExceptions \/ ReplayDone \/ FinishReplay
          BY <2>1, <4>1, <5>1, <5>4, PassFollows
        <5>5. CASE \E start \in Starts : RepairMissing(start)
          BY <2>1, <4>1, <5>1, <5>5, PassRepairs
        <5>6. CASE \E start \in Starts : OccurrenceRefused(start)
          BY <1>7, <5>6 DEF OccurrenceRefused, Only
        <5>7. CASE \E start \in Starts : ApplyOccurrence(start)
          BY <2>1, <4>1, <5>1, <5>7, PassApplies
        <5>8. ~HandleSeries
          BY <2>5 DEF HandleSeries
        <5> QED BY <1>7, <5>2, <5>3, <5>4, <5>5, <5>6, <5>7, <5>8 DEF Run
      <4> QED BY <4>2, <4>3
    <3> QED BY <1>2, <3>1, <3>2 DEF Opened, Passing
  <2> QED BY <2>3, <2>4, <2>5
<1>8. CASE AdvanceCursors \/ FailRun
  BY <1>4, <1>8 DEF AdvanceCursors, FailRun
<1> QED BY <1>3, <1>4, <1>5, <1>6, <1>7, <1>8, NextSteps

LEMMA PassTells ==
  ASSUME SeriesAssumption, Typed, Course, AdvanceCursors, run.full, run.calm, run.srcSince = {},
         NEW start \in Starts
  PROVE  /\ ~InStep(start) => Told(start) \/ (start \in skipped /\ recorded[start] = None)
         /\ Told(start) => ~InStep(start) \/ UnmappedOccurrence(start)
<1>1. /\ Running /\ run.agenda = <<>> /\ run.srcTodo = {} /\ run.dstTodo = {}
      /\ dst \in DestinationSeries
  BY DEF AdvanceCursors, Ended, Free, Typed, TypeOK
<1>2. Quiet /\ ~Opening
  BY <1>1 DEF Quiet, Opening, Doing
<1>3. Placed /\ Bereft /\ CancelledDue /\ ExceptionsDue
  BY <1>2 DEF Course, Passing, Passed
<1>4. \A s : ~Pending(s) /\ ~PendingCurrent(s)
  BY <1>1, NothingPending
<1>5. \A s \in Starts : Calls(s) => dst.occ[s] # "cancelled"
  BY <1>1, <1>3, <1>4 DEF CancelledDue
<1>6. Calling => Linked /\ dst.live /\ dst.master = src.master
  BY <1>3, <1>5 DEF Placed, Bereft, Calling
<1>7. Called(start) # "absent" <=> Calls(start)
  BY DEF Called, Calls, Hidden
<1>8. Calls(start) => Calling
  BY DEF Calling
<1>9. mapping # None => src.master # "cancelled"
  BY <1>3 DEF Placed
<1>10. Dormant <=> ~(Linked /\ dst.live) /\ ~Calling
  BY DEF Dormant, Projected, Calling, Calls
<1>11. ASSUME ~InStep(start)
       PROVE  Told(start) \/ (start \in skipped /\ recorded[start] = None)
  <2>1. Linked /\ dst.live /\ dst.master = src.master
    <3>1. CASE Calling
      BY <1>6, <3>1
    <3>2. CASE ~Calling
      <4>1. Called(start) = "absent"
        BY <1>7, <1>8, <3>2
      <4>2. Linked /\ dst.live
        BY <1>11, <4>1 DEF InStep, Shown, DestinationView, Hidden
      <4> QED BY <1>3, <4>2 DEF Placed
    <3> QED BY <3>1, <3>2
  <2>2. Projected /\ Verified
    BY <1>9, <1>10, <2>1 DEF Projected, Verified, Linked
  <2>3. src.master \in Masters
    BY <1>9, <2>1 DEF Linked, Typed, TypeOK, SourceSeries
  <2>4. CASE recorded[start] # None
    <3>1. start \in Checked
      BY <2>2, <2>4 DEF Checked
    <3>2. OccurrenceDrift(start)
      BY <1>11, <2>1, <2>2, <3>1 DEF OccurrenceDrift, InStep, Shown
    <3> QED BY <3>2 DEF Told
  <2>5. CASE recorded[start] = None /\ start \in Exceptions
    <3>1. start \in skipped
      BY <1>1, <1>3, <1>4, <2>1, <2>5 DEF ExceptionsDue
    <3> QED BY <2>5, <3>1
  <2>6. CASE recorded[start] = None /\ start \notin Exceptions
    <3>1. SourceView(src, start) \in {src.master, "absent"}
      BY <2>6 DEF Exceptions
    <3>2. start \in Recurs[src.master] => SourceView(src, start) = src.master
      <4>1. "absent" \notin {src.occ[start]}
        BY DEF Typed, TypeOK, SourceSeries, SeriesAssumption
      <4> QED BY <1>9, <2>1, <2>3, <3>1, <4>1 DEF SourceView, Linked, SeriesAssumption
    <3>3. dst.occ[start] # "follows"
      <4> SUFFICES ASSUME dst.occ[start] = "follows" PROVE FALSE
        OBVIOUS
      <4>1. DestinationView(dst, start) = IF start \in Recurs[src.master] THEN src.master ELSE "absent"
        BY <2>1 DEF DestinationView
      <4>2. start \notin Recurs[src.master] => SourceView(src, start) = "absent"
        BY DEF SourceView
      <4>3. DestinationView(dst, start) = SourceView(src, start)
        BY <3>2, <4>1, <4>2
      <4> QED BY <1>11, <2>1, <4>3 DEF InStep, Shown, Called
    <3>4. dst.occ[start] # "cancelled"
      <4> SUFFICES ASSUME dst.occ[start] = "cancelled" PROVE FALSE
        OBVIOUS
      <4>1. Shown(start) = "absent"
        BY <2>1 DEF Shown, DestinationView, Hidden
      <4> QED BY <1>5, <1>7, <1>11, <4>1 DEF InStep
    <3>5. start \notin Checked
      BY <2>6 DEF Checked
    <3>6. UnmappedOccurrence(start)
      BY <2>2, <3>3, <3>4, <3>5 DEF UnmappedOccurrence
    <3> QED BY <3>6 DEF Told
  <2> QED BY <2>4, <2>5, <2>6
<1>12. ASSUME Told(start), ~UnmappedOccurrence(start)
       PROVE  ~InStep(start)
  <2>1. SeriesFinding = "none"
    <3>1. CASE mapping = None
      BY <3>1 DEF SeriesFinding, Verified
    <3>2. CASE mapping # None /\ ~Verified
      BY <1>9, <3>2 DEF SeriesFinding
    <3>3. CASE mapping # None /\ Verified
      <4>1. Projected /\ dst.master = src.master
        BY <1>3, <1>6, <1>10, <3>3 DEF Verified, Projected, Placed
      <4> QED BY <1>9, <3>3, <4>1 DEF SeriesFinding
    <3> QED BY <3>1, <3>2, <3>3
  <2>2. OccurrenceDrift(start)
    BY <1>12, <2>1 DEF Told
  <2>3. CASE Projected
    <3>1. Shown(start) = IF DestinationView(dst, start) \in Hidden THEN "absent" ELSE DestinationView(dst, start)
      BY <2>3 DEF Shown, Projected
    <3> QED BY <2>2, <2>3, <3>1 DEF OccurrenceDrift, InStep
  <2>4. CASE ~Projected
    <3>1. Shown(start) = "absent"
      BY <2>4 DEF Shown, Projected, DestinationView, Hidden
    <3> QED BY <2>2, <2>4, <3>1 DEF OccurrenceDrift, InStep, Hidden
  <2> QED BY <2>3, <2>4
<1> QED BY <1>11, <1>12

(***************************************************************************)
(* What a run may never do to an occurrence, and what the check after a    *)
(* full pass may never miss: the first from what the run has read, the     *)
(* second from the course of a full pass that nobody disturbs.             *)
(***************************************************************************)
THEOREM SeriesOccurrenceSteps == Spec => OccurrenceSteps
<1>1. Init => Typed /\ ReadStill /\ ReadEarlier /\ Course
  <2>1. Init => Typed
    BY InitTyped, SeriesAssumption
  <2>2. Init => ~Running /\ ~dst.live
    BY DEF Init, Running
  <2> QED BY <2>1, <2>2 DEF ReadStill, ReadEarlier, Course, KnownRight, Orphan, SeriesFirst, Opened, LiveRight,
                      Passing, Quiet
<1>2. Typed /\ ReadStill /\ ReadEarlier /\ Course /\ [Next]_vars
        => (Typed /\ ReadStill /\ ReadEarlier /\ Course)'
  BY TypedNext, ReadsNext, CourseNext, SeriesAssumption
<1>3. Typed /\ Course /\ [Next]_vars =>
        [AdvanceCursors /\ run.full /\ run.calm /\ run.srcSince = {} =>
           \A start \in Starts :
             /\ ~InStep(start) => Told(start) \/ (start \in skipped /\ recorded[start] = None)
             /\ Told(start) => ~InStep(start) \/ UnmappedOccurrence(start)]_vars
  BY PassTells, SeriesAssumption
<1>4. Spec => ReconcileNowTells
  BY <1>1, <1>2, <1>3, PTL DEF Spec, ReconcileNowTells
<1> QED BY <1>4, SeriesHidesOnlyProven DEF OccurrenceSteps

=============================================================================
