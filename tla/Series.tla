------------------------------- MODULE Series -------------------------------
(***************************************************************************)
(* One recurring source series, its occurrences and their projection.      *)
(*                                                                         *)
(* A series is projected as one destination series.  A run first applies   *)
(* the series, then every exception the source feed reports, then what the *)
(* destination feed reports, and at last the replays a failed run left.    *)
(* Handling one thing may ask for others first: a changed series           *)
(* re-verifies its recorded occurrences, a created one replays the         *)
(* exceptions of its source, a missing occurrence repairs its series.      *)
(* The run's agenda is the stack of what is still asked for.               *)
(*                                                                         *)
(* Google keeps both calendars.  It cancels a series whose last occurrence *)
(* is cancelled, and people change both calendars at any time.  Policies,  *)
(* stops, ownership, the sync window and rejected cursors are in SyncRun.  *)
(***************************************************************************)
EXTENDS Naturals, Sequences, FiniteSets

CONSTANTS
  Starts,     \* original starts of the occurrences
  Masters,    \* contents of the series, its recurrence included
  Recurs,     \* the original starts each of them recurs at
  MaxSource,  \* bound: changes of the source by people
  Bounds,     \* bounds: changes of source and destination by people, and provider failures,
              \* lost answers and process stops, that may happen together
  None

ASSUME SeriesAssumption ==
  /\ Recurs \in [Masters -> SUBSET Starts]
  /\ "series" \notin Starts
  /\ Masters \cap {"absent", "cancelled", "moved", "edited", "follows", "fresh", None} = {}
  /\ None \notin BOOLEAN /\ None \notin {"absent", "cancelled", "moved", "edited", "follows", "fresh"}
  /\ MaxSource \in Nat
  /\ Bounds \subseteq [source : 0..MaxSource, dest : Nat, faults : Nat]

VARIABLES
  src,       \* the source series and its exceptions
  dst,       \* the destination series created last and its exceptions
  mapping,   \* the Series Mapping
  recorded,  \* what each Occurrence Mapping says was written
  replays,   \* whether a replay of the source's exceptions is pending
  synced,    \* whether cursors are saved
  due,       \* whether a full pass that was begun has still to succeed
  srcNews,   \* what changed in the source since its saved cursor
  dstNews,   \* what changed in the destination since its saved cursor
  run,       \* the run in flight
  skipped,   \* occurrences a run handled before it recreated their series, since a full pass began
  left       \* what is left of the bounds, and whether people touched the destination

store == <<mapping, recorded, replays>>
cursors == <<synced, due>>
vars == <<src, dst, store, cursors, srcNews, dstNews, run, skipped, left>>

Parts == Starts \cup {"series"}
Contents == Masters \cup {"moved", "edited"}
Hidden == {"absent", "cancelled"}
Views == Contents \cup Hidden

SourceSeries == [master : Masters \cup {"cancelled"}, rev : 1..(MaxSource + 1),
                 occ : [Starts -> Masters \cup {"follows", "moved", "cancelled"}]]
DestinationSeries == [live : BOOLEAN, master : Masters, key : 0..(MaxSource + 1),
                      occ : [Starts -> Contents \cup {"follows", "cancelled"}]]
\* "linked": the mapping names dst, and not a series that was deleted before it.
SeriesMapping == [linked : BOOLEAN, rev : 1..(MaxSource + 1), shown : Masters]

\* What the run still has to do, and the run.
SeriesRead == [master : Masters \cup {"cancelled"}, rev : 1..(MaxSource + 1)]
Items ==
  [do : {"sync"}, series : SeriesRead, actual : Masters \cup {"fresh", None}]
    \cup [do : {"reverify", "complete", "replay", "replayed"}, series : SeriesRead]
    \cup [do : {"decide"}, series : SeriesRead, wants : UNION {[some -> Views] : some \in SUBSET Starts},
          current : BOOLEAN, again : BOOLEAN]
Runs ==
  [full : BOOLEAN, calm : BOOLEAN, srcSaw : SourceSeries, dstSaw : DestinationSeries,
   srcTodo : SUBSET Parts, dstTodo : SUBSET Parts, handled : SUBSET Parts,
   srcSince : SUBSET Parts, dstSince : SUBSET Parts, repaired : BOOLEAN,
   live : BOOLEAN \cup {None}, known : BOOLEAN \cup {None}, agenda : Seq(Items)]

ASSUME NoneAssumption == None \notin SeriesMapping /\ None \notin Runs

TypeOK ==
  /\ src \in SourceSeries
  /\ dst \in DestinationSeries
  /\ mapping \in SeriesMapping \cup {None}
  /\ recorded \in [Starts -> Contents \cup {"cancelled", None}]
  /\ {replays, synced, due} \subseteq BOOLEAN
  /\ srcNews \subseteq Parts /\ dstNews \subseteq Parts /\ skipped \subseteq Starts
  /\ run \in Runs \cup {None}
  /\ left \in [source : Nat, dest : Nat, faults : Nat, touched : BOOLEAN]

Running == run # None

Spend(what) ==
  /\ left[what] > 0
  /\ left' = [left EXCEPT ![what] = @ - 1, !.touched = @ \/ what = "dest"]

\* What the source shows at an original start; a cancelled series has no occurrences.
SourceView(s, start) ==
  IF s.master = "cancelled" \/ start \notin Recurs[s.master] THEN "absent"
  ELSE IF s.occ[start] = "follows" THEN s.master ELSE s.occ[start]

\* What the destination shows there; written exceptions do not follow their series.
DestinationView(d, start) ==
  IF ~d.live THEN "absent"
  ELSE IF d.occ[start] # "follows" THEN d.occ[start]
  ELSE IF start \in Recurs[d.master] THEN d.master ELSE "absent"

\* What a full listing reports: every occurrence that was ever changed on its own.
Listed(occ) == {start \in Starts : occ[start] # "follows"} \cup {"series"}

\* A series given another content drops the exceptions its recurrence does not reach.
Reshaped(s, m) ==
  [s EXCEPT !.master = m,
            !.occ = [start \in Starts |-> IF start \in Recurs[m] THEN @[start] ELSE "follows"]]

\* Google cancels a series with its last occurrence.
Surviving(d) ==
  [d EXCEPT !.live = d.live /\ \E start \in Starts : DestinationView(d, start) \notin Hidden]

Init ==
  /\ src \in {s \in SourceSeries : /\ s.master # "cancelled" /\ s.rev = 1
                                   /\ \A start \in Recurs[s.master] : s.occ[start] \notin Masters
                                   /\ \A start \in Starts \ Recurs[s.master] : s.occ[start] = "follows"}
  /\ dst = [live |-> FALSE, master |-> CHOOSE m \in Masters : TRUE, key |-> 0,
            occ |-> [start \in Starts |-> "follows"]]
  /\ mapping = None /\ recorded = [start \in Starts |-> None]
  /\ replays = FALSE /\ synced = FALSE /\ due = FALSE
  /\ srcNews = {} /\ dstNews = {}
  /\ run = None /\ skipped = {}
  /\ \E b \in Bounds :
       left = [source |-> b.source, dest |-> b.dest, faults |-> b.faults, touched |-> FALSE]

-----------------------------------------------------------------------------
(***************************************************************************)
(* People.  What changes after a run read a feed is in the next one.       *)
(***************************************************************************)
SourceChanged(parts) ==
  /\ srcNews' = srcNews \cup parts
  /\ run' = IF Running THEN [run EXCEPT !.srcSince = @ \cup parts] ELSE None
  /\ UNCHANGED <<dst, store, cursors, dstNews, skipped>>

ChangeSeries(m) ==
  /\ Spend("source") /\ src.master # "cancelled"
  /\ src' = [Reshaped(src, m) EXCEPT !.rev = @ + 1]
  /\ SourceChanged({"series"})

CancelSeries ==
  /\ Spend("source") /\ src.master # "cancelled"
  /\ src' = [src EXCEPT !.master = "cancelled", !.rev = @ + 1]
  /\ SourceChanged({"series"})

ChangeOccurrence(start, how) ==
  /\ Spend("source")
  /\ src.master # "cancelled" /\ start \in Recurs[src.master] /\ how # src.occ[start]
  /\ src' = [src EXCEPT !.occ[start] = how]
  /\ SourceChanged({start})

DestinationChanged(next, parts) ==
  /\ dst' = Surviving(next)
  /\ LET changed == parts \cup (IF Surviving(next).live THEN {} ELSE {"series"})
     IN /\ dstNews' = dstNews \cup changed
        /\ run' = IF Running THEN [run EXCEPT !.dstSince = @ \cup changed, !.calm = FALSE] ELSE None
  /\ UNCHANGED <<src, store, cursors, srcNews, skipped>>

EditDestination ==
  /\ Spend("dest") /\ dst.live /\ mapping # None /\ mapping.linked
  /\ \/ \E m \in Masters \ {dst.master} : DestinationChanged(Reshaped(dst, m), {"series"})
     \/ DestinationChanged([dst EXCEPT !.live = FALSE], {"series"})
     \/ \E start \in Starts, how \in {"follows", "edited", "cancelled"} :
          /\ DestinationView(dst, start) # "absent" /\ how # dst.occ[start]
          /\ DestinationChanged([dst EXCEPT !.occ[start] = how], {start})

-----------------------------------------------------------------------------
(***************************************************************************)
(* Beginning a run, and what its feeds ask for.                            *)
(***************************************************************************)
\* calm is history: people have not changed the destination since.
StartRun(full) ==
  /\ ~Running
  /\ full \/ synced
  /\ run' = [full |-> full,
             srcTodo |-> IF full THEN Listed(src.occ) ELSE srcNews, srcSaw |-> src,
             dstTodo |-> IF full THEN Listed(dst.occ) ELSE dstNews, dstSaw |-> dst,
             handled |-> {}, repaired |-> FALSE, live |-> None, known |-> None,
             agenda |-> <<>>, srcSince |-> {}, dstSince |-> {}, calm |-> TRUE]
  /\ due' = (due \/ full)
  /\ skipped' = IF full THEN {} ELSE skipped
  /\ UNCHANGED <<src, dst, store, synced, srcNews, dstNews, left>>

\* The series as a read of the source returned it.
Read(s) == [master |-> s.master, rev |-> s.rev]
Sync(series, actual) == [do |-> "sync", series |-> series, actual |-> actual]
Then(what, series) == [do |-> what, series |-> series]
\* Occurrences to decide: what the source shows at each, as it was read.
Decide(series, wants, current, again) ==
  [do |-> "decide", series |-> series, wants |-> wants, current |-> current, again |-> again]
At(start, want) == [s \in {start} |-> want]

Ask(r, items) == [r EXCEPT !.agenda = items \o @]
Free == Running /\ run.agenda = <<>>
Item == Head(run.agenda)
Doing(what) == Running /\ run.agenda # <<>> /\ Item.do = what
Done == [run EXCEPT !.agenda = Tail(@)]

Only(r) == run' = r /\ UNCHANGED <<src, dst, store, cursors, srcNews, dstNews, skipped, left>>

\* Series before occurrences.
HandleSeries ==
  /\ Free /\ "series" \in run.srcTodo
  /\ Only(Ask([run EXCEPT !.srcTodo = @ \ {"series"}, !.handled = @ \cup {"series"}],
              <<Sync(Read(run.srcSaw), "fresh")>>))

\* An exception whose series has no mapping has it created first.
HandleException(start) ==
  /\ Free /\ "series" \notin run.srcTodo /\ start \in run.srcTodo
  /\ LET r == [run EXCEPT !.srcTodo = @ \ {start}]
         decide == Decide(Read(src), At(start, SourceView(run.srcSaw, start)), TRUE, FALSE)
     IN Only(IF start \in run.handled \/ SourceView(run.srcSaw, start) = "absent" THEN r
             ELSE IF mapping = None /\ "series" \notin run.handled
             THEN Ask([r EXCEPT !.handled = @ \cup {start, "series"}],
                      <<Sync(Read(src), "fresh"), decide>>)
             ELSE Ask(r, <<decide>>))

OwnSeries == ~run.full /\ mapping.linked /\ run.dstSaw.live /\ run.dstSaw.master = mapping.shown

RepairSeries ==
  /\ Free /\ run.srcTodo = {} /\ "series" \in run.dstTodo
  /\ LET r == [run EXCEPT !.dstTodo = @ \ {"series"}]
     IN Only(IF mapping = None \/ "series" \in run.handled THEN r
             ELSE IF OwnSeries THEN r
             ELSE Ask([r EXCEPT !.handled = @ \cup {"series"}],
                      <<Sync(Read(src), IF mapping.linked /\ run.dstSaw.live
                                        THEN run.dstSaw.master ELSE None)>>))

\* Mutant: an occurrence without an Occurrence Mapping is taken for one nobody changed.
OwnOccurrenceUnrecorded(start) ==
  recorded[start] \in {None, DestinationView(run.dstSaw, start)}

OwnOccurrence(start) ==
  ~run.full /\ recorded[start] # None /\ DestinationView(run.dstSaw, start) = recorded[start]

RepairOccurrence(start) ==
  /\ Free /\ run.srcTodo = {} /\ start \in run.dstTodo
  /\ LET r == [run EXCEPT !.dstTodo = @ \ {start}]
     IN Only(IF mapping = None THEN r
             ELSE IF ~mapping.linked \/ OwnOccurrence(start) \/ start \in run.handled THEN r
             ELSE Ask(r, <<Decide(Read(src), At(start, SourceView(src, start)), FALSE, FALSE)>>))

-----------------------------------------------------------------------------
(***************************************************************************)
(* Deciding and applying the series.                                       *)
(***************************************************************************)
Linked == mapping # None /\ mapping.linked

\* The series as it is when it is decided, also in a full run, which may use its listing once.
Actual ==
  IF Item.actual # "fresh" THEN Item.actual
  ELSE IF Linked /\ dst.live THEN dst.master ELSE None

Creating == Item.do = "sync" /\ Item.series.master # "cancelled" /\ Actual = None

\* A write.  Google carries it out; its answer, or the commit after it, may be lost.
\* "kept" are earlier changes of the destination that still concern the mapped series.
Write(next, kept, parts, m, rec, rep, r) ==
  LET changed == parts \cup (IF Surviving(next).live THEN {} ELSE {"series"})
  IN /\ dst' = Surviving(next)
     /\ \/ /\ mapping' = m /\ recorded' = rec /\ replays' = rep
           /\ dstNews' = kept \cup changed
           /\ run' = [r EXCEPT !.dstSince = @ \cup changed]
           /\ UNCHANGED left
        \/ /\ Spend("faults")
           /\ dstNews' = dstNews \cup changed
           /\ run' = None
           /\ mapping' = IF Creating /\ mapping # None THEN [mapping EXCEPT !.linked = FALSE] ELSE mapping
           /\ UNCHANGED <<recorded, replays>>
     /\ skipped' = IF Creating THEN skipped \cup (run.handled \cap Starts) ELSE skipped
     /\ UNCHANGED <<src, cursors, srcNews>>

\* Only the database changes; the commit cannot be told from the step before it.
Save(m, rec, rep, r) ==
  /\ mapping' = m /\ recorded' = rec /\ replays' = rep
  /\ run' = r
  /\ UNCHANGED <<src, dst, cursors, srcNews, dstNews, skipped, left>>

\* Asked once per run; Google may count a series it cannot expand as live.
LiveAnswers ==
  IF run.live # None THEN {run.live}
  ELSE IF src.master = "cancelled" THEN BOOLEAN
  ELSE {\E start \in Starts : SourceView(src, start) \notin Hidden}

\* A create whose answer was lost is found again by its Operation Key.
Acknowledged(series) == dst.live /\ ~Linked /\ dst.key = series.rev

\* Mutant: the new revision is recorded with the series, before its occurrences.
RevisionAtOnce(series) == series.rev

\* A series with Occurrence Mappings keeps its revision until they are re-verified.
Revision(series) ==
  IF \E start \in Starts : recorded[start] # None THEN mapping.rev ELSE series.rev

Reverify(series) == <<Then("reverify", series), Then("complete", series)>>

SyncRemove ==
  /\ Doing("sync") /\ Item.series.master = "cancelled"
  /\ IF mapping = None THEN Only(Done)
     ELSE Write([dst EXCEPT !.live = @ /\ ~mapping.linked], dstNews,
                IF mapping.linked THEN {"series"} ELSE {},
                None, [start \in Starts |-> None], FALSE, [Done EXCEPT !.known = None])

\* Mutant: the replay a created series needs is not recorded with its mapping.
NeedsReplayUnrecorded == replays

NeedsReplay == replays \/ ~run.full

SyncCreate ==
  /\ Doing("sync") /\ Creating
  /\ TRUE \in LiveAnswers
  /\ LET series == Item.series
         found == Acknowledged(series)
         next == IF found THEN dst
                 ELSE [live |-> TRUE, master |-> series.master, key |-> series.rev,
                       occ |-> [start \in Starts |-> "follows"]]
         r == [Done EXCEPT !.live = TRUE, !.known = None,
                           !.dstTodo = IF found THEN @ ELSE {}, !.dstSince = IF found THEN @ ELSE {}]
     IN Write(next, IF found THEN dstNews ELSE {}, {"series"},
              [linked |-> TRUE, rev |-> series.rev, shown |-> series.master], recorded, NeedsReplay,
              Ask(r, Reverify(series) \o
                     (IF run.full THEN <<>> ELSE <<Then("replay", series)>>)))

\* A series without a live occurrence is not created; one created before is removed.
SyncDormant ==
  /\ Doing("sync") /\ Creating
  /\ FALSE \in LiveAnswers
  /\ LET r == [Done EXCEPT !.live = FALSE]
     IN IF mapping = None /\ Acknowledged(Item.series)
        THEN Write([dst EXCEPT !.live = FALSE], dstNews, {"series"}, None, recorded, replays, r)
        ELSE Only(r)

SyncUpdate ==
  /\ Doing("sync") /\ Item.series.master # "cancelled" /\ Actual \notin {None, Item.series.master}
  /\ dst.live
  /\ Write(Reshaped(dst, Item.series.master), dstNews, {"series"},
           [mapping EXCEPT !.rev = Revision(Item.series), !.shown = Item.series.master],
           recorded, replays, Ask([Done EXCEPT !.known = None], Reverify(Item.series)))

\* The projection was deleted after the feed reported it: the update is refused, the run fails.
SyncRefused ==
  /\ Doing("sync") /\ Item.series.master # "cancelled" /\ Actual \notin {None, Item.series.master}
  /\ ~dst.live
  /\ Only(None)

SyncCurrent ==
  /\ Doing("sync") /\ Item.series.master # "cancelled" /\ Actual = Item.series.master
  /\ IF mapping.rev = Item.series.rev THEN Only(Done)
     ELSE Save([mapping EXCEPT !.rev = Revision(Item.series), !.shown = Item.series.master],
               recorded, replays, Ask(Done, Reverify(Item.series)))

\* Occurrences that are cancelled or differ from what the series repeats.
Exceptions == {start \in Starts : SourceView(src, start) \notin {src.master, "absent"}}

\* Mutant: an occurrence the exceptions do not list is taken for absent.
RereadListed(start) == IF start \in Exceptions THEN SourceView(src, start) ELSE "absent"

Reread(start) == SourceView(src, start)

\* One listing of the series answers for most of them; the others are looked up one by one.
ListOccurrences(pending) == [start \in pending |-> Reread(start)]

ReverifyRecorded ==
  /\ Doing("reverify")
  /\ LET pending == {start \in Starts : recorded[start] # None} \ run.handled
     IN Only(IF pending = {} THEN Done
             ELSE Ask(Done, <<Decide(Item.series, ListOccurrences(pending), TRUE, FALSE)>>))

CompleteRevision ==
  /\ Doing("complete")
  /\ Save(IF mapping = None THEN None ELSE [mapping EXCEPT !.rev = Item.series.rev],
          recorded, replays, Done)

ReplayExceptions ==
  /\ Doing("replay")
  /\ LET missing == Exceptions \ run.handled
         wants == [start \in missing |-> SourceView(src, start)]
     IN Only(Ask(Done, (IF missing = {} THEN <<>> ELSE <<Decide(Item.series, wants, TRUE, FALSE)>>)
                       \o <<Then("replayed", Item.series)>>))

ReplayDone == Doing("replayed") /\ Save(mapping, recorded, FALSE, Done)

-----------------------------------------------------------------------------
(***************************************************************************)
(* Deciding and applying one occurrence.                                   *)
(***************************************************************************)
\* The destination series is read once per run, until the run writes it.
Known == IF run.known = None THEN Linked /\ dst.live ELSE run.known

Outcome(start) ==
  LET want == Item.wants[start]
      shown == DestinationView(dst, start)
  IN IF mapping = None \/ Item.series.master = "cancelled" THEN "ignore"
     ELSE IF ~Known THEN (IF Item.again /\ run.live = FALSE THEN "ignore" ELSE "missing")
     ELSE IF want = "absent" THEN (IF shown \in Hidden THEN "retire" ELSE "cancel")
     ELSE IF want = "cancelled" THEN (IF shown \in Hidden THEN "unchanged" ELSE "cancel")
     ELSE IF shown = "absent" THEN "missing"
     ELSE IF shown = want THEN "unchanged"
     ELSE "update"

Decided(start) ==
  LET others == DOMAIN Item.wants \ {start}
      rest == IF others = {} THEN <<>>
              ELSE <<[Item EXCEPT !.wants = [s \in others |-> Item.wants[s]]]>>
  IN [Ask(Done, rest) EXCEPT !.known = IF mapping = None THEN @ ELSE Known]

Handled(start) ==
  [Decided(start) EXCEPT
     !.handled = IF Item.wants[start] # "absent" \/ recorded[start] # None THEN @ \cup {start} ELSE @]

\* Mutant: every missing occurrence has its series repaired, also by a repair.
MayRepairAlways == TRUE

MayRepair == ~Item.again

\* The series is repaired once per run; then the occurrence is decided again.
RepairMissing(start) ==
  /\ Doing("decide") /\ start \in DOMAIN Item.wants
  /\ Outcome(start) = "missing" /\ MayRepair
  /\ \E live \in LiveAnswers :
       LET want == Item.wants[start]
           r == [Decided(start) EXCEPT
                   !.live = live, !.repaired = @ \/ live,
                   !.handled = IF live /\ want # "absent" THEN @ \cup {start} ELSE @]
       IN Only(Ask(r, (IF live /\ ~run.repaired THEN <<Sync(Item.series, "fresh")>> ELSE <<>>)
                      \o <<Decide(Item.series, At(start, want), Item.current, TRUE)>>))

\* Mutant: an occurrence found absent is recorded like one found cancelled.
RetiredRecorded(start) == Item.wants[start]

Retired(start) == IF Item.wants[start] = "absent" THEN None ELSE "cancelled"

\* The series was cancelled after the run had read it.  Google need not answer for its occurrences.
OccurrenceRefused(start) ==
  /\ Doing("decide") /\ start \in DOMAIN Item.wants
  /\ mapping # None /\ Item.series.master # "cancelled"
  /\ Known /\ ~dst.live
  /\ Only(None)

WriteOccurrence(start, want) == [dst EXCEPT !.occ[start] = want]
CancelOccurrence(start) == [dst EXCEPT !.occ[start] = "cancelled"]

ApplyOccurrence(start) ==
  /\ Doing("decide") /\ start \in DOMAIN Item.wants
  /\ LET want == Item.wants[start]
         outcome == Outcome(start)
         record(value) == [recorded EXCEPT ![start] = value]
     IN \/ /\ \/ outcome = "ignore"
              \/ outcome = "missing" /\ ~MayRepair
           /\ Only(Handled(start))
        \/ /\ outcome = "retire"
           /\ Save(mapping, record(Retired(start)), replays, Handled(start))
        \/ /\ outcome = "unchanged"
           /\ Save(mapping, IF Item.current /\ DestinationView(dst, start) # "absent"
                            THEN record(want) ELSE recorded, replays, Handled(start))
        \/ /\ outcome = "update"
           /\ Write(WriteOccurrence(start, want), dstNews, {start},
                    mapping, record(want), replays, Handled(start))
        \/ /\ outcome = "cancel"
           /\ Write(CancelOccurrence(start), dstNews, {start},
                    mapping, record(Retired(start)), replays, Handled(start))

-----------------------------------------------------------------------------
(***************************************************************************)
(* Ending a run.                                                           *)
(***************************************************************************)
Ended == Free /\ run.srcTodo = {} /\ run.dstTodo = {}

\* A full listing applied every exception, and a series that is gone has none.
FinishReplay ==
  /\ Ended /\ replays
  /\ IF run.full \/ src.master = "cancelled"
     THEN Save(mapping, recorded, FALSE, run)
     ELSE Only(Ask(run, <<Then("replay", Read(src))>>))

AdvanceCursors ==
  /\ Ended /\ ~replays
  /\ synced' = TRUE /\ due' = (due /\ ~run.full)
  /\ srcNews' = run.srcSince /\ dstNews' = run.dstSince
  /\ run' = None
  /\ UNCHANGED <<src, dst, store, skipped, left>>

FailRun ==
  /\ Running /\ Spend("faults")
  /\ run' = None
  /\ UNCHANGED <<src, dst, store, cursors, srcNews, dstNews, skipped>>

RunStep ==
  \/ HandleSeries \/ RepairSeries
  \/ SyncRemove \/ SyncCreate \/ SyncDormant \/ SyncUpdate \/ SyncRefused \/ SyncCurrent
  \/ ReverifyRecorded \/ CompleteRevision \/ ReplayExceptions \/ ReplayDone
  \/ \E start \in Starts : \/ HandleException(start) \/ RepairOccurrence(start)
                           \/ RepairMissing(start) \/ OccurrenceRefused(start) \/ ApplyOccurrence(start)
  \/ FinishReplay \/ AdvanceCursors

People ==
  \/ \E m \in Masters : ChangeSeries(m)
  \/ CancelSeries
  \/ \E start \in Starts, how \in {"moved", "cancelled", src.master} : ChangeOccurrence(start, how)
  \/ EditDestination

Next ==
  \/ People
  \/ \E full \in BOOLEAN : StartRun(full)
  \/ RunStep
  \/ FailRun

Spec == Init /\ [][Next]_vars

FairSpec == Spec /\ WF_vars(RunStep) /\ SF_vars(StartRun(TRUE))

-----------------------------------------------------------------------------
Called(start) == IF SourceView(src, start) \in Hidden THEN "absent" ELSE SourceView(src, start)
Shown(start) ==
  IF ~Linked \/ DestinationView(dst, start) \in Hidden THEN "absent" ELSE DestinationView(dst, start)
InStep(start) == Shown(start) = Called(start)

\* Some later run is bound to look at the occurrence, or at its series, and to act.
Due(start) ==
  \/ ~synced \/ due \/ replays
  \/ start \in srcNews
  \/ start \in dstNews /\ recorded[start] # DestinationView(dst, start)
  \/ "series" \in srcNews /\ (~Linked \/ ~dst.live \/ dst.master # src.master \/ mapping.rev # src.rev)
  \/ "series" \in dstNews /\ mapping # None /\ (~Linked \/ ~dst.live \/ dst.master # mapping.shown)

-----------------------------------------------------------------------------
(***************************************************************************)
(* What a Full Reconciliation reports of the series.  It holds the rule's  *)
(* lock, so no run is in flight, and it only reads.                        *)
(***************************************************************************)
Projected == Linked /\ dst.live

\* A series with no occurrence left to project has no projection to verify.
Dormant == ~Projected /\ ~\E start \in Starts : SourceView(src, start) \notin Hidden

Verified == mapping # None /\ src.master # "cancelled" /\ ~Dormant

SeriesFinding ==
  CASE mapping = None -> "none"
    [] mapping # None /\ src.master = "cancelled" -> IF Projected THEN "unexpected" ELSE "none"
    [] Verified /\ ~Projected -> "missing"
    [] Verified /\ Projected /\ dst.master # src.master -> "incorrect"
    [] OTHER -> "none"

\* Only recorded occurrences are checked, each against what the source calls for.
Checked == IF Verified THEN {start \in Starts : recorded[start] # None} ELSE {}

\* Mutant: an occurrence the source does not call for is not looked at in the destination.
OccurrenceDriftCalled(start) ==
  /\ start \in Checked
  /\ Called(start) \notin {"absent", DestinationView(dst, start)}

OccurrenceDrift(start) ==
  LET actual == IF Projected THEN DestinationView(dst, start) ELSE "absent" IN
  /\ start \in Checked
  /\ IF actual \in Hidden THEN Called(start) # "absent" ELSE actual # Called(start)

\* An exception of the mapped series that no Occurrence Mapping accounts for.  A cancelled one has
\* no Managed Origin and is not listed.
UnmappedOccurrence(start) ==
  Projected /\ dst.occ[start] \notin {"follows", "cancelled"} /\ start \notin Checked

Told(start) == SeriesFinding # "none" \/ OccurrenceDrift(start) \/ UnmappedOccurrence(start)

-----------------------------------------------------------------------------
(***************************************************************************)
(* As long as people leave the destination alone, an occurrence that is    *)
(* not in step between runs is one a later incremental run, or a full pass *)
(* already begun, is bound to look at: neither a failed run, a series that *)
(* comes back nor a recorded revision leaves one behind.  Left out are the *)
(* occurrences a run handled before it recreated their series; the finding *)
(* CancelledStaysHidden is about those.                                    *)
(***************************************************************************)
NoStaleOccurrence ==
  ~Running /\ ~left.touched => \A start \in Starts \ skipped : InStep(start) \/ Due(start)

(***************************************************************************)
(* Every state is well typed and leaves no occurrence behind unnoticed.    *)
(***************************************************************************)
SeriesInv == TypeOK /\ NoStaleOccurrence

(***************************************************************************)
(* What docs/adr/0011 says of the cancelled Occurrence Mappings: they are  *)
(* kept so that a recreated destination series cannot resurrect what the   *)
(* source cancelled.                                                       *)
(***************************************************************************)
CancelledStaysHidden ==
  ~Running => \A start \in Starts :
    recorded[start] = "cancelled" /\ SourceView(src, start) = "cancelled"
      => Shown(start) = "absent" \/ Due(start)

(***************************************************************************)
(* A run takes an occurrence the source calls for from the destination     *)
(* only if the source called for it after the run read its feed.           *)
(***************************************************************************)
HidesOnlyProven ==
  [][\A start \in Starts :
       /\ Running /\ src' = src /\ left'.dest = left.dest
       /\ InStep(start) /\ Shown(start) # "absent" /\ Shown(start)' = "absent"
       => run.srcSince \cap {start, "series"} # {}]_vars

(***************************************************************************)
(* Reconcile Now is a full pass and then a reconciliation.  If nobody      *)
(* changed either calendar since the pass read it, the reconciliation      *)
(* tells of every occurrence the pass left out of step, and otherwise only *)
(* of exceptions that no Occurrence Mapping accounts for.  It cannot tell  *)
(* of an occurrence that the pass found as it should be, recorded nothing  *)
(* of, and then brought back by creating the series anew.                  *)
(***************************************************************************)
ReconcileNowTells ==
  [][AdvanceCursors /\ run.full /\ run.calm /\ run.srcSince = {} =>
       \A start \in Starts :
         /\ ~InStep(start) => Told(start) \/ (start \in skipped /\ recorded[start] = None)
         /\ Told(start) => ~InStep(start) \/ UnmappedOccurrence(start)]_vars

(***************************************************************************)
(* What a step of a run may never do to an occurrence, and what the check  *)
(* after a full pass may never miss.                                       *)
(***************************************************************************)
OccurrenceSteps == HidesOnlyProven /\ ReconcileNowTells

(***************************************************************************)
(* Every run ends: repairs of series and occurrences do not go on asking   *)
(* for each other.                                                         *)
(***************************************************************************)
RunsEnd == Running ~> ~Running

(***************************************************************************)
(* Once people leave both calendars alone, the destination comes to show   *)
(* what the source does, and stays so: the daily pass repairs what         *)
(* incremental runs cannot see.                                            *)
(***************************************************************************)
SeriesSettles == <>[](\A start \in Starts : InStep(start))
=============================================================================
