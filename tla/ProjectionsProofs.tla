-------------------------- MODULE ProjectionsProofs --------------------------
(***************************************************************************)
(* What Projections guarantees for any event times, offsets, zones and     *)
(* number of changes: a run settles, a preview is honoured, occurrences    *)
(* that are no exceptions follow their series, and the reason that a run   *)
(* gives for rewriting a projection is a true one.                         *)
(*                                                                         *)
(* Google reports one event in many ways.  The lemmas say that none of     *)
(* them matters: an event is projected, fingerprinted and decided on as if *)
(* its times had been read as instants.  The invariant then relates the    *)
(* fingerprint that the Event Mapping keeps to the source, to the          *)
(* projection, and to what people changed since it was recorded.           *)
(***************************************************************************)
EXTENDS Projections, TLAPS

Causes == {"source", "reply", "policy", "destination"}

TypeOK ==
  /\ source \in KeptEvents /\ revision \in Nat
  /\ occurrence \in {Nothing} \cup {e \in KeptEvents : e.recurrence = Nothing}
  /\ policy \in Policies /\ reprojection \in BOOLEAN
  /\ held \in KeptEvents \cup {Nothing} /\ mapping \in Mappings \cup {Nothing}
  /\ mapping # Nothing => held \in KeptEvents
  /\ causes \subseteq Causes
  /\ changes \in Nat

\* The time of an event as instants, with the zone that matters.
KeptTime(k) ==
  [allDay |-> k.time.allDay, from |-> k.time.from, to |-> k.time.to,
   zone |-> IF ~k.time.allDay /\ k.recurrence # Nothing THEN k.zone ELSE Nothing]

\* An event without the offsets and zones that Google happens to report it in.
AsRead(k) ==
  [status |-> k.status, time |-> KeptTime(k), title |-> k.title, details |-> k.details,
   response |-> Response(k), recurrence |-> k.recurrence, owned |-> k.owned]

\* What the projection of the source should show, and what a projection shows.
Wanted == Project(AsRead(source))
Shown(k) == AsProjection(AsRead(k))

Found == mapping # Nothing /\ held.status # "cancelled"
Managed == mapping # Nothing /\ held.owned

HasEnded ==
  /\ source.recurrence = Nothing
  /\ IF source.time.allDay THEN source.time.to < Date(Window) ELSE source.time.to < Window

\* The decision of a run, in terms of what Google keeps.
Verdict ==
  IF Found /\ ~held.owned THEN Decided("conflict", "ownership_inconsistent")
  ELSE IF ~Projects(AsRead(source))
  THEN Decided(IF mapping # Nothing THEN "delete" ELSE "ignore", "not_projected")
  ELSE IF mapping = Nothing /\ HasEnded THEN Decided("ignore", "before_sync_window")
  ELSE IF ~Found /\ source.recurrence # Nothing /\ ~HasLiveOccurrences
  THEN Decided("ignore", "series_without_occurrences")
  ELSE IF mapping = Nothing THEN Decided("create", "source_created")
  ELSE IF ~Found THEN Decided("create", "projection_missing")
  ELSE IF Wanted = Shown(held) THEN Decided("ignore", "projection_current")
  ELSE Decided("update", UpdateReason(Wanted, Shown(held)))

-----------------------------------------------------------------------------
(***************************************************************************)
(* The invariant.                                                          *)
(***************************************************************************)
\* Revisions grow, and a projection that a person deleted has lost its evidence of ownership.
Ordered ==
  /\ mapping # Nothing => mapping.revision <= revision
  /\ mapping # Nothing /\ held.status = "cancelled" => ~held.owned

\* A managed projection shows what was recorded, unless a person changed it.
ShowsRecorded == Managed => "destination" \in causes \/ Shown(held) = mapping.fingerprint

\* What was recorded is still wanted, unless the source changed, the rule asks for reprojection,
\* or a person gave the projection what a new policy wants before a run could.
RecordedIsWanted ==
  Managed => \/ Wanted = mapping.fingerprint
             \/ reprojection
             \/ "source" \in causes /\ mapping.revision # revision
             \/ {"policy", "destination"} \subseteq causes

\* A new revision is a change of the source or a reply.
Renewed == Managed /\ mapping.revision # revision => "source" \in causes \/ "reply" \in causes

\* Reprojection is asked for by a new policy.
Asked == reprojection => "policy" \in causes

\* A run leaves nothing to do.
Settled == last # Nothing => Verdict.action \in {"ignore", "conflict"}

Inv ==
  /\ TypeOK /\ Ordered
  /\ ShowsRecorded /\ RecordedIsWanted /\ Renewed /\ Asked
  /\ Settled /\ ReasonIsTrue

-----------------------------------------------------------------------------
(***************************************************************************)
(* Reading and writing events.                                             *)
(***************************************************************************)
\* Instant undoes DateTime, whatever the offset.
LEMMA InstantOfDateTime ==
  ASSUME NEW at \in Int, NEW offset \in Int
  PROVE  /\ DateTime(at, offset) \in [local : Int, offset : Int]
         /\ Instant(DateTime(at, offset)) = at
  BY DEF DateTime, Instant

\* A read time is the kept one in some offset and zone.
ReadsTime(k, t) ==
  /\ t \in ReadTimes
  /\ t.allDay = k.time.allDay
  /\ k.time.allDay => t.from = k.time.from /\ t.to = k.time.to /\ t.zone = Nothing
  /\ ~k.time.allDay => Instant(t.from) = k.time.from /\ Instant(t.to) = k.time.to
  /\ ~k.time.allDay /\ k.recurrence # Nothing => t.zone = k.zone

LEMMA ReadingTime ==
  ASSUME NEW k \in KeptEvents, NEW offset \in Offsets,
         NEW zone \in IF k.recurrence # Nothing THEN {k.zone} ELSE Zones \cup {Nothing},
         NEW p, p.time = [start |-> Bound(k, k.time.from, offset, zone),
                          end |-> Bound(k, k.time.to, offset, zone)]
  PROVE  ReadsTime(k, ParseTime(p))
<1>1. k.time \in [allDay : BOOLEAN, from : Int, to : Int] /\ k.zone \in Zones \cup {Nothing}
  BY ProjectionsAssumption DEF KeptEvents
<1>2. offset \in Int
  BY ProjectionsAssumption
<1>3. zone \in Zones \cup {Nothing} /\ (k.recurrence # Nothing => zone = k.zone)
  BY <1>1
<1>4. CASE k.time.allDay
  <2>1. p.time.start = [date |-> k.time.from] /\ p.time.end = [date |-> k.time.to]
    BY <1>4 DEF Bound
  <2>2. "date" \in DOMAIN p.time.start
    BY <2>1
  <2>3. p.time.start.date = k.time.from /\ p.time.end.date = k.time.to
    BY <2>1
  <2>4. ParseTime(p) = [allDay |-> TRUE, from |-> k.time.from, to |-> k.time.to, zone |-> Nothing]
    BY <2>2, <2>3 DEF ParseTime
  <2> QED BY <1>1, <1>4, <2>4 DEF ReadsTime, ReadTimes
<1>5. CASE ~k.time.allDay
  <2> DEFINE from == DateTime(k.time.from, offset)
             to == DateTime(k.time.to, offset)
  <2>1. /\ from \in [local : Int, offset : Int] /\ Instant(from) = k.time.from
        /\ to \in [local : Int, offset : Int] /\ Instant(to) = k.time.to
    BY <1>1, <1>2, InstantOfDateTime
  <2>2. /\ p.time.start = [dateTime |-> from, timeZone |-> zone]
        /\ p.time.end = [dateTime |-> to, timeZone |-> zone]
    BY <1>5 DEF Bound
  <2> HIDE DEF from, to
  <2>3. "date" \notin DOMAIN p.time.start
    BY <2>2
  <2>4. /\ p.time.start.dateTime = from /\ p.time.start.timeZone = zone
        /\ p.time.end.dateTime = to
    BY <2>2
  <2>5. ParseTime(p) = [allDay |-> FALSE, from |-> from, to |-> to, zone |-> zone]
    BY <2>3, <2>4 DEF ParseTime
  <2> DEFINE t == ParseTime(p)
  <2>6. t.allDay = FALSE /\ t.from = from /\ t.to = to /\ t.zone = zone
    BY <2>5
  <2>7. t \in ReadTimes
    BY <1>3, <2>1, <2>5 DEF ReadTimes
  <2> QED BY <1>1, <1>3, <1>5, <2>1, <2>6, <2>7 DEF ReadsTime
<1> QED BY <1>4, <1>5

\* What a read tells of an event: all of it, but for how its time is told.
Reads(k, e) ==
  /\ e \in DomainEvents /\ ReadsTime(k, e.time)
  /\ e = [AsRead(k) EXCEPT !.time = e.time]

LEMMA Reading ==
  ASSUME NEW k \in KeptEvents, NEW e \in Read(k)
  PROVE  Reads(k, e)
<1>1. PICK p \in Payloads(k) : e = ToDomainEvent(p)
  BY DEF Read
<1>2. PICK offset \in Offsets,
           zone \in IF k.recurrence # Nothing THEN {k.zone} ELSE Zones \cup {Nothing} :
        p = [k EXCEPT !.time = [start |-> Bound(k, k.time.from, offset, zone),
                                end |-> Bound(k, k.time.to, offset, zone)]]
  BY <1>1 DEF Payloads
<1>3. /\ p.status = k.status /\ p.title = k.title /\ p.details = k.details
      /\ p.answer = k.answer /\ p.recurrence = k.recurrence /\ p.owned = k.owned
      /\ p.time = [start |-> Bound(k, k.time.from, offset, zone),
                   end |-> Bound(k, k.time.to, offset, zone)]
  BY <1>2 DEF KeptEvents
<1> HIDE <1>2
<1>4. ReadsTime(k, ParseTime(p))
  BY <1>3, ReadingTime
<1>5. Response(p) = Response(k) /\ Response(k) \in Answers
  BY <1>3 DEF Response, KeptEvents, Answers
<1> DEFINE t == ParseTime(p)
<1>6. e = [status |-> k.status, time |-> t, title |-> k.title, details |-> k.details,
           response |-> Response(k), recurrence |-> k.recurrence, owned |-> k.owned]
  BY <1>1, <1>3, <1>5 DEF ToDomainEvent
<1>7. ReadsTime(k, t)
  BY <1>4
<1> HIDE DEF t
<1>8. e.time = t
  BY <1>6
<1>9. e = [AsRead(k) EXCEPT !.time = e.time]
  BY <1>6, <1>8 DEF AsRead
<1>10. e \in DomainEvents
  BY <1>5, <1>6, <1>7 DEF ReadsTime, DomainEvents, KeptEvents
<1> QED BY <1>7, <1>8, <1>9, <1>10 DEF Reads

LEMMA ReadFields ==
  ASSUME NEW k \in KeptEvents, NEW e, Reads(k, e)
  PROVE  /\ e.status = k.status /\ e.title = k.title /\ e.details = k.details
         /\ e.response = Response(k) /\ e.recurrence = k.recurrence /\ e.owned = k.owned
         /\ AsRead(k).status = k.status /\ AsRead(k).title = k.title
         /\ AsRead(k).details = k.details /\ AsRead(k).response = Response(k)
         /\ AsRead(k).recurrence = k.recurrence /\ AsRead(k).time = KeptTime(k)
         /\ e.time.allDay = k.time.allDay /\ AsRead(k).time.allDay = k.time.allDay
  BY DEF Reads, AsRead, ReadsTime, KeptTime

\* The instants of a time that was read are the kept ones; so are its zone and its day.
LEMMA SerializedTime ==
  ASSUME NEW k \in KeptEvents, NEW t, ReadsTime(k, t)
  PROVE  SerializeTime(t, k.recurrence # Nothing) = KeptTime(k)
<1>1. CASE k.time.allDay
  <2>1. t \in [allDay : {TRUE}, from : Int, to : Int, zone : {Nothing}]
    BY <1>1 DEF ReadsTime, ReadTimes
  <2>2. t = [allDay |-> TRUE, from |-> k.time.from, to |-> k.time.to, zone |-> Nothing]
    BY <1>1, <2>1 DEF ReadsTime
  <2> QED BY <1>1, <2>2 DEF SerializeTime, KeptTime
<1>2. CASE ~k.time.allDay
  <2>0. k.time.allDay = FALSE
    BY <1>2, ProjectionsAssumption DEF KeptEvents
  <2> QED BY <1>2, <2>0 DEF SerializeTime, KeptTime, ReadsTime
<1> QED BY <1>1, <1>2

LEMMA ProjectShape ==
  ASSUME NEW e
  PROVE  /\ Project(e) = [time |-> e.time, recurrence |-> e.recurrence,
                          title |-> Project(e).title, details |-> Project(e).details]
         /\ Project(e).time = e.time /\ Project(e).recurrence = e.recurrence
         /\ Project(e).details = IF policy.content = "busy_only" THEN "" ELSE e.details
<1> DEFINE title == Titled(IF policy.content = "busy_only" THEN "Busy" ELSE e.title.text,
                           CASE ~MarksTentative(e) -> ""
                             [] MarksTentative(e) /\ policy.content = "busy_only" -> "(tentative)"
                             [] MarksTentative(e) /\ ~(policy.content = "busy_only") -> "Maybe:")
       details == IF policy.content = "busy_only" THEN "" ELSE e.details
<1>1. Project(e) = [time |-> e.time, recurrence |-> e.recurrence, title |-> title,
                    details |-> details]
  BY DEF Project
<1> HIDE DEF title, details
<1>2. /\ Project(e).time = e.time /\ Project(e).recurrence = e.recurrence
      /\ Project(e).title = title /\ Project(e).details = details
  BY <1>1
<1> QED BY <1>1, <1>2 DEF details

\* Whether an event is projected, and what its projection shows, is the same however it is told.
LEMMA ToldAlike ==
  ASSUME NEW k \in KeptEvents, NEW e, Reads(k, e)
  PROVE  /\ Exclusions(e) = Exclusions(AsRead(k))
         /\ Projects(e) <=> Projects(AsRead(k))
         /\ Fingerprint(Project(e)) = Project(AsRead(k))
         /\ Fingerprint(AsProjection(e)) = Shown(k)
<1> DEFINE f == AsRead(k)
<1>0. /\ e.status = f.status /\ e.title = f.title /\ e.details = f.details
      /\ e.response = f.response /\ e.time.allDay = f.time.allDay
      /\ e.recurrence = k.recurrence /\ f.recurrence = k.recurrence
      /\ f.time = KeptTime(k)
  BY ReadFields
<1> HIDE DEF f
<1>1. ResponseTo(e) = ResponseTo(f)
  BY <1>0 DEF ResponseTo
<1>2. Exclusions(e) = Exclusions(f)
  BY <1>0, <1>1 DEF Exclusions
<1>3. MarksTentative(e) <=> MarksTentative(f)
  BY <1>0, <1>1 DEF MarksTentative
<1>4. /\ Project(e) = [time |-> e.time, recurrence |-> e.recurrence,
                       title |-> Project(e).title, details |-> Project(e).details]
      /\ Project(e).time = e.time /\ Project(e).recurrence = e.recurrence
      /\ Project(e).details = IF policy.content = "busy_only" THEN "" ELSE e.details
  BY ProjectShape
<1>5. /\ Project(f) = [time |-> f.time, recurrence |-> f.recurrence,
                       title |-> Project(f).title, details |-> Project(f).details]
      /\ Project(f).details = IF policy.content = "busy_only" THEN "" ELSE f.details
  BY ProjectShape
<1>6. Project(e).title = Project(f).title
  <2>1. CASE ~MarksTentative(e)
    BY <1>0, <1>3, <2>1 DEF Project
  <2>2. CASE MarksTentative(e) /\ policy.content = "busy_only"
    BY <1>0, <1>3, <2>2 DEF Project
  <2>3. CASE MarksTentative(e) /\ policy.content # "busy_only"
    BY <1>0, <1>3, <2>3 DEF Project
  <2> QED BY <2>1, <2>2, <2>3
<1>7. Project(e).details = Project(f).details
  BY <1>0, <1>4, <1>5
<1>8. SerializeTime(e.time, k.recurrence # Nothing) = KeptTime(k)
  BY SerializedTime DEF Reads
<1>9. Fingerprint(Project(e)) = Project(f)
  <2>1. Fingerprint(Project(e)) = [Project(e) EXCEPT !.time = KeptTime(k)]
    BY <1>0, <1>4, <1>8 DEF Fingerprint
  <2>2. Project(f) = [time |-> KeptTime(k), recurrence |-> e.recurrence,
                      title |-> Project(e).title, details |-> Project(e).details]
    BY <1>0, <1>5, <1>6, <1>7
  <2> DEFINE title == Project(e).title
             details == Project(e).details
  <2>3. Project(e) = [time |-> e.time, recurrence |-> e.recurrence,
                      title |-> title, details |-> details]
    BY <1>4
  <2> HIDE DEF title, details
  <2>4. [Project(e) EXCEPT !.time = KeptTime(k)]
          = [time |-> KeptTime(k), recurrence |-> e.recurrence,
             title |-> title, details |-> details]
    BY <2>3
  <2> QED BY <2>1, <2>2, <2>4 DEF title, details
<1>10. Fingerprint(AsProjection(e)) = Shown(k)
  <2>1. AsProjection(e).recurrence = k.recurrence /\ AsProjection(e).time = e.time
    BY <1>0 DEF AsProjection
  <2>2. Fingerprint(AsProjection(e)) = [AsProjection(e) EXCEPT !.time = KeptTime(k)]
    BY <2>1, <1>8 DEF Fingerprint
  <2>3. Shown(k) = AsProjection(f)
    BY DEF Shown, f
  <2> QED BY <1>0, <2>2, <2>3 DEF AsProjection
<1>11. Projects(e) <=> Projects(f)
  BY <1>0, <1>2 DEF Projects
<1> QED BY <1>2, <1>9, <1>10, <1>11 DEF f

\* What is projected can be kept.
LEMMA ProjectTyped ==
  ASSUME NEW k \in KeptEvents, NEW e, Reads(k, e)
  PROVE  /\ Project(e).title \in Titlings /\ Project(e).details \in Details
         /\ Project(AsRead(k)) \in Fingerprints
<1> DEFINE f == AsRead(k)
<1>1. /\ e.title = k.title /\ e.details = k.details /\ e.recurrence = k.recurrence
      /\ f.time = KeptTime(k) /\ f.recurrence = k.recurrence
  BY ReadFields
<1>2. k.title \in Titlings /\ k.details \in Details /\ k.recurrence \in Recurrences
  BY DEF KeptEvents
<1>3. Fingerprint(Project(e)) = Project(f)
  BY ToldAlike
<1> HIDE DEF f
<1>4. Project(e).details \in Details
  <2>1. Project(e).details = IF policy.content = "busy_only" THEN "" ELSE e.details
    BY ProjectShape
  <2> QED BY <1>1, <1>2, <2>1 DEF Details
<1>5. Project(e).title \in Titlings
  <2> DEFINE text == IF policy.content = "busy_only" THEN "Busy" ELSE e.title.text
  <2>1. text \in {"", "t1", "t2", "Busy"}
    BY <1>1, <1>2 DEF Titlings
  <2>2. \/ Project(e).title = Titled(text, "")
        \/ Project(e).title = Titled(text, "(tentative)")
        \/ Project(e).title = Titled(text, "Maybe:")
    <3>1. CASE ~MarksTentative(e)
      <4>1. Project(e).title = Titled(text, "")
        BY <3>1 DEF Project
      <4> QED BY <4>1
    <3>2. CASE MarksTentative(e) /\ policy.content = "busy_only"
      <4>1. Project(e).title = Titled(text, "(tentative)")
        BY <3>2 DEF Project
      <4> QED BY <4>1
    <3>3. CASE MarksTentative(e) /\ policy.content # "busy_only"
      <4>1. Project(e).title = Titled(text, "Maybe:")
        BY <3>3 DEF Project
      <4> QED BY <4>1
    <3> QED BY <3>1, <3>2, <3>3
  <2> HIDE DEF text
  <2>3. PICK mark \in {"", "(tentative)", "Maybe:"} : Project(e).title = Titled(text, mark)
    BY <2>2
  <2>4. Titled(text, mark) \in Titlings
    BY <2>1 DEF Titled, Titlings
  <2> QED BY <2>3, <2>4
<1>6. KeptTime(k) \in [allDay : BOOLEAN, from : Int, to : Int, zone : Zones \cup {Nothing}]
  BY ProjectionsAssumption DEF KeptTime, KeptEvents
<1>7. Project(f) \in Fingerprints
  <2> DEFINE title == Project(f).title
             details == Project(f).details
  <2>1. Project(f) = [time |-> KeptTime(k), recurrence |-> k.recurrence,
                      title |-> title, details |-> details]
    BY <1>1, ProjectShape
  <2>2. title = Project(e).title /\ details = Project(e).details
    <3> DEFINE shown == Project(e)
    <3>1. Fingerprint(shown) = [shown EXCEPT !.time = SerializeTime(shown.time, shown.recurrence # Nothing)]
      BY DEF Fingerprint
    <3>2. shown = [time |-> e.time, recurrence |-> e.recurrence,
                   title |-> shown.title, details |-> shown.details]
      BY ProjectShape
    <3>3. Fingerprint(shown) = Project(f)
      BY <1>3
    <3> HIDE DEF shown
    <3>4. Fingerprint(shown).title = shown.title /\ Fingerprint(shown).details = shown.details
      BY <3>1, <3>2
    <3> QED BY <3>3, <3>4 DEF shown
  <2> HIDE DEF title, details
  <2> QED BY <1>2, <1>4, <1>5, <1>6, <2>1, <2>2 DEF Fingerprints
<1> QED BY <1>4, <1>5, <1>7 DEF f

\* What Google keeps of a projection shows what was projected.
LEMMA Keeping ==
  ASSUME NEW k \in KeptEvents, NEW e, Reads(k, e)
  PROVE  LET kept == ProjectionPayload(Project(e))
         IN /\ kept \in KeptEvents /\ kept.owned /\ kept.status = "confirmed"
            /\ Shown(kept) = Project(AsRead(k))
<1> DEFINE p == Project(e)
           title == p.title
           details == p.details
           kept == ProjectionPayload(p)
           zone == IF k.recurrence # Nothing THEN e.time.zone ELSE Nothing
<1>1. p.time = e.time /\ p.recurrence = e.recurrence
  BY ProjectShape
<1>2. e.recurrence = k.recurrence /\ k.recurrence \in Recurrences
  BY ReadFields DEF KeptEvents
<1>3. title \in Titlings /\ details \in Details
  BY ProjectTyped
<1>4. ReadsTime(k, e.time)
  BY DEF Reads
<1>5. k.time \in EventTimes /\ k.time \in [allDay : BOOLEAN, from : Int, to : Int]
  BY ProjectionsAssumption DEF KeptEvents
<1>6. k.time = [allDay |-> e.time.allDay,
                from |-> IF e.time.allDay THEN e.time.from ELSE Instant(e.time.from),
                to |-> IF e.time.allDay THEN e.time.to ELSE Instant(e.time.to)]
  BY <1>4, <1>5 DEF ReadsTime
<1>7. kept = [status |-> "confirmed", title |-> title, details |-> details, time |-> k.time,
              zone |-> zone, answer |-> "not invited", recurrence |-> k.recurrence,
              owned |-> TRUE]
  BY <1>1, <1>2, <1>6 DEF ProjectionPayload
<1> HIDE DEF kept
<1>8. zone \in Zones \cup {Nothing}
  BY <1>4 DEF ReadsTime, ReadTimes
<1>9. KeptTime(kept) = KeptTime(k)
  <2>1. ~k.time.allDay /\ k.recurrence # Nothing => zone = k.zone
    BY <1>4 DEF ReadsTime
  <2>2. kept.time = k.time /\ kept.recurrence = k.recurrence /\ kept.zone = zone
    BY <1>7
  <2> HIDE DEF zone
  <2> QED BY <2>1, <2>2 DEF KeptTime
<1>10. Fingerprint(p) = Project(AsRead(k))
  BY ToldAlike
<1>11. Fingerprint(p) = [time |-> KeptTime(k), recurrence |-> k.recurrence,
                         title |-> title, details |-> details]
  <2>1. p = [time |-> e.time, recurrence |-> e.recurrence, title |-> title, details |-> details]
    BY ProjectShape
  <2>2. SerializeTime(e.time, k.recurrence # Nothing) = KeptTime(k)
    BY <1>4, SerializedTime
  <2>3. Fingerprint(p) = [p EXCEPT !.time = KeptTime(k)]
    BY <1>1, <1>2, <2>2 DEF Fingerprint
  <2> HIDE DEF p, title, details
  <2> QED BY <1>2, <2>1, <2>3
<1> HIDE DEF p, title, details, zone
<1>12. kept \in KeptEvents /\ kept.owned /\ kept.status = "confirmed"
  BY <1>2, <1>3, <1>5, <1>7, <1>8 DEF KeptEvents, Statuses, Answers
<1>13. Shown(kept) = [time |-> KeptTime(k), recurrence |-> k.recurrence,
                      title |-> title, details |-> details]
  <2>1. kept.title = title /\ kept.details = details /\ kept.recurrence = k.recurrence
    BY <1>7
  <2> QED BY <1>9, <2>1 DEF Shown, AsProjection, AsRead
<1> QED BY <1>10, <1>11, <1>12, <1>13 DEF p, kept

-----------------------------------------------------------------------------
(***************************************************************************)
(* The decision.                                                           *)
(***************************************************************************)
LEMMA NothingRead ==
  ASSUME NEW k \in KeptEvents, NEW e, Reads(k, e)
  PROVE  e # Nothing
  BY NothingAssumption DEF Reads

\* Days and instants before the window are the same in any offset.
LEMMA EndingAlike ==
  ASSUME TypeOK, NEW e, Reads(source, e)
  PROVE  EndedBefore(e) <=> HasEnded
<1>1. /\ e.recurrence = source.recurrence /\ e.time.allDay = source.time.allDay
      /\ source \in KeptEvents
  BY ReadFields DEF TypeOK
<1>2. /\ source.time.allDay => e.time.to = source.time.to
      /\ ~source.time.allDay => Instant(e.time.to) = source.time.to
  BY DEF Reads, ReadsTime
<1> QED BY <1>1, <1>2 DEF EndedBefore, HasEnded

\* A run decides on the events that Google keeps, however Google reports them.
LEMMA DecidesOnWhatIsKept ==
  ASSUME TypeOK, NEW e \in Read(source), NEW actual \in Actuals
  PROVE  RunDecision(e, actual) = Verdict
<1> DEFINE f == AsRead(source)
<1>1. source \in KeptEvents /\ Reads(source, e)
  BY Reading DEF TypeOK
<1>2. /\ Projects(e) <=> Projects(f)
      /\ Fingerprint(Project(e)) = Wanted
  BY <1>1, ToldAlike DEF Wanted
<1>3. EndedBefore(e) <=> HasEnded
  BY <1>1, EndingAlike
<1>4. e.recurrence = source.recurrence
  BY <1>1, ReadFields
<1>5. Found => /\ actual # Nothing /\ actual.owned = held.owned
               /\ Fingerprint(AsProjection(actual)) = Shown(held)
  <2>1. SUFFICES ASSUME Found
                 PROVE  /\ actual # Nothing /\ actual.owned = held.owned
                        /\ Fingerprint(AsProjection(actual)) = Shown(held)
    OBVIOUS
  <2>2. held \in KeptEvents /\ actual \in Read(held)
    BY <2>1 DEF Found, Actuals, TypeOK
  <2>3. Reads(held, actual)
    BY <2>2, Reading
  <2> QED BY <2>2, <2>3, NothingRead, ToldAlike, ReadFields
<1>6. ~Found => actual = Nothing
  BY DEF Found, Actuals
<1>7. HasEnded => source.recurrence = Nothing
  BY DEF HasEnded
<1>8. Found => mapping # Nothing
  BY DEF Found
<1> DEFINE wanted == Wanted
           shown == Shown(held)
           projects == Projects(f)
<1>9. ProjectionDecision(e, actual) =
        IF mapping = Nothing THEN Decided("create", "source_created")
        ELSE IF ~Found THEN Decided("create", "projection_missing")
        ELSE IF wanted = shown THEN Decided("ignore", "projection_current")
        ELSE Decided("update", UpdateReason(wanted, shown))
  <2>1. CASE mapping = Nothing
    BY <2>1 DEF ProjectionDecision
  <2>2. CASE mapping # Nothing /\ ~Found
    BY <1>6, <2>2 DEF ProjectionDecision
  <2>3. CASE mapping # Nothing /\ Found
    BY <1>2, <1>5, <2>3 DEF ProjectionDecision
  <2> QED BY <2>1, <2>2, <2>3
<1> HIDE DEF f, wanted, shown
<1> DEFINE d == ProjectionDecision(e, actual)
<1>10. (Found => d.action # "create") /\ (~Found => d.action = "create")
  BY <1>8, <1>9 DEF Decided
<1>11. \A live \in BOOLEAN :
         EventDecision(e, actual, TRUE, live) =
           IF Found /\ ~held.owned THEN Decided("conflict", "ownership_inconsistent")
           ELSE IF ~projects
           THEN Decided(IF mapping # Nothing THEN "delete" ELSE "ignore", "not_projected")
           ELSE IF source.recurrence # Nothing /\ ~live
           THEN Decided(IF ~Found THEN "ignore" ELSE "delete", "series_without_occurrences")
           ELSE IF mapping = Nothing /\ HasEnded THEN Decided("ignore", "before_sync_window")
           ELSE d
  BY <1>2, <1>3, <1>4, <1>5, <1>6 DEF EventDecision, f
<1> DEFINE first == EventDecision(e, actual, TRUE, TRUE)
           second == EventDecision(e, actual, TRUE, FALSE)
<1>12. RunDecision(e, actual) =
         IF first.action = "create" /\ source.recurrence # Nothing /\ ~HasLiveOccurrences
         THEN second ELSE first
  BY <1>4 DEF RunDecision
<1>13. Verdict =
         IF Found /\ ~held.owned THEN Decided("conflict", "ownership_inconsistent")
         ELSE IF ~projects
         THEN Decided(IF mapping # Nothing THEN "delete" ELSE "ignore", "not_projected")
         ELSE IF mapping = Nothing /\ HasEnded THEN Decided("ignore", "before_sync_window")
         ELSE IF ~Found /\ source.recurrence # Nothing /\ ~HasLiveOccurrences
         THEN Decided("ignore", "series_without_occurrences")
         ELSE d
  BY <1>8, <1>9 DEF Verdict, f, wanted, shown
<1> HIDE DEF d, projects
<1>14. first =
         IF Found /\ ~held.owned THEN Decided("conflict", "ownership_inconsistent")
         ELSE IF ~projects
         THEN Decided(IF mapping # Nothing THEN "delete" ELSE "ignore", "not_projected")
         ELSE IF mapping = Nothing /\ HasEnded THEN Decided("ignore", "before_sync_window")
         ELSE d
  BY <1>11
<1>15. projects /\ ~Found /\ source.recurrence # Nothing =>
         second = Decided("ignore", "series_without_occurrences")
  BY <1>11
<1> HIDE DEF first, second
<1>16. first.action = "create" <=>
         projects /\ ~Found /\ ~(mapping = Nothing /\ HasEnded)
  <2>1. CASE Found /\ ~held.owned
    BY <1>14, <2>1 DEF Decided
  <2>2. CASE ~(Found /\ ~held.owned) /\ ~projects
    <3>1. CASE mapping # Nothing
      BY <1>14, <2>2, <3>1 DEF Decided
    <3>2. CASE mapping = Nothing
      BY <1>14, <2>2, <3>2 DEF Decided
    <3> QED BY <3>1, <3>2
  <2>3. CASE projects /\ mapping = Nothing /\ HasEnded
    BY <1>8, <1>14, <2>3 DEF Decided
  <2>4. CASE ~(Found /\ ~held.owned) /\ projects /\ ~(mapping = Nothing /\ HasEnded)
    BY <1>10, <1>14, <2>4
  <2> QED BY <2>1, <2>2, <2>3, <2>4
<1>17. CASE first.action = "create" /\ source.recurrence # Nothing /\ ~HasLiveOccurrences
  BY <1>12, <1>13, <1>15, <1>16, <1>17
<1>18. CASE ~(first.action = "create" /\ source.recurrence # Nothing /\ ~HasLiveOccurrences)
  BY <1>7, <1>12, <1>13, <1>14, <1>16, <1>18
<1> QED BY <1>17, <1>18

Actions == {"conflict", "delete", "ignore", "create", "update"}

LEMMA VerdictAction == Verdict.action \in Actions
<1> DEFINE reason == UpdateReason(Wanted, Shown(held))
           removal == IF mapping # Nothing THEN "delete" ELSE "ignore"
<1>1. removal \in {"delete", "ignore"}
  OBVIOUS
<1>2. \E a \in Actions : \E r : Verdict = Decided(a, r)
  <2>1. \/ Verdict = Decided("conflict", "ownership_inconsistent")
        \/ Verdict = Decided(removal, "not_projected")
        \/ Verdict = Decided("ignore", "before_sync_window")
        \/ Verdict = Decided("ignore", "series_without_occurrences")
        \/ Verdict = Decided("create", "source_created")
        \/ Verdict = Decided("create", "projection_missing")
        \/ Verdict = Decided("ignore", "projection_current")
        \/ Verdict = Decided("update", reason)
    BY DEF Verdict
  <2> HIDE DEF removal, reason
  <2> QED BY <1>1, <2>1 DEF Actions
<1> QED BY <1>2 DEF Decided

-----------------------------------------------------------------------------
(***************************************************************************)
(* Previews and occurrences.                                               *)
(***************************************************************************)
\* An event that Google lists from the beginning of the window has not ended before it: an
\* all-day one may end a day later or earlier, by the offset of the calendar.
LEMMA ListedHasNotEnded ==
  ASSUME TypeOK, NEW offset \in Offsets, Listed(source, offset)
  PROVE  ~HasEnded
<1>1. /\ source.time.from \in Int /\ source.time.to \in Int /\ DayLength \in Nat \ {0}
      /\ Window \in Int /\ offset \in Int /\ -DayLength <= offset
  BY ProjectionsAssumption DEF TypeOK, KeptEvents
<1>2. CASE ~source.time.allDay
  BY <1>1, <1>2 DEF Listed, HasEnded
<1>3. CASE source.time.allDay
  <2> DEFINE day == Date(Window)
             to == source.time.to
  <2>1. day \in Int /\ day * DayLength <= Window
    BY <1>1 DEF Date
  <2>2. Window < to * DayLength - offset
    BY <1>3 DEF Listed
  <2>3. SUFFICES ASSUME to < day PROVE FALSE
    BY <1>3 DEF HasEnded
  <2> HIDE DEF day, to
  <2>4. to \in Int
    BY <1>1 DEF to
  <2>5. (to + 1) * DayLength <= day * DayLength
    BY <1>1, <2>1, <2>3, <2>4
  <2>6. (to + 1) * DayLength = to * DayLength + DayLength
    BY <1>1, <2>4
  <2>7. to * DayLength \in Int /\ day * DayLength \in Int
    BY <1>1, <2>1, <2>4
  <2> QED BY <1>1, <2>1, <2>2, <2>5, <2>6, <2>7
<1> QED BY <1>2, <1>3

LEMMA PreviewsHonoured == TypeOK => PreviewIsHonoured
<1> SUFFICES ASSUME TypeOK, NEW e \in Read(source), NEW actual \in Seen, NEW offset \in Offsets,
                    Listed(source, offset),
                    ~(mapping # Nothing /\ held.status = "cancelled")
             PROVE  IF Planned(e, actual) = "excluded"
                    THEN mapping = Nothing => RunDecision(e, actual).action = "ignore"
                    ELSE RunDecision(e, actual).action = Planned(e, actual)
  BY DEF PreviewIsHonoured
<1>1. source \in KeptEvents /\ Reads(source, e)
  BY Reading DEF TypeOK
<1>2. actual \in Actuals
  BY DEF Seen, Actuals
<1>3. RunDecision(e, actual) = Verdict
  BY <1>2, DecidesOnWhatIsKept
<1>4. e.recurrence = source.recurrence /\ (Projects(e) <=> Projects(AsRead(source)))
  BY <1>1, ToldAlike, ReadFields
<1>5. ~HasEnded
  BY ListedHasNotEnded
<1>6. CASE Skipped(e)
  <2>1. Planned(e, actual) = "excluded"
    BY <1>6 DEF Planned
  <2>2. ASSUME mapping = Nothing PROVE Verdict.action = "ignore"
    <3>1. ~Found
      BY <2>2 DEF Found
    <3>2. CASE ~Projects(AsRead(source))
      <4>1. Verdict = Decided("ignore", "not_projected")
        BY <2>2, <3>1, <3>2 DEF Verdict
      <4> QED BY <4>1 DEF Decided
    <3>3. CASE Projects(AsRead(source))
      <4>1. source.recurrence # Nothing /\ ~HasLiveOccurrences
        BY <1>4, <1>6, <3>3 DEF Skipped
      <4>2. Verdict = Decided("ignore", "series_without_occurrences")
        BY <1>5, <3>1, <3>3, <4>1 DEF Verdict
      <4> QED BY <4>2 DEF Decided
    <3> QED BY <3>2, <3>3
  <2> QED BY <1>3, <2>1, <2>2
<1>7. CASE ~Skipped(e)
  <2> DEFINE planned == EventDecision(e, actual, FALSE, TRUE)
             first == EventDecision(e, actual, TRUE, TRUE)
  <2>1. Planned(e, actual) = planned.action
    BY <1>7 DEF Planned
  <2>2. ~EndedBefore(e)
    BY <1>1, <1>5, EndingAlike
  <2>3. planned = first
    BY <2>2 DEF EventDecision
  <2>4. RunDecision(e, actual) = first
    BY <1>7 DEF RunDecision, Skipped
  <2> HIDE DEF planned, first
  <2>5. planned.action # "excluded"
    BY <1>3, <2>3, <2>4, VerdictAction DEF Actions
  <2> QED BY <2>1, <2>3, <2>4, <2>5
<1> QED BY <1>6, <1>7

LEMMA RegularOccurrencesFollow == TypeOK => RegularFollows
<1> SUFFICES ASSUME TypeOK, NEW series \in Read(source), NEW o \in Read(Instance),
                    ~IsException(o, series)
             PROVE  /\ Exclusions(o) = Exclusions(series)
                    /\ Fingerprint(Project(o))
                         = Fingerprint([Project(series) EXCEPT !.recurrence = Nothing])
  BY DEF RegularFollows
<1> DEFINE i == Instance
<1>1. source \in KeptEvents /\ i \in KeptEvents /\ i.recurrence = Nothing
  BY DEF TypeOK, Instance, KeptEvents, Recurrences
<1>2. Reads(source, series) /\ Reads(i, o)
  BY <1>1, Reading
<1> HIDE DEF i
<1>3. /\ o.title = series.title /\ o.details = series.details /\ o.response = series.response
      /\ o.time.allDay = series.time.allDay
      /\ StartOf(o.time) = source.time.from /\ Length(o.time) = Length(series.time)
  BY DEF IsException
<1>4. ResponseTo(o) = ResponseTo(series)
  BY <1>3 DEF ResponseTo
<1>5. Exclusions(o) = Exclusions(series)
  BY <1>3, <1>4 DEF Exclusions
<1> DEFINE t == source.time
<1>6. t \in [allDay : BOOLEAN, from : Int, to : Int] /\ i.time \in [allDay : BOOLEAN, from : Int, to : Int]
  BY <1>1, ProjectionsAssumption DEF KeptEvents
<1>7. series.time.allDay = t.allDay /\ o.time.allDay = i.time.allDay
  BY <1>2 DEF Reads, ReadsTime
<1>8. /\ StartOf(o.time) = i.time.from /\ Length(o.time) = i.time.to - i.time.from
      /\ Length(series.time) = t.to - t.from
  BY <1>2, <1>7 DEF Reads, ReadsTime, StartOf, Length
<1>9. i.time.from = t.from /\ i.time.to = t.to /\ i.time.allDay = t.allDay
  <2>1. /\ i.time.from \in Int /\ i.time.to \in Int /\ t.from \in Int /\ t.to \in Int
        /\ i.time.from = t.from /\ i.time.to - i.time.from = t.to - t.from
    BY <1>3, <1>6, <1>8
  <2> QED BY <1>3, <1>7, <2>1
<1>10. SerializeTime(o.time, FALSE) = SerializeTime(series.time, FALSE)
  <2>1. CASE t.allDay
    <3>1. /\ o.time = [allDay |-> TRUE, from |-> t.from, to |-> t.to, zone |-> Nothing]
          /\ series.time = [allDay |-> TRUE, from |-> t.from, to |-> t.to, zone |-> Nothing]
      <4>1. /\ o.time \in [allDay : {TRUE}, from : Int, to : Int, zone : {Nothing}]
            /\ series.time \in [allDay : {TRUE}, from : Int, to : Int, zone : {Nothing}]
        BY <1>2, <1>7, <1>9, <2>1 DEF Reads, ReadsTime, ReadTimes
      <4>2. /\ o.time.from = t.from /\ o.time.to = t.to
            /\ series.time.from = t.from /\ series.time.to = t.to
        BY <1>2, <1>7, <1>9, <2>1 DEF Reads, ReadsTime
      <4> QED BY <4>1, <4>2
    <3> QED BY <3>1
  <2>2. CASE ~t.allDay
    <3>1. /\ Instant(o.time.from) = Instant(series.time.from)
          /\ Instant(o.time.to) = Instant(series.time.to)
      BY <1>2, <1>9, <2>2 DEF Reads, ReadsTime
    <3> QED BY <1>7, <1>9, <2>2, <3>1 DEF SerializeTime
  <2> QED BY <2>1, <2>2
<1> DEFINE p == Project(o)
           q == Project(series)
<1>11. p.title = q.title /\ p.details = q.details
  <2>1. MarksTentative(o) <=> MarksTentative(series)
    BY <1>4 DEF MarksTentative
  <2>2. p.title = q.title
    <3>1. CASE ~MarksTentative(o)
      BY <1>3, <2>1, <3>1 DEF Project
    <3>2. CASE MarksTentative(o) /\ policy.content = "busy_only"
      BY <1>3, <2>1, <3>2 DEF Project
    <3>3. CASE MarksTentative(o) /\ policy.content # "busy_only"
      BY <1>3, <2>1, <3>3 DEF Project
    <3> QED BY <3>1, <3>2, <3>3
  <2>3. /\ p.details = IF policy.content = "busy_only" THEN "" ELSE o.details
        /\ q.details = IF policy.content = "busy_only" THEN "" ELSE series.details
    BY ProjectShape
  <2> QED BY <1>3, <2>2, <2>3
<1>12. /\ p = [time |-> o.time, recurrence |-> Nothing, title |-> p.title, details |-> p.details]
       /\ q = [time |-> series.time, recurrence |-> series.recurrence,
               title |-> q.title, details |-> q.details]
  <2>1. o.recurrence = Nothing
    BY <1>1, <1>2, ReadFields
  <2> QED BY <2>1, ProjectShape
<1> HIDE DEF p, q
<1> DEFINE serialized == SerializeTime(o.time, FALSE)
<1>13. Fingerprint(p) = [time |-> serialized, recurrence |-> Nothing,
                         title |-> p.title, details |-> p.details]
  <2>1. p.time = o.time /\ (p.recurrence # Nothing) = FALSE
    BY <1>12
  <2>2. Fingerprint(p) = [p EXCEPT !.time = serialized]
    BY <2>1 DEF Fingerprint
  <2> HIDE DEF serialized
  <2> QED BY <1>12, <2>2
<1> DEFINE r == [q EXCEPT !.recurrence = Nothing]
<1>14. r = [time |-> series.time, recurrence |-> Nothing, title |-> q.title, details |-> q.details]
  BY <1>12
<1> HIDE DEF r
<1>15. Fingerprint(r) = [time |-> serialized, recurrence |-> Nothing,
                         title |-> p.title, details |-> p.details]
  <2>1. r.time = series.time /\ (r.recurrence # Nothing) = FALSE
    BY <1>14
  <2>2. Fingerprint(r) = [r EXCEPT !.time = SerializeTime(series.time, FALSE)]
    BY <2>1 DEF Fingerprint
  <2>3. Fingerprint(r) = [r EXCEPT !.time = serialized]
    BY <1>10, <2>2
  <2> HIDE DEF serialized
  <2> QED BY <1>11, <1>14, <2>3
<1> QED BY <1>5, <1>13, <1>15 DEF p, q, r

-----------------------------------------------------------------------------
(***************************************************************************)
(* A run.                                                                  *)
(***************************************************************************)
\* What a decision follows from.
LEMMA Verdicts ==
  \/ Found /\ ~held.owned /\ Verdict = Decided("conflict", "ownership_inconsistent")
  \/ mapping # Nothing /\ ~Projects(AsRead(source)) /\ Verdict = Decided("delete", "not_projected")
  \/ mapping = Nothing /\ ~Projects(AsRead(source)) /\ Verdict = Decided("ignore", "not_projected")
  \/ mapping = Nothing /\ HasEnded /\ Verdict = Decided("ignore", "before_sync_window")
  \/ ~Found /\ Verdict = Decided("ignore", "series_without_occurrences")
  \/ /\ ~Found /\ Projects(AsRead(source))
     /\ \E reason \in {"source_created", "projection_missing"} : Verdict = Decided("create", reason)
  \/ /\ Found /\ Managed /\ Projects(AsRead(source)) /\ Wanted = Shown(held)
     /\ Verdict = Decided("ignore", "projection_current")
  \/ /\ Found /\ Managed /\ Projects(AsRead(source)) /\ Wanted # Shown(held)
     /\ Verdict = Decided("update", UpdateReason(Wanted, Shown(held)))
<1>1. CASE Found /\ ~held.owned
  BY <1>1 DEF Verdict
<1>2. CASE ~(Found /\ ~held.owned) /\ ~Projects(AsRead(source))
  <2>1. CASE mapping # Nothing
    BY <1>2, <2>1 DEF Verdict
  <2>2. CASE mapping = Nothing
    BY <1>2, <2>2 DEF Verdict
  <2> QED BY <2>1, <2>2
<1>3. CASE ~(Found /\ ~held.owned) /\ Projects(AsRead(source))
  <2>1. CASE mapping = Nothing /\ HasEnded
    BY <1>3, <2>1 DEF Verdict
  <2>2. CASE ~(mapping = Nothing /\ HasEnded) /\ ~Found
    <3>1. CASE source.recurrence # Nothing /\ ~HasLiveOccurrences
      BY <1>3, <2>2, <3>1 DEF Verdict
    <3>2. CASE ~(source.recurrence # Nothing /\ ~HasLiveOccurrences)
      BY <1>3, <2>2, <3>2 DEF Verdict
    <3> QED BY <3>1, <3>2
  <2>3. CASE Found
    <3>1. mapping # Nothing /\ Managed
      BY <1>3, <2>3 DEF Found, Managed
    <3>2. CASE Wanted = Shown(held)
      BY <1>3, <2>3, <3>1, <3>2 DEF Verdict
    <3>3. CASE Wanted # Shown(held)
      BY <1>3, <2>3, <3>1, <3>3 DEF Verdict
    <3> QED BY <3>2, <3>3
  <2> QED BY <2>1, <2>2, <2>3
<1> QED BY <1>1, <1>2, <1>3

LEMMA VerdictShape ==
  /\ Verdict.action \in {"create", "update", "delete"} => Verdict.reason # "projection_current"
  /\ Verdict.reason = "projection_current" => Verdict.action = "ignore" /\ Managed
<1>1. UpdateReason(Wanted, Shown(held))
        \in {"source_changed", "policy_applied", "destination_drift_repaired"}
  BY DEF UpdateReason
<1> QED BY <1>1, Verdicts DEF Decided

\* The mapping shows what is wanted now.
Recorded ==
  mapping' \in Mappings /\ mapping'.revision = revision /\ mapping'.fingerprint = Wanted

Projected ==
  /\ Verdict.action \in {"create", "update"}
  /\ held' \in KeptEvents /\ held'.owned /\ held'.status = "confirmed" /\ Shown(held') = Wanted
  /\ Recorded /\ causes' = {}

Withdrawn == Verdict.action = "delete" /\ held' = Nothing /\ mapping' = Nothing /\ causes' = {}

Reconfirmed ==
  /\ Verdict.reason = "projection_current" /\ mapping.revision # revision
  /\ UNCHANGED held /\ Recorded /\ causes' = {}

LeftAlone ==
  /\ \/ Verdict.action = "ignore" /\ causes' = causes
     \/ Verdict.action = "conflict" /\ causes' = {}
  /\ Verdict.reason = "projection_current" => mapping.revision = revision
  /\ UNCHANGED <<held, mapping>>

LEMMA RunOutcome ==
  ASSUME TypeOK, Run
  PROVE  /\ reprojection' = FALSE /\ UNCHANGED <<source, revision, occurrence, policy, changes>>
         /\ last' = [reason |-> Verdict.reason, causes |-> causes]
         /\ Projected \/ Withdrawn \/ Reconfirmed \/ LeftAlone
<1>1. PICK e \in Read(source), actual \in Actuals :
        LET d == RunDecision(e, actual)
        IN /\ Write(e, d)
           /\ last' = [reason |-> d.reason, causes |-> causes]
           /\ causes' = IF <<held, mapping>>' = <<held, mapping>> /\ d.action = "ignore"
                        THEN causes ELSE {}
  BY DEF Run
<1>2. RunDecision(e, actual) = Verdict
  BY DecidesOnWhatIsKept
<1> DEFINE d == Verdict
<1>3. /\ Write(e, d)
      /\ last' = [reason |-> d.reason, causes |-> causes]
      /\ causes' = IF <<held, mapping>>' = <<held, mapping>> /\ d.action = "ignore"
                   THEN causes ELSE {}
  BY <1>1, <1>2
<1>4. source \in KeptEvents /\ Reads(source, e)
  BY Reading DEF TypeOK
<1>5. /\ MappingOf(e) \in Mappings /\ MappingOf(e).revision = revision
      /\ MappingOf(e).fingerprint = Wanted
  <2>1. Fingerprint(Project(e)) = Wanted /\ Wanted \in Fingerprints
    BY <1>4, ToldAlike, ProjectTyped DEF Wanted
  <2> QED BY <2>1 DEF MappingOf, Mappings, TypeOK
<1>6. /\ d.action \in Actions
      /\ d.action \in {"create", "update", "delete"} => d.reason # "projection_current"
      /\ d.reason = "projection_current" => d.action = "ignore"
  BY VerdictAction, VerdictShape
<1> HIDE DEF d
<1>7. CASE d.action \in {"create", "update"}
  <2>1. held' = ProjectionPayload(Project(e)) /\ mapping' = MappingOf(e)
    BY <1>3, <1>6, <1>7 DEF Write
  <2>2. causes' = {}
    BY <1>3, <1>7
  <2>3. /\ held' \in KeptEvents /\ held'.owned /\ held'.status = "confirmed"
        /\ Shown(held') = Wanted
    BY <1>4, <2>1, Keeping DEF Wanted
  <2>4. Projected
    BY <1>5, <1>7, <2>1, <2>2, <2>3 DEF Projected, Recorded, d
  <2> QED BY <1>3, <2>4 DEF Run, d
<1>8. CASE d.action = "delete"
  <2>1. held' = Nothing /\ mapping' = Nothing
    BY <1>3, <1>6, <1>8 DEF Write
  <2>2. Withdrawn
    BY <1>3, <1>8, <2>1 DEF Withdrawn, d
  <2> QED BY <1>3, <2>2 DEF Run, d
<1>9. CASE d.reason = "projection_current" /\ mapping.revision # revision
  <2>1. held' = held /\ mapping' = MappingOf(e)
    BY <1>3, <1>6, <1>9 DEF Write
  <2>2. mapping' # mapping
    BY <1>5, <1>9, <2>1
  <2>3. causes' = {}
    BY <1>3, <2>2
  <2>4. Reconfirmed
    BY <1>5, <1>9, <2>1, <2>3 DEF Reconfirmed, Recorded, d
  <2> QED BY <1>3, <2>4 DEF Run, d
<1>10. CASE /\ d.action \in {"ignore", "conflict"}
            /\ ~(d.reason = "projection_current" /\ mapping.revision # revision)
  <2>1. held' = held /\ mapping' = mapping
    BY <1>3, <1>10 DEF Write
  <2>2. LeftAlone
    BY <1>3, <1>10, <2>1 DEF LeftAlone, d
  <2> QED BY <1>3, <2>2 DEF Run, d
<1> QED BY <1>6, <1>7, <1>8, <1>9, <1>10 DEF Actions


\* What is wanted changes with the source, its occurrence and the policy only.
LEMMA WantedStays ==
  ASSUME UNCHANGED <<source, occurrence, policy>>
  PROVE  /\ Wanted' = Wanted /\ HasEnded' = HasEnded
         /\ Projects(AsRead(source))' = Projects(AsRead(source))
         /\ HasLiveOccurrences' = HasLiveOccurrences
<1>1. \A e : Exclusions(e)' = Exclusions(e) /\ Projects(e)' = Projects(e)
  BY DEF Exclusions, ResponseTo, Projects
<1>2. \A e : Project(e)' = Project(e)
  BY DEF Project, MarksTentative, ResponseTo
<1>3. Instance' = Instance
  BY DEF Instance
<1> QED BY <1>1, <1>2, <1>3 DEF Wanted, HasEnded, HasLiveOccurrences

LEMMA RunTyped ==
  ASSUME Inv, Run
  PROVE  TypeOK' /\ Ordered'
<1> USE RunOutcome DEF Inv
<1>0. revision \in Nat /\ revision <= revision
  BY DEF TypeOK
<1>1. CASE Projected
  <2>1. TypeOK'
    BY <1>1 DEF Projected, Recorded, TypeOK
  <2>2. Ordered'
    BY <1>0, <1>1 DEF Projected, Recorded, Ordered
  <2> QED BY <2>1, <2>2
<1>2. CASE Withdrawn
  BY <1>2 DEF Withdrawn, TypeOK, Ordered
<1>3. CASE Reconfirmed
  <2>1. mapping # Nothing
    BY <1>3, VerdictShape DEF Reconfirmed, Managed
  <2>2. TypeOK'
    BY <1>3, <2>1 DEF Reconfirmed, Recorded, TypeOK
  <2>3. Ordered'
    <3>1. held' = held /\ mapping'.revision = revision /\ revision' = revision
      BY <1>3 DEF Reconfirmed, Recorded
    <3>2. held.status = "cancelled" => ~held.owned
      BY <2>1 DEF Ordered
    <3> HIDE RunOutcome
    <3> QED BY <1>0, <3>1, <3>2 DEF Ordered
  <2> QED BY <2>2, <2>3
<1>4. CASE LeftAlone
  BY <1>4 DEF LeftAlone, TypeOK, Ordered
<1> QED BY <1>1, <1>2, <1>3, <1>4

LEMMA RunRecords ==
  ASSUME Inv, Run
  PROVE  ShowsRecorded' /\ RecordedIsWanted' /\ Renewed' /\ Asked'
<1> USE RunOutcome DEF Inv
<1>1. Wanted' = Wanted
  BY WantedStays
<1>2. Asked'
  BY DEF Asked
<1>3. CASE Projected
  BY <1>1, <1>2, <1>3 DEF Projected, Recorded, ShowsRecorded, RecordedIsWanted, Renewed
<1>4. CASE Withdrawn
  BY <1>2, <1>4 DEF Withdrawn, ShowsRecorded, RecordedIsWanted, Renewed, Managed
<1>5. CASE Reconfirmed
  <2>1. Wanted = Shown(held)
    BY <1>5, Verdicts DEF Reconfirmed, Decided, UpdateReason
  <2> QED BY <1>1, <1>2, <1>5, <2>1
          DEF Reconfirmed, Recorded, ShowsRecorded, RecordedIsWanted, Renewed
<1>6. CASE LeftAlone
  <2>1. CASE ~Managed
    BY <1>2, <1>6, <2>1 DEF LeftAlone, ShowsRecorded, RecordedIsWanted, Renewed, Managed
  <2>2. CASE Managed
    <3>1. mapping # Nothing /\ held.owned /\ held \in KeptEvents /\ Found
      BY <2>2 DEF Managed, Found, TypeOK, Ordered
    <3>2. Verdict = Decided("ignore", "projection_current") /\ Wanted = Shown(held)
      <4>1. Verdict.action \in {"ignore", "conflict"}
        BY <1>6 DEF LeftAlone
      <4>2. ~(Found /\ ~held.owned) /\ mapping # Nothing /\ Found
        BY <3>1
      <4>3. \A a, r : Decided(a, r).action = a
        BY DEF Decided
      <4> HIDE RunOutcome
      <4> HIDE DEF Inv
      <4> QED BY <4>1, <4>2, <4>3, Verdicts
    <3>3. mapping.revision = revision /\ causes' = causes
      BY <1>6, <3>2 DEF LeftAlone, Decided
    <3>4. ShowsRecorded' /\ Renewed'
      BY <1>6, <3>3 DEF LeftAlone, ShowsRecorded, Renewed, Managed
    <3>5. RecordedIsWanted'
      <4>1. Wanted = mapping.fingerprint \/ {"policy", "destination"} \subseteq causes
        BY <2>2, <3>2, <3>3 DEF ShowsRecorded, RecordedIsWanted, Asked
      <4> QED BY <1>1, <1>6, <3>3, <4>1 DEF LeftAlone, RecordedIsWanted, Managed
    <3> QED BY <1>2, <3>4, <3>5
  <2> QED BY <2>1, <2>2
<1> QED BY <1>3, <1>4, <1>5, <1>6

LEMMA RunSettles ==
  ASSUME Inv, Run
  PROVE  Settled'
<1> USE RunOutcome DEF Inv
<1>1. /\ Wanted' = Wanted /\ HasEnded' = HasEnded
      /\ Projects(AsRead(source))' = Projects(AsRead(source))
      /\ HasLiveOccurrences' = HasLiveOccurrences
  BY WantedStays
<1>2. mapping' \in Mappings => mapping' # Nothing
  BY NothingAssumption
<1>3. SUFFICES Verdict'.action \in {"ignore", "conflict"}
  BY DEF Settled
<1>4. ASSUME Projects(AsRead(source)), mapping' \in Mappings, held'.owned,
             held'.status # "cancelled", Shown(held') = Wanted
      PROVE  Verdict'.action = "ignore"
  <2>1. Found' /\ mapping' # Nothing
    BY <1>2, <1>4 DEF Found
  <2>2. Verdict' = Decided("ignore", "projection_current")
    BY <1>1, <1>4, <2>1 DEF Verdict
  <2> QED BY <2>2 DEF Decided
<1>5. CASE Projected
  <2>1. Projects(AsRead(source))
    BY <1>5, Verdicts DEF Projected, Decided
  <2> QED BY <1>4, <1>5, <2>1 DEF Projected, Recorded
<1>6. CASE Withdrawn
  <2>1. ~Projects(AsRead(source))
    BY <1>6, Verdicts DEF Withdrawn, Decided
  <2>2. Verdict' = Decided("ignore", "not_projected")
    BY <1>1, <1>6, <2>1 DEF Withdrawn, Verdict, Found
  <2> QED BY <2>2 DEF Decided
<1>7. CASE Reconfirmed
  <2>1. Found /\ Managed /\ Projects(AsRead(source)) /\ Wanted = Shown(held)
    BY <1>7, Verdicts DEF Reconfirmed, Decided, UpdateReason
  <2> QED BY <1>4, <1>7, <2>1 DEF Reconfirmed, Recorded, Found, Managed
<1>8. CASE LeftAlone
  <2>1. Found' = Found /\ held' = held /\ mapping' = mapping
    BY <1>8 DEF LeftAlone, Found
  <2>2. Verdict.action \in {"ignore", "conflict"}
    BY <1>8 DEF LeftAlone
  <2>3. \/ Verdict' = Verdict
        \/ Verdict.action \in {"create", "update"}
    <3> DEFINE before == UpdateReason(Wanted, Shown(held))
               after == UpdateReason(Wanted, Shown(held))'
    <3>1. CASE Verdict = Decided("update", before)
      BY <3>1 DEF Decided
    <3>2. CASE Verdict # Decided("update", before)
      BY <1>1, <2>1, <3>2 DEF Verdict
    <3> QED BY <3>1, <3>2
  <2> QED BY <2>2, <2>3
<1> QED BY <1>5, <1>6, <1>7, <1>8

\* The reason a run gives for an update is a true one.
LEMMA RunReason ==
  ASSUME Inv, Run
  PROVE  ReasonIsTrue'
<1> USE DEF Inv
<1> DEFINE reason == Verdict.reason
<1>1. last' = [reason |-> reason, causes |-> causes]
  BY RunOutcome
<1>2. ASSUME reason \in {"destination_drift_repaired", "policy_applied", "source_changed"}
      PROVE  Managed /\ Wanted # Shown(held) /\ reason = UpdateReason(Wanted, Shown(held))
  BY <1>2, Verdicts DEF Decided
<1> HIDE DEF reason
<1>3. ASSUME reason = "destination_drift_repaired" PROVE "destination" \in causes
  <2>1. /\ ~(mapping.revision # revision /\ Wanted # mapping.fingerprint)
        /\ ~(reprojection /\ Shown(held) = mapping.fingerprint)
    BY <1>2, <1>3 DEF UpdateReason
  <2> QED BY <1>2, <1>3, <2>1 DEF ShowsRecorded, RecordedIsWanted
<1>4. ASSUME reason = "policy_applied" PROVE "policy" \in causes
  <2>1. reprojection
    BY <1>2, <1>4 DEF UpdateReason
  <2> QED BY <2>1 DEF Asked
<1>5. ASSUME reason = "source_changed"
      PROVE  "source" \in causes \/ {"reply", "policy"} \subseteq causes
  <2>1. mapping.revision # revision /\ Wanted # mapping.fingerprint /\ Managed
    BY <1>2, <1>5 DEF UpdateReason
  <2> QED BY <2>1 DEF RecordedIsWanted, Renewed, Asked
<1>6. last'.reason = reason /\ last'.causes = causes
  BY <1>1
<1>7. CASE reason = "destination_drift_repaired"
  BY <1>3, <1>6, <1>7 DEF ReasonIsTrue
<1>8. CASE reason = "policy_applied"
  BY <1>4, <1>6, <1>8 DEF ReasonIsTrue
<1>9. CASE reason = "source_changed"
  BY <1>5, <1>6, <1>9 DEF ReasonIsTrue
<1>10. CASE reason \notin {"destination_drift_repaired", "policy_applied", "source_changed"}
  BY <1>6, <1>10 DEF ReasonIsTrue
<1> QED BY <1>7, <1>8, <1>9, <1>10


-----------------------------------------------------------------------------
(***************************************************************************)
(* People.                                                                 *)
(***************************************************************************)
LEMMA VariantsTyped ==
  ASSUME NEW e \in KeptEvents, NEW v \in Variants(e)
  PROVE  v \in KeptEvents /\ v.recurrence = e.recurrence
<1>1. CASE v \in {[e EXCEPT !.title.text = text] : text \in {"", "t1", "t2"}}
  <2>1. PICK text \in {"", "t1", "t2"} : v = [e EXCEPT !.title.text = text]
    BY <1>1
  <2>2. [e.title EXCEPT !.text = text] \in Titlings
    BY DEF KeptEvents, Titlings
  <2>3. v = [e EXCEPT !.title = [e.title EXCEPT !.text = text]]
    BY <2>1
  <2> QED BY <2>2, <2>3 DEF KeptEvents
<1>2. CASE v \in {[e EXCEPT !.details = text] : text \in {"", "d1"}}
  BY <1>2 DEF KeptEvents, Details
<1>3. CASE v \in {[e EXCEPT !.time = t] : t \in EventTimes}
  BY <1>3 DEF KeptEvents
<1>4. CASE v \in {[e EXCEPT !.answer = answer] : answer \in Answers}
  BY <1>4 DEF KeptEvents
<1>5. CASE v \in {[e EXCEPT !.status = status] : status \in {"confirmed", "cancelled"}}
  BY <1>5 DEF KeptEvents, Statuses
<1> QED BY <1>1, <1>2, <1>3, <1>4, <1>5 DEF Variants

LEMMA EditedTyped ==
  ASSUME TypeOK, ChangeDestination
  PROVE  /\ held' \in KeptEvents /\ (held'.owned => held.owned)
         /\ held'.status = "cancelled" => ~held'.owned
<1>1. held \in KeptEvents /\ held.status = "confirmed"
  BY DEF TypeOK, ChangeDestination
<1>2. \/ held' = [held EXCEPT !.title.text = "t2"]
      \/ held' = [held EXCEPT !.details = "d1"]
      \/ held' = [held EXCEPT !.owned = FALSE]
      \/ held' = [held EXCEPT !.status = "cancelled", !.owned = FALSE]
      \/ \E t \in EventTimes : held' = [held EXCEPT !.time = t]
  BY DEF ChangeDestination
<1>3. CASE held' = [held EXCEPT !.title.text = "t2"]
  <2>1. [held.title EXCEPT !.text = "t2"] \in Titlings
    BY <1>1 DEF KeptEvents, Titlings
  <2>2. held' = [held EXCEPT !.title = [held.title EXCEPT !.text = "t2"]]
    BY <1>3
  <2> QED BY <1>1, <2>1, <2>2 DEF KeptEvents
<1>4. CASE held' = [held EXCEPT !.details = "d1"]
  BY <1>1, <1>4 DEF KeptEvents, Details
<1>5. CASE held' = [held EXCEPT !.owned = FALSE]
  BY <1>1, <1>5 DEF KeptEvents
<1>6. CASE held' = [held EXCEPT !.status = "cancelled", !.owned = FALSE]
  BY <1>1, <1>6 DEF KeptEvents, Statuses
<1>7. CASE \E t \in EventTimes : held' = [held EXCEPT !.time = t]
  BY <1>1, <1>7 DEF KeptEvents
<1> QED BY <1>2, <1>3, <1>4, <1>5, <1>6, <1>7

LEMMA ChangedTyped ==
  ASSUME TypeOK, NEW cause \in Causes, Changed(cause)
  PROVE  /\ revision' \in Nat /\ revision <= revision' /\ causes' \subseteq Causes /\ changes' \in Nat
         /\ causes' = causes \cup {cause} /\ last' = Nothing
         /\ cause \in {"source", "reply"} => revision' = revision + 1
         /\ cause \in {"policy", "destination"} => revision' = revision
  BY DEF TypeOK, Changed, Causes

LEMMA PeopleTyped ==
  ASSUME Inv,
         ChangeSource \/ ChangeOccurrence \/ GuestReplies \/ ChangePolicy \/ ChangeDestination
  PROVE  TypeOK' /\ Ordered'
<1> USE DEF Inv
<1>1. CASE ChangeSource
  <2>1. Changed("source") /\ UNCHANGED <<policy, reprojection, held, mapping>>
    BY <1>1 DEF ChangeSource
  <2>2. source' \in KeptEvents
    <3>1. CASE source' \in Variants(source)
      BY <3>1, VariantsTyped DEF TypeOK
    <3>2. CASE source' \in {[source EXCEPT !.recurrence = r] : r \in {Nothing, "weekly"}}
      BY <3>2 DEF TypeOK, KeptEvents, Recurrences
    <3>3. CASE source' \in {[source EXCEPT !.zone = z] : z \in Zones}
      BY <3>3 DEF TypeOK, KeptEvents
    <3> QED BY <1>1, <3>1, <3>2, <3>3 DEF ChangeSource
  <2>3. occurrence' \in {occurrence, Nothing}
    BY <1>1 DEF ChangeSource
  <2>4. "source" \in Causes
    BY DEF Causes
  <2> QED BY <2>1, <2>2, <2>3, <2>4, ChangedTyped DEF TypeOK, Ordered, Mappings
<1>2. CASE ChangeOccurrence
  <2>1. Changed("source") /\ UNCHANGED <<source, policy, reprojection, held, mapping>>
    BY <1>2 DEF ChangeOccurrence
  <2>2. Instance \in KeptEvents /\ Instance.recurrence = Nothing
    BY DEF TypeOK, Instance, KeptEvents, Recurrences
  <2>3. occurrence' \in {e \in KeptEvents : e.recurrence = Nothing}
    BY <1>2, <2>2, VariantsTyped DEF ChangeOccurrence
  <2>4. "source" \in Causes
    BY DEF Causes
  <2> QED BY <2>1, <2>3, <2>4, ChangedTyped DEF TypeOK, Ordered, Mappings
<1>3. CASE GuestReplies
  <2>1. Changed("reply") /\ UNCHANGED <<source, occurrence, policy, reprojection, held, mapping>>
    BY <1>3 DEF GuestReplies
  <2>2. "reply" \in Causes
    BY DEF Causes
  <2> QED BY <2>1, <2>2, ChangedTyped DEF TypeOK, Ordered, Mappings
<1>4. CASE ChangePolicy
  <2>1. /\ Changed("policy") /\ policy' \in Policies /\ reprojection' = TRUE
        /\ UNCHANGED <<source, occurrence, held, mapping>>
    BY <1>4 DEF ChangePolicy
  <2>2. "policy" \in Causes
    BY DEF Causes
  <2> QED BY <2>1, <2>2, ChangedTyped DEF TypeOK, Ordered, Mappings
<1>5. CASE ChangeDestination
  <2>1. /\ Changed("destination")
        /\ UNCHANGED <<source, occurrence, policy, reprojection, mapping>>
    BY <1>5 DEF ChangeDestination
  <2>2. "destination" \in Causes
    BY DEF Causes
  <2> QED BY <1>5, <2>1, <2>2, ChangedTyped, EditedTyped DEF TypeOK, Ordered, Mappings
<1> QED BY <1>1, <1>2, <1>3, <1>4, <1>5

LEMMA PeopleRecord ==
  ASSUME Inv,
         ChangeSource \/ ChangeOccurrence \/ GuestReplies \/ ChangePolicy \/ ChangeDestination
  PROVE  /\ ShowsRecorded' /\ RecordedIsWanted' /\ Renewed' /\ Asked'
         /\ Settled' /\ ReasonIsTrue'
<1> USE DEF Inv
<1>1. PICK cause \in Causes : Changed(cause)
  BY DEF ChangeSource, ChangeOccurrence, GuestReplies, ChangePolicy, ChangeDestination, Causes
<1>2. last' = Nothing /\ Settled' /\ ReasonIsTrue'
  BY <1>1 DEF Changed, Settled, ReasonIsTrue
<1>3. CASE ChangeSource \/ ChangeOccurrence
  <2>1. /\ UNCHANGED <<policy, reprojection, held, mapping>>
        /\ causes' = causes \cup {"source"} /\ revision' = revision + 1
    BY <1>3 DEF ChangeSource, ChangeOccurrence, Changed
  <2>2. mapping # Nothing => mapping.revision # revision'
    BY <2>1 DEF Ordered, TypeOK, Mappings
  <2> QED BY <1>2, <2>1, <2>2 DEF ShowsRecorded, RecordedIsWanted, Renewed, Asked, Managed
<1>4. CASE GuestReplies
  <2>1. /\ UNCHANGED <<source, occurrence, policy, reprojection, held, mapping>>
        /\ causes' = causes \cup {"reply"} /\ revision' = revision + 1
    BY <1>4 DEF GuestReplies, Changed
  <2>2. mapping # Nothing => mapping.revision # revision'
    BY <2>1 DEF Ordered, TypeOK, Mappings
  <2>3. Wanted' = Wanted
    BY <2>1, WantedStays
  <2> QED BY <1>2, <2>1, <2>2, <2>3
          DEF ShowsRecorded, RecordedIsWanted, Renewed, Asked, Managed
<1>5. CASE ChangePolicy
  <2>1. /\ UNCHANGED <<source, revision, held, mapping>> /\ reprojection' = TRUE
        /\ causes' = causes \cup {"policy"}
    BY <1>5 DEF ChangePolicy, Changed
  <2> QED BY <1>2, <2>1 DEF ShowsRecorded, RecordedIsWanted, Renewed, Asked, Managed
<1>6. CASE ChangeDestination
  <2>1. /\ UNCHANGED <<source, revision, occurrence, policy, reprojection, mapping>>
        /\ causes' = causes \cup {"destination"}
    BY <1>6 DEF ChangeDestination, Changed
  <2>2. Wanted' = Wanted
    BY <2>1, WantedStays
  <2>3. Managed' => Managed
    BY <1>6, <2>1, EditedTyped DEF Managed
  <2> QED BY <1>2, <2>1, <2>2, <2>3 DEF ShowsRecorded, RecordedIsWanted, Renewed, Asked
<1> QED BY <1>3, <1>4, <1>5, <1>6

-----------------------------------------------------------------------------
(***************************************************************************)
(* The theorems.                                                           *)
(***************************************************************************)
LEMMA Initially == InitProjections => Inv
<1> SUFFICES ASSUME InitProjections PROVE Inv
  OBVIOUS
<1> DEFINE time == CHOOSE t \in EventTimes : ~t.allDay
           zone == CHOOSE z \in Zones : TRUE
<1>1. time \in EventTimes /\ zone \in Zones
  BY ProjectionsAssumption
<1>2. source = [status |-> "confirmed", time |-> time, zone |-> zone,
                title |-> Titled("t1", ""), details |-> "d1", answer |-> "not invited",
                recurrence |-> Nothing, owned |-> FALSE]
  BY DEF InitProjections, Event
<1> HIDE DEF time, zone
<1>3. Titled("t1", "") \in Titlings
  BY DEF Titled, Titlings
<1>4. source \in KeptEvents
  BY <1>1, <1>2, <1>3 DEF KeptEvents, Statuses, Details, Answers, Recurrences
<1>5. policy \in Policies
  BY DEF InitProjections, Policies
<1>6. TypeOK
  BY <1>4, <1>5 DEF InitProjections, TypeOK
<1> QED BY <1>6 DEF InitProjections, Inv, Ordered, ShowsRecorded, RecordedIsWanted, Renewed, Asked,
                    Settled, ReasonIsTrue, Managed

LEMMA Steps == Inv /\ [NextProjections]_pvars => Inv'
<1> SUFFICES ASSUME Inv, [NextProjections]_pvars PROVE Inv'
  OBVIOUS
<1>1. CASE Run
  BY <1>1, RunTyped, RunRecords, RunSettles, RunReason DEF Inv
<1>2. CASE ChangeSource \/ ChangeOccurrence \/ GuestReplies \/ ChangePolicy \/ ChangeDestination
  BY <1>2, PeopleTyped, PeopleRecord DEF Inv
<1>3. CASE UNCHANGED pvars
  <2>1. Wanted' = Wanted /\ Verdict' = Verdict
    <3>1. UNCHANGED <<source, revision, occurrence, policy, reprojection, held, mapping>>
      BY <1>3 DEF pvars
    <3>2. /\ Wanted' = Wanted /\ HasEnded' = HasEnded
          /\ Projects(AsRead(source))' = Projects(AsRead(source))
          /\ HasLiveOccurrences' = HasLiveOccurrences
      BY <3>1, WantedStays
    <3> QED BY <3>1, <3>2 DEF Verdict, Found, UpdateReason
  <2>2. /\ TypeOK' /\ Ordered' /\ ShowsRecorded' /\ RecordedIsWanted' /\ Renewed' /\ Asked'
    BY <1>3, <2>1 DEF Inv, pvars, TypeOK, Ordered, ShowsRecorded, RecordedIsWanted, Renewed, Asked,
                     Managed
  <2>3. Settled' /\ ReasonIsTrue'
    BY <1>3, <2>1 DEF Inv, pvars, Settled, ReasonIsTrue
  <2> QED BY <2>2, <2>3 DEF Inv
<1> QED BY <1>1, <1>2, <1>3 DEF NextProjections

LEMMA Invariant == SpecProjections => []Inv
  BY Initially, Steps, PTL DEF SpecProjections

\* What the invariant says of the events Google reports, in whatever offset and zone.
LEMMA SettledIsSettled == Inv => RunsSettle
  BY DecidesOnWhatIsKept DEF Inv, Settled, RunsSettle

\* Whatever the times, offsets, zones and policies, a run leaves nothing for the next one to do, a
\* run takes the action a preview planned, and an occurrence that is not an exception shows what
\* its series shows (execute_sync_rule.py, preview_sync_rule.py, CalendarEvent.is_exception_of).
THEOREM ProjectionsSettle == SpecProjections => []ProjectionsInv
<1>1. Inv => ProjectionsInv
  BY SettledIsSettled, PreviewsHonoured, RegularOccurrencesFollow DEF Inv, ProjectionsInv
<1> QED BY <1>1, Invariant, PTL

\* For any number of changes, a repair undoes a person's change, a policy is applied after it
\* changed, and a source change is one (SyncDecisionService._projection_decision).
THEOREM ReasonsAreTrue == SpecProjections => []ReasonIsTrue
<1>1. Inv => ReasonIsTrue
  BY DEF Inv
<1> QED BY <1>1, Invariant, PTL

=============================================================================
