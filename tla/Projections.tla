---------------------------- MODULE Projections ----------------------------
(***************************************************************************)
(* What the projection of one source event says, and why it is written.    *)
(*                                                                         *)
(* The source is a single event, or a series with one occurrence left.  A  *)
(* run projects it, compares that with what the destination shows and      *)
(* gives the reason for what it writes, which Activity tells the           *)
(* administrator.  Google reports a time in whatever UTC offset it likes,  *)
(* and of a single event whatever zone: none of that is a difference.      *)
(*                                                                         *)
(* A run is one step here: what happens between its reads and its writes   *)
(* is in SyncRun, and what it does to occurrences is in Series.            *)
(***************************************************************************)
EXTENDS Integers, FiniteSets

CONSTANTS
  EventTimes,   \* [allDay, from, to], in days of the calendar or in instants
  DayLength,    \* instants in a day
  Window,       \* the instant the sync window begins at
  Offsets,      \* UTC offsets
  Zones,        \* time zones
  MaxChanges,   \* bound: changes by people
  Nothing       \* no value

ASSUME ProjectionsAssumption ==
  /\ EventTimes \subseteq [allDay : BOOLEAN, from : Int, to : Int]
  /\ \A t \in EventTimes : t.from < t.to
  /\ DayLength \in Nat \ {0} /\ Window \in Int
  /\ Offsets \subseteq (-DayLength)..DayLength /\ Offsets # {} /\ Zones # {}
  /\ MaxChanges \in Nat
  /\ \E t \in EventTimes : ~t.allDay

VARIABLES
  source,        \* the source event, as Google keeps it
  revision,      \* its revision, which any change of it or of a guest's reply renews
  occurrence,    \* its one occurrence when that differs from the series, or Nothing
  policy,        \* the rule's Transformation Policy
  reprojection,  \* whether the rule asks for reprojection
  held,          \* the projection, as Google keeps it, or Nothing
  mapping,       \* [revision, fingerprint] of the Event Mapping, or Nothing
  causes,        \* history: what people changed since the mapping was last recorded
  last,          \* history: [reason, causes] of a run that nothing happened since, or Nothing
  changes        \* changes by people so far

pvars == <<source, revision, occurrence, policy, reprojection, held, mapping, causes, last,
           changes>>

-----------------------------------------------------------------------------
(***************************************************************************)
(* Google: an event as it is kept, and the payloads that report it.        *)
(***************************************************************************)
Answers == {"accepted", "tentative", "declined", "needsAction", "unknown", "not invited"}
DateTime(instant, offset) == [local |-> instant + offset, offset |-> offset]
Bound(e, at, offset, zone) ==
  IF e.time.allDay THEN [date |-> at] ELSE [dateTime |-> DateTime(at, offset), timeZone |-> zone]

Statuses == {"confirmed", "cancelled"}
Titlings == [text : {"", "t1", "t2", "Busy"}, mark : {"", "(tentative)", "Maybe:"}]
Details == {"", "d1"}
Recurrences == {Nothing, "weekly"}

KeptEvents ==
  [status : Statuses, time : EventTimes, zone : Zones \cup {Nothing}, title : Titlings,
   details : Details, answer : Answers, recurrence : Recurrences, owned : BOOLEAN]

Payloads(e) ==
  {[e EXCEPT !.time = [start |-> Bound(e, e.time.from, offset, zone),
                       end |-> Bound(e, e.time.to, offset, zone)]] :
     offset \in Offsets, zone \in IF e.recurrence # Nothing THEN {e.zone} ELSE Zones \cup {Nothing}}

\* timeMin: an all-day event lasts until the midnight of the calendar's own offset.
Listed(e, offset) ==
  Window < IF e.time.allDay THEN e.time.to * DayLength - offset ELSE e.time.to

Instance ==
  IF occurrence = Nothing THEN [source EXCEPT !.recurrence = Nothing] ELSE occurrence

-----------------------------------------------------------------------------
(***************************************************************************)
(* translation.py: payloads read and written.                              *)
(***************************************************************************)
Instant(dateTime) == dateTime.local - dateTime.offset

ParseTime(p) ==
  IF "date" \in DOMAIN p.time.start
  THEN [allDay |-> TRUE, from |-> p.time.start.date, to |-> p.time.end.date, zone |-> Nothing]
  ELSE [allDay |-> FALSE, from |-> p.time.start.dateTime, to |-> p.time.end.dateTime,
        zone |-> p.time.start.timeZone]

\* Without an answer of its own the calendar was not invited; an unknown one changes nothing.
Response(p) == IF p.answer \in {"unknown", "not invited"} THEN "accepted" ELSE p.answer

ReadTimes ==
  [allDay : {TRUE}, from : Int, to : Int, zone : {Nothing}]
    \cup [allDay : {FALSE}, from : [local : Int, offset : Int], to : [local : Int, offset : Int],
          zone : Zones \cup {Nothing}]

DomainEvents ==
  [status : Statuses, time : ReadTimes, title : Titlings, details : Details,
   response : Answers, recurrence : Recurrences, owned : BOOLEAN]

ToDomainEvent(p) ==
  [status |-> p.status, time |-> ParseTime(p), title |-> p.title, details |-> p.details,
   response |-> Response(p), recurrence |-> p.recurrence, owned |-> p.owned]

Read(e) == {ToDomainEvent(p) : p \in Payloads(e)}

\* projection_payload, and what Google keeps of it; a zone is only written for a series.
ProjectionPayload(projection) ==
  LET t == projection.time
  IN [status |-> "confirmed", title |-> projection.title, details |-> projection.details,
      time |-> [allDay |-> t.allDay, from |-> IF t.allDay THEN t.from ELSE Instant(t.from),
                to |-> IF t.allDay THEN t.to ELSE Instant(t.to)],
      zone |-> IF projection.recurrence # Nothing THEN t.zone ELSE Nothing,
      answer |-> "not invited", recurrence |-> projection.recurrence, owned |-> TRUE]

-----------------------------------------------------------------------------
(***************************************************************************)
(* The Transformation Policy.                                              *)
(***************************************************************************)
Policies == [content : {"busy_only", "copy_details"}, allDay : {"include", "exclude"},
             tentative : {"sync", "mark", "skip"}, unanswered : {"wait", "as_tentative"}]

ResponseTo(e) ==
  IF e.response = "needsAction" /\ policy.unanswered = "as_tentative"
  THEN "tentative" ELSE e.response

\* The Exclusions that apply; the code names the first of them.
Exclusions(e) ==
  {x \in {"all_day", "declined", "awaiting_response", "tentative"} :
     CASE x = "all_day" -> e.time.allDay /\ policy.allDay = "exclude"
       [] x = "declined" -> ResponseTo(e) = "declined"
       [] x = "awaiting_response" -> ResponseTo(e) = "needsAction"
       [] x = "tentative" -> ResponseTo(e) = "tentative" /\ policy.tentative = "skip"}

Projects(e) == e.status = "confirmed" /\ Exclusions(e) = {}

MarksTentative(e) == policy.tentative = "mark" /\ ResponseTo(e) = "tentative"

Titled(text, mark) == [text |-> text, mark |-> mark]

Project(e) ==
  LET busy == policy.content = "busy_only"
  IN [time |-> e.time, recurrence |-> e.recurrence,
      title |-> Titled(IF busy THEN "Busy" ELSE e.title.text,
                       CASE ~MarksTentative(e) -> ""
                         [] MarksTentative(e) /\ busy -> "(tentative)"
                         [] MarksTentative(e) /\ ~busy -> "Maybe:"),
      details |-> IF busy THEN "" ELSE e.details]

-----------------------------------------------------------------------------
(***************************************************************************)
(* Fingerprints and decisions.                                             *)
(***************************************************************************)
\* Mutant: the zone is serialized for single events too.
SerializeTimeZoned(t, recurring) ==
  IF t.allDay THEN t ELSE [t EXCEPT !.from = Instant(@), !.to = Instant(@)]

\* _serialize_time: instants; only a series is expanded in its zone.
SerializeTime(t, recurring) ==
  IF t.allDay THEN t
  ELSE [allDay |-> FALSE, from |-> Instant(t.from), to |-> Instant(t.to),
        zone |-> IF recurring THEN t.zone ELSE Nothing]

Fingerprints ==
  [time : [allDay : BOOLEAN, from : Int, to : Int, zone : Zones \cup {Nothing}],
   title : Titlings, details : Details, recurrence : Recurrences]

Mappings == [revision : Nat, fingerprint : Fingerprints]

ASSUME NothingAssumption == Nothing \notin DomainEvents \cup Mappings

Fingerprint(p) == [p EXCEPT !.time = SerializeTime(p.time, p.recurrence # Nothing)]
AsProjection(e) ==
  [time |-> e.time, title |-> e.title, details |-> e.details, recurrence |-> e.recurrence]

Date(instant) == instant \div DayLength

\* Mutant: an all-day event that ends on the day the window begins has ended before it.
EndedBeforeInclusive(e) ==
  /\ e.recurrence = Nothing
  /\ IF e.time.allDay THEN e.time.to <= Date(Window) ELSE Instant(e.time.to) < Window

EndedBefore(e) ==
  /\ e.recurrence = Nothing
  /\ IF e.time.allDay THEN e.time.to < Date(Window) ELSE Instant(e.time.to) < Window

Decided(action, reason) == [action |-> action, reason |-> reason]

\* Mutant: any new revision is a source change.
UpdateReasonByRevision(expected, actual) ==
  IF mapping.revision # revision THEN "source_changed"
  ELSE IF reprojection /\ actual = mapping.fingerprint THEN "policy_applied"
  ELSE "destination_drift_repaired"

UpdateReason(expected, actual) ==
  IF mapping.revision # revision /\ expected # mapping.fingerprint THEN "source_changed"
  ELSE IF reprojection /\ actual = mapping.fingerprint THEN "policy_applied"
  ELSE "destination_drift_repaired"

ProjectionDecision(e, actual) ==
  LET expected == Fingerprint(Project(e))
      shown == Fingerprint(AsProjection(actual))
  IN IF mapping = Nothing THEN Decided("create", "source_created")
     ELSE IF actual = Nothing THEN Decided("create", "projection_missing")
     ELSE IF expected = shown THEN Decided("ignore", "projection_current")
     ELSE Decided("update", UpdateReason(expected, shown))

\* decide: an identity conflict, a removal, the sync window, the projection.
EventDecision(e, actual, windowed, live) ==
  LET mapped == mapping # Nothing
  IN IF actual # Nothing /\ ~actual.owned THEN Decided("conflict", "ownership_inconsistent")
     ELSE IF ~Projects(e) THEN Decided(IF mapped THEN "delete" ELSE "ignore", "not_projected")
     ELSE IF e.recurrence # Nothing /\ ~live
     THEN Decided(IF actual = Nothing THEN "ignore" ELSE "delete", "series_without_occurrences")
     ELSE IF ~mapped /\ windowed /\ EndedBefore(e) THEN Decided("ignore", "before_sync_window")
     ELSE ProjectionDecision(e, actual)

HasLiveOccurrences == \E o \in Read(Instance) : Projects(o)

\* The reads of a run: a projection Google keeps as cancelled is missing.
Actuals ==
  IF mapping = Nothing \/ held.status = "cancelled" THEN {Nothing} ELSE Read(held)

RunDecision(e, actual) ==
  LET first == EventDecision(e, actual, TRUE, TRUE)
  IN IF first.action = "create" /\ e.recurrence # Nothing /\ ~HasLiveOccurrences
     THEN EventDecision(e, actual, TRUE, FALSE) ELSE first

-----------------------------------------------------------------------------
(***************************************************************************)
(* Runs.                                                                   *)
(***************************************************************************)
MappingOf(e) == [revision |-> revision, fingerprint |-> Fingerprint(Project(e))]

Write(e, d) ==
  CASE d.action \in {"create", "update"} ->
         held' = ProjectionPayload(Project(e)) /\ mapping' = MappingOf(e)
    [] d.action = "delete" -> held' = Nothing /\ mapping' = Nothing
    [] d.reason = "projection_current" /\ mapping.revision # revision ->
         mapping' = MappingOf(e) /\ UNCHANGED held
    [] OTHER -> UNCHANGED <<held, mapping>>

Run ==
  /\ last = Nothing
  /\ \E e \in Read(source), actual \in Actuals :
       LET d == RunDecision(e, actual)
       IN /\ Write(e, d)
          /\ last' = [reason |-> d.reason, causes |-> causes]
          /\ causes' = IF <<held, mapping>>' = <<held, mapping>> /\ d.action = "ignore"
                       THEN causes ELSE {}
  /\ reprojection' = FALSE
  /\ UNCHANGED <<source, revision, occurrence, policy, changes>>

-----------------------------------------------------------------------------
(***************************************************************************)
(* What a preview of the rule would say of the source now.                 *)
(***************************************************************************)
Skipped(e) == ~Projects(e) \/ (e.recurrence # Nothing /\ ~HasLiveOccurrences)

\* _item reads the projection as it is kept, also when it is cancelled.
Seen == IF mapping = Nothing THEN {Nothing} ELSE Read(held)
Planned(e, actual) == IF Skipped(e) THEN "excluded" ELSE EventDecision(e, actual, FALSE, TRUE).action

-----------------------------------------------------------------------------
(***************************************************************************)
(* An occurrence Google reports with its series.                           *)
(***************************************************************************)
Length(t) == IF t.allDay THEN t.to - t.from ELSE Instant(t.to) - Instant(t.from)
StartOf(t) == IF t.allDay THEN t.from ELSE Instant(t.from)

\* Mutant: how the occurrence was answered is not compared.
IsExceptionUnanswered(o, series) ==
  \/ o.status = "cancelled"
  \/ <<o.title, o.details>> # <<series.title, series.details>>
  \/ o.time.allDay # series.time.allDay
  \/ StartOf(o.time) # source.time.from \/ Length(o.time) # Length(series.time)

\* is_exception_of; the occurrence that is left originally starts as the series does.
IsException(o, series) ==
  \/ o.status = "cancelled"
  \/ <<o.title, o.details, o.response>> # <<series.title, series.details, series.response>>
  \/ o.time.allDay # series.time.allDay
  \/ StartOf(o.time) # source.time.from \/ Length(o.time) # Length(series.time)

-----------------------------------------------------------------------------
(***************************************************************************)
(* People.                                                                 *)
(***************************************************************************)
Event(t, answer, recurrence) ==
  [status |-> "confirmed", time |-> t, zone |-> CHOOSE z \in Zones : TRUE,
   title |-> Titled("t1", ""), details |-> "d1", answer |-> answer, recurrence |-> recurrence,
   owned |-> FALSE]

InitProjections ==
  /\ source = Event(CHOOSE t \in EventTimes : ~t.allDay, "not invited", Nothing)
  /\ revision = 0 /\ occurrence = Nothing
  /\ policy = [content |-> "busy_only", allDay |-> "include", tentative |-> "mark",
               unanswered |-> "as_tentative"]
  /\ reprojection = FALSE /\ held = Nothing /\ mapping = Nothing
  /\ causes = {} /\ last = Nothing /\ changes = 0

Changed(cause) ==
  /\ changes < MaxChanges /\ changes' = changes + 1
  /\ causes' = causes \cup {cause} /\ last' = Nothing
  /\ revision' = IF cause \in {"source", "reply"} THEN revision + 1 ELSE revision

\* An event changed in one respect.
Variants(e) ==
  {[e EXCEPT !.title.text = text] : text \in {"", "t1", "t2"}}
    \cup {[e EXCEPT !.details = text] : text \in {"", "d1"}}
    \cup {[e EXCEPT !.time = t] : t \in EventTimes}
    \cup {[e EXCEPT !.answer = answer] : answer \in Answers}
    \cup {[e EXCEPT !.status = status] : status \in {"confirmed", "cancelled"}}

\* A series given another time has no exceptions left.
ChangeSource ==
  /\ source' \in (Variants(source)
                    \cup {[source EXCEPT !.recurrence = r] : r \in {Nothing, "weekly"}}
                    \cup {[source EXCEPT !.zone = z] : z \in Zones}) \ {source}
  /\ occurrence' = IF /\ source'.recurrence = source.recurrence
                      /\ source'.time = source.time
                   THEN occurrence ELSE Nothing
  /\ Changed("source")
  /\ UNCHANGED <<policy, reprojection, held, mapping>>

ChangeOccurrence ==
  /\ source.recurrence # Nothing /\ source.status = "confirmed"
  /\ occurrence' \in Variants(Instance)
  /\ Changed("source")
  /\ UNCHANGED <<source, policy, reprojection, held, mapping>>

\* Another guest answers: a new revision of an event that says what it said.
GuestReplies ==
  /\ Changed("reply")
  /\ UNCHANGED <<source, occurrence, policy, reprojection, held, mapping>>

ChangePolicy ==
  /\ \E p \in Policies \ {policy} :
       /\ Cardinality({f \in DOMAIN p : p[f] # policy[f]}) = 1
       /\ policy' = p
  /\ reprojection' = TRUE
  /\ Changed("policy")
  /\ UNCHANGED <<source, occurrence, held, mapping>>

\* A person edits the projection, takes its evidence of ownership away, or deletes it.
ChangeDestination ==
  /\ held # Nothing /\ held.status = "confirmed"
  /\ held' \in {[held EXCEPT !.title.text = "t2"], [held EXCEPT !.details = "d1"],
                [held EXCEPT !.owned = FALSE],
                [held EXCEPT !.status = "cancelled", !.owned = FALSE]}
                 \cup {[held EXCEPT !.time = t] : t \in EventTimes}
  /\ held' # held
  /\ Changed("destination")
  /\ UNCHANGED <<source, occurrence, policy, reprojection, mapping>>

NextProjections ==
  \/ Run \/ ChangeSource \/ ChangeOccurrence \/ GuestReplies
  \/ ChangePolicy \/ ChangeDestination

SpecProjections == InitProjections /\ [][NextProjections]_pvars

-----------------------------------------------------------------------------
\* A run leaves nothing to do: another one finds the projection current, or nothing to project,
\* in whatever offset and zone Google reports the two events by then.
RunsSettle ==
  last # Nothing =>
    \A e \in Read(source), actual \in Actuals :
      RunDecision(e, actual).action \in {"ignore", "conflict"}

\* A run takes the action that a preview planned for an event in the window, and projects nothing
\* anew that the preview excluded, unless a person deleted the projection.
PreviewIsHonoured ==
  \A e \in Read(source), actual \in Seen, offset \in Offsets :
    LET planned == Planned(e, actual)
        taken == RunDecision(e, actual).action
        deleted == mapping # Nothing /\ held.status = "cancelled"
    IN Listed(source, offset) /\ ~deleted =>
         IF planned = "excluded" THEN mapping = Nothing => taken = "ignore" ELSE taken = planned

\* An occurrence that is not reported as an exception is projected, or not, as its series is, and
\* shows what the projected series shows by itself: a replay of the exceptions misses nothing.
RegularFollows ==
  source.recurrence # Nothing /\ source.status = "confirmed" =>
    \A series \in Read(source), o \in Read(Instance) :
      ~IsException(o, series) =>
        /\ Exclusions(o) = Exclusions(series)
        /\ Fingerprint(Project(o))
             = Fingerprint([Project(series) EXCEPT !.recurrence = Nothing])

ProjectionsInv == RunsSettle /\ PreviewIsHonoured /\ RegularFollows

\* The reason a run gives for rewriting a projection is one that happened since the projection was
\* recorded: a repair undoes a person's change of it, a policy is applied after it was changed, and
\* a source change is a change of the source, or a new revision together with a new policy.
ReasonIsTrue ==
  last # Nothing =>
    CASE last.reason = "destination_drift_repaired" -> "destination" \in last.causes
      [] last.reason = "policy_applied" -> "policy" \in last.causes
      [] last.reason = "source_changed" ->
           "source" \in last.causes \/ {"reply", "policy"} \subseteq last.causes
      [] OTHER -> TRUE
=============================================================================
