-------------------------- MODULE ActivityQueries --------------------------
(***************************************************************************)
(* What Activity shows of the Audit Entries: the event an entry names, and *)
(* the list of recent changes.                                             *)
(* Each answer is compared with a definition that does not follow the code.*)
(***************************************************************************)
EXTENDS Naturals, FiniteSets, SequencesExt

CONSTANTS
  EventTitles,   \* titles other than the empty one
  MaxRows,       \* bound: entries in the table
  Null

ASSUME QueriesAssumption ==
  /\ MaxRows \in Nat
  /\ "" \notin EventTitles /\ Null \notin EventTitles

(***************************************************************************)
(* Two tables, each a sequence of rows: the entries of one event with the  *)
(* oldest first, and the entries of all events with the newest first.      *)
(***************************************************************************)
VARIABLES entries, rows

-----------------------------------------------------------------------------
(***************************************************************************)
(* The event an entry names.  An entry recorded no event, or a title and   *)
(* whether the event was cancelled; Google may leave out the title then.   *)
(***************************************************************************)
Entries == [title : EventTitles \cup {"", Null}, cancelled : BOOLEAN]

TitleObserved(e) == e.title # Null /\ (e.title # "" \/ ~e.cancelled)

\* _previous_names: the id of the latest earlier entry that saw a title, or 0.
PreviousName(i) ==
  LET earlier == {j \in 1..(i - 1) : TitleObserved(entries[j])}
  IN IF earlier = {} THEN 0 ELSE CHOOSE j \in earlier : \A h \in earlier : h <= j

\* Mutant: any title the entry recorded is what it saw.
RecordedEventVerbatim(i) ==
  LET own == entries[i]
      p == PreviousName(i)
      earlier == IF p = 0 THEN Null ELSE entries[p].title
  IN IF own.title = Null /\ p = 0 THEN Null
     ELSE [title |-> IF own.title # Null THEN own.title ELSE earlier,
           renamed |-> IF own.title # Null /\ ~own.cancelled /\ p # 0 /\ earlier # own.title
                       THEN earlier ELSE Null]

\* _recorded_event.
RecordedEvent(i) ==
  LET own == entries[i]
      p == PreviousName(i)
      earlier == IF p = 0 THEN Null ELSE entries[p].title
      cancelled == own.title # Null /\ own.cancelled
      observed == own.title # Null /\ (own.title # "" \/ ~cancelled)
      title == CASE observed -> own.title
                 [] ~observed /\ earlier # Null -> earlier
                 [] OTHER -> ""
  IN IF own.title = Null /\ p = 0 THEN Null
     ELSE [title |-> title,
           renamed |-> IF observed /\ ~cancelled /\ earlier # Null /\ earlier # title
                       THEN earlier ELSE Null]

\* An entry names its event by the last title anybody saw up to it, and tells a rename exactly
\* where that title changed, unless the event was cancelled under the new one.
NamedAsObserved ==
  \A i \in DOMAIN entries :
    LET saw(k) == {j \in 1..k : TitleObserved(entries[j])}
        last(k) == entries[CHOOSE j \in saw(k) : \A h \in saw(k) : h <= j].title
        shown == RecordedEvent(i)
    IN saw(i) # {} =>
         /\ shown.title = last(i)
         /\ IF saw(i - 1) # {} /\ last(i) # last(i - 1) /\ ~entries[i].cancelled
            THEN shown.renamed = last(i - 1) ELSE shown.renamed = Null

-----------------------------------------------------------------------------
(***************************************************************************)
(* Recent changes.  Entries are rows with the newest first: no write, a    *)
(* write of its own, or one of two repairs that recur.                     *)
(***************************************************************************)
Kinds == {"no write", "write", "repair a", "repair b"}
Writes == {i \in DOMAIN rows : rows[i] # "no write"}

\* Only repairs collapse; any other write is a change of its own.
KeyOf(i) == IF rows[i] = "write" THEN <<"write", i>> ELSE <<"repair", rows[i]>>

\* LIMIT: the first so many of a set of rows, in their order.
FirstOf(S, limit) == {i \in S : Cardinality({j \in S : j < i}) < limit}
Ordered(S) == SetToSortSeq(S, <)

\* setdefault(key, []).append(row), keys in the order they were first seen.
AddRow(groups, i) ==
  LET same == {g \in DOMAIN groups : KeyOf(groups[g][1]) = KeyOf(i)}
  IN IF same = {} THEN Append(groups, <<i>>)
     ELSE [g \in DOMAIN groups |-> IF g \in same THEN Append(groups[g], i) ELSE groups[g]]

\* Mutant: a page begins with the last row of the one before it.
PageInclusive(before, size) == FirstOf({i \in Writes : i >= before}, size)

\* The rows of a page: those after the last row read.
Page(before, size) == FirstOf({i \in Writes : i > before}, size)

ReadPage(limit, size, read) ==
  LET page == Page(read.before, size)
      groups == FoldLeft(LAMBDA gs, i : AddRow(gs, i), read.groups, Ordered(page))
  IN IF read.done THEN read
     ELSE [groups |-> groups,
           done |-> Cardinality(page) < size \/ Len(groups) > limit,
           before |-> IF page = {} THEN read.before ELSE Ordered(page)[Cardinality(page)]]

\* _recent_write_groups.
RecentGroups(limit, size, pages) ==
  LET read == FoldLeft(LAMBDA r, p : ReadPage(limit, size, r),
                       [groups |-> <<>>, done |-> FALSE, before |-> 0],
                       [p \in 1..pages |-> p])
  IN SubSeq(read.groups, 1, IF Len(read.groups) < limit THEN Len(read.groups) ELSE limit)

\* The list shows the newest distinct changes among the writes it may read, in order; each line
\* stands for identical repairs only, counts each of them once, and counts at least all those
\* that are newer than the oldest line, however the writes fall on pages.
RecentIsNewest ==
  rows # <<>> => \A limit \in 1..2, size \in 1..3, pages \in 1..3 :
    LET recent == RecentGroups(limit, size, pages)
        readable == FirstOf(Writes, size * pages)
        heads == {i \in readable : \A j \in readable : j < i => KeyOf(j) # KeyOf(i)}
        listed == {recent[g][1] : g \in DOMAIN recent}
    IN /\ listed = FirstOf(heads, limit)
       /\ \A g \in DOMAIN recent :
            LET group == {recent[g][k] : k \in DOMAIN recent[g]}
                same == {i \in readable : KeyOf(i) = KeyOf(recent[g][1])}
            IN /\ g > 1 => recent[g - 1][1] < recent[g][1]
               /\ recent[g] = Ordered(group) /\ group \subseteq same
               /\ {i \in same : \E h \in listed : i <= h} \subseteq group

\* What Activity answers is what the entries say.
QueriesAnswer == NamedAsObserved /\ RecentIsNewest

-----------------------------------------------------------------------------
InitTables == entries = <<>> /\ rows = <<>>

NextEntry ==
  \E e \in Entries : /\ Len(entries) < MaxRows /\ entries' = Append(entries, e)
                     /\ UNCHANGED rows

NextRow ==
  \E kind \in Kinds : /\ Len(rows) < MaxRows /\ rows' = Append(rows, kind)
                      /\ UNCHANGED entries

SpecTables == InitTables /\ [][NextEntry \/ NextRow]_<<entries, rows>>
=============================================================================
