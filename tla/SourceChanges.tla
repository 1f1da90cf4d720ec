--------------------------- MODULE SourceChanges ---------------------------
(***************************************************************************)
(* What a rule remembers of a source event it decided, and the changes     *)
(* that Activity shows (ADR 0017).                                         *)
(*                                                                         *)
(* A revision has a title, which is always known, and guests, which Google *)
(* may leave out of one listing and not of the next.  Time, description,   *)
(* location, recurrence and response are compared as the title is, and     *)
(* conferencing as the guests are.                                         *)
(*                                                                         *)
(* A run decides the event as a listing shows it, [revision, title,        *)
(* guests, fate]: fate says whether that decision was recorded, was left   *)
(* out of Activity, saw the event cancelled, or found that the observation *)
(* had been forgotten (it expired, or is sealed under another master key). *)
(***************************************************************************)
EXTENDS Naturals, Sequences

CONSTANTS
  Titles, GuestLists,
  MaxListings,   \* bound: listings decided
  Unknown        \* no observation, or guests that Google did not list

Fields == {"title", "guests"}
Fates == {"recorded", "left out", "cancelled", "forgotten"}

\* A list of attendees that Google shortened is unknown.
Guests == GuestLists \cup {Unknown}

\* SourceObservation: what is remembered of the revision observed last.
Observations == [revision : Nat, title : Titles, guests : Guests]

ASSUME ChangesAssumption ==
  /\ MaxListings \in Nat
  /\ Unknown \notin GuestLists \cup Titles \cup Observations

\* SourceObservation.of: a cancellation is not observed.
Of(listing) ==
  IF listing.fate = "cancelled" THEN Unknown
  ELSE [revision |-> listing.revision, title |-> listing.title, guests |-> listing.guests]

KnownDiffer(before, after) == before # Unknown /\ after # Unknown /\ before # after

\* SourceChange.between: the tracked fields that differ.
Between(before, after) ==
  {f \in Fields : CASE f = "guests" -> KnownDiffer(before.guests, after.guests)
                    [] f = "title" -> before.title # after.title}

\* Mutant: what Google left out replaces what was known.
KeepCompleteNever(previous, current) == current

\* A list Google did not return in full keeps the last complete one.
KeepComplete(previous, current) ==
  IF current.guests = Unknown THEN [current EXCEPT !.guests = previous.guests] ELSE current

Observation(previous, current) ==
  IF previous = Unknown THEN current ELSE KeepComplete(previous, current)

\* _observe.
Observe(memory, listing) ==
  LET previous == IF listing.fate = "forgotten" THEN Unknown ELSE memory.observation
      current == Of(listing)
      new == Observation(previous, current)
      quiet == [observation |-> previous, changes |-> Append(memory.changes, <<>>)]
  IN CASE current = Unknown -> quiet
       [] current # Unknown /\ previous # Unknown /\ previous.revision = current.revision -> quiet
       [] OTHER ->
            [observation |-> new,
             changes |-> Append(memory.changes,
               IF previous = Unknown THEN <<>>
               ELSE [f \in Between(previous, new) |-> <<previous[f], new[f]>>])]

\* record: only recorded decisions observe.
Record(memory, listing) ==
  IF listing.fate = "left out" THEN [memory EXCEPT !.changes = Append(@, <<>>)]
  ELSE Observe(memory, listing)

NothingObserved == [observation |-> Unknown, changes |-> <<>>]

-----------------------------------------------------------------------------
VARIABLES
  listings,   \* history: the listings decided so far
  memory      \* what was observed last and, for each listing, what was recorded as changed

InitChanges == listings = <<>> /\ memory = NothingObserved

Listing(revision, title, guests, fate) ==
  [revision |-> revision, title |-> title, guests |-> guests, fate |-> fate]

\* The guests of a revision do not change: Google lists all of them, or leaves them out.
Consistent(listing) ==
  \A i \in DOMAIN listings :
    listings[i].revision = listing.revision =>
      /\ listings[i].title = listing.title
      /\ Unknown \in {listings[i].guests, listing.guests} \/ listings[i].guests = listing.guests

\* A listing shows the revision before it again, or a newer one with any details.
DecideListing(title, guests, fate) ==
  \E newer \in IF listings = <<>> THEN {1} ELSE {0, 1} :
    LET last == IF listings = <<>> THEN 0 ELSE listings[Len(listings)].revision
        listing == Listing(last + newer, title, guests, fate)
    IN /\ Len(listings) < MaxListings /\ Consistent(listing)
       /\ listings' = Append(listings, listing)
       /\ memory' = Record(memory, listing)

NextChanges ==
  \E title \in Titles, guests \in Guests, fate \in Fates :
    DecideListing(title, guests, fate)

SpecChanges == InitChanges /\ [][NextChanges]_<<listings, memory>>

-----------------------------------------------------------------------------
\* The listings that observed a revision of their own since the last time all was forgotten.
Observing(j) ==
  /\ listings[j].fate \in {"recorded", "forgotten"}
  /\ listings[j].fate # "forgotten" =>
       ~\E h \in 1..(j - 1) : /\ listings[h].revision = listings[j].revision
                              /\ listings[h].fate \in {"recorded", "forgotten"}

\* The last known value of a field before listing i: Unknown if there is none.
LastKnown(i, f) ==
  LET known == {j \in 1..(i - 1) :
                  /\ Observing(j) /\ listings[j][f] # Unknown
                  /\ \A h \in (j + 1)..i : listings[h].fate # "forgotten"}
  IN IF known = {} THEN Unknown
     ELSE listings[CHOOSE j \in known : \A h \in known : h <= j][f]

\* Activity says that a field changed, and from what to what, exactly when a recorded decision saw
\* a new revision whose value is known and not the last one known: nothing is absorbed by a
\* decision that was left out, by a cancellation or by a list Google shortened, nor told twice.
ChangesAddUp ==
  \A i \in DOMAIN listings :
    memory.changes[i] =
      [f \in {f \in Fields : Observing(i) /\ KnownDiffer(LastKnown(i, f), listings[i][f])} |->
         <<LastKnown(i, f), listings[i][f]>>]
=============================================================================
