--------------------------- MODULE ActivityProofs ---------------------------
(***************************************************************************)
(* Theorems about Activity, the event an entry names (ActivityQueries) and *)
(* the changes Activity tells (SourceChanges).  For any number of entries, *)
(* runs and clearings and any batch size, clearing old entries loses       *)
(* nothing that Activity, the dashboard or a due block check reads, and    *)
(* the blocked Incident is opened on evidence.                             *)
(*                                                                         *)
(* An entry is asked about together with those before it: the one just     *)
(* before, the last one with a title, and, from a pass in progress, all    *)
(* since its floor.  The invariant says that all of these are safe: still  *)
(* there and not about to be deleted.  It says so of the entry that comes  *)
(* next, too, since a clearing in progress was decided before it.          *)
(***************************************************************************)
EXTENDS Activity, ActivityQueries, SourceChanges, FiniteSetTheorems, SequenceTheorems, TLAPS

Safe == (kept \ clear) \cup {0}

\* What is being deleted is old, and what is newer than every cutoff is there.
NewerIsKept == clear \subseteq kept \cap aged /\ Recorded \ aged \subseteq kept

\* What an entry that is newer, or the next one, is compared with.
Compared ==
  \A i \in (Recorded \ aged) \cup {Len(log) + 1} :
    i - 1 \in Safe /\ PreviousTitled(Recorded, i) \in Safe

\* A pass in progress finds its floor and everything since.
Spanned ==
  \A a \in Passes : actor[a].at # "idle" =>
    /\ actor[a].floor <= Len(log)
    /\ actor[a].floor .. Len(log) \subseteq Safe

\* Those whose run has an id of its own.
Numbered(a) == actor[a].at \notin {"idle", "waiting"}

RunsDiffer ==
  /\ \A i \in Recorded : log[i].run <= runs
  /\ \A a \in Actors : Numbered(a) => actor[a].run \in 1..runs
  /\ \A a, b \in Actors : Numbered(a) /\ Numbered(b) /\ actor[a].run = actor[b].run => a = b

Own(a) == {i \in Recorded : log[i].run = actor[a].run}

\* Before it is checked, the entry a pass recorded is the only one of its run.
Decided(a) ==
  IF actor[a].decided
  THEN \E i \in Recorded : /\ Own(a) = {i} /\ i > actor[a].floor
                           /\ Block(i) <=> actor[a].again
  ELSE Own(a) = {} /\ ~actor[a].again

Evidence ==
  \A a \in Passes :
    /\ actor[a].at # "idle" => (actor[a].before <=> Block(actor[a].floor))
    /\ actor[a].at \in {"running", "reporting"} => Decided(a)

Inv ==
  /\ TypeOK /\ NewerIsKept /\ Compared /\ Spanned
  /\ RunsDiffer /\ Evidence /\ RemovedIsUnblocked

-----------------------------------------------------------------------------
(***************************************************************************)
(* The questions about entries.                                            *)
(***************************************************************************)
\* A nonempty finite set of numbers has a largest member, because the sets of members larger than
\* one of them are well-founded by inclusion (FiniteSetsExt, Max).
LEMMA HasLargest ==
  ASSUME NEW n \in Nat, NEW K, K \subseteq 1..n, K # {}
  PROVE  \E m \in K : \A j \in K : j <= m
<1> DEFINE above(i) == {j \in K : j > i}
           T == {above(i) : i \in K}
<1>1. IsFiniteSet(K)
  <2>1. IsFiniteSet(1..n)
    BY FS_Interval
  <2> QED
    BY <2>1, FS_Subset
<1>2. T \subseteq FiniteSubsetsOf(K)
  BY <1>1, FS_FiniteSubsetsOfFinite
<1>3. PICK U \in T : \A V \in T : <<V, U>> \notin StrictSubsetOrdering(K)
  <2>1. T # {}
    OBVIOUS
  <2>2. IsWellFoundedOn(StrictSubsetOrdering(K), FiniteSubsetsOf(K))
    BY FS_StrictSubsetOrderingWellFounded
  <2> HIDE DEF T
  <2> QED
    BY <1>2, <2>1, <2>2, WFMin
<1>4. PICK m \in K : U = above(m)
  OBVIOUS
<1>5. \A j \in K : ~(j > m)
  <2> SUFFICES ASSUME NEW j \in K, j > m PROVE FALSE
    OBVIOUS
  <2>1. above(j) \in T
    OBVIOUS
  <2>2. above(j) \subseteq above(m)
    <3> SUFFICES ASSUME NEW k \in above(j) PROVE k \in above(m)
      OBVIOUS
    <3>1. k \in K /\ k > j
      OBVIOUS
    <3>2. j \in 1..n /\ m \in 1..n /\ k \in 1..n
      BY <3>1
    <3> QED
      BY <3>1, <3>2
  <2>3. j \in above(m) /\ j \notin above(j)
    OBVIOUS
  <2>4. above(j) \in SUBSET K /\ above(m) \in SUBSET K
    OBVIOUS
  <2> HIDE DEF above, T
  <2> QED
    BY <1>3, <1>4, <2>1, <2>2, <2>3, <2>4 DEF StrictSubsetOrdering
<1> QED
  BY <1>5

\* The newest entry of a set is in it and no other is newer.
LEMMA NewestOf ==
  ASSUME NEW n \in Nat, NEW K, K \subseteq 1..n
  PROVE  /\ K = {} => Newest(K) = 0
         /\ K # {} => Newest(K) \in K /\ \A j \in K : j <= Newest(K)
<1>1. K # {} => Max(K) \in K /\ \A j \in K : j <= Max(K)
  <2> SUFFICES ASSUME K # {} PROVE Max(K) \in K /\ \A j \in K : j <= Max(K)
    OBVIOUS
  <2>1. PICK m \in K : \A j \in K : j <= m
    BY HasLargest
  <2>2. \A j \in K : m >= j
    BY <2>1
  <2> QED
    BY <2>2 DEF Max
<1> QED
  BY <1>1 DEF Newest

LEMMA NewestIs ==
  ASSUME NEW n \in Nat, NEW K, K \subseteq 1..n, NEW m \in K, \A j \in K : j <= m
  PROVE  Newest(K) = m
<1> DEFINE x == Newest(K)
<1>1. x \in K /\ m <= x
  BY NewestOf
<1>2. x <= m /\ x \in 1..n /\ m \in 1..n
  BY <1>1
<1> HIDE DEF x
<1>3. x = m
  BY <1>1, <1>2
<1> QED
  BY <1>3 DEF x

LEMMA NewestTyped ==
  ASSUME NEW n \in Nat, NEW K, K \subseteq 1..n
  PROVE  Newest(K) \in 0..n
<1>1. CASE K = {}
  BY <1>1, NewestOf
<1>2. CASE K # {}
  <2>1. Newest(K) \in K
    BY <1>2, NewestOf
  <2>2. Newest(K) \in 1..n
    BY <2>1
  <2> QED
    BY <2>2
<1> QED
  BY <1>1, <1>2


\* An entry is right after the one it is compared with, when that one is there.
LEMMA PreviousIs ==
  ASSUME NEW n \in Nat, NEW K, K \subseteq 1..n, NEW i \in 1..(n + 1), i - 1 \in K \cup {0}
  PROVE  Previous(K, i) = i - 1
<1> DEFINE before == {j \in K : j < i}
<1>1. before \subseteq 1..n
  OBVIOUS
<1>2. \A j \in before : j \in 1..n /\ j < i
  OBVIOUS
<1>3. CASE i = 1
  <2>1. before = {}
    <3> SUFFICES ASSUME NEW j \in before PROVE FALSE
      OBVIOUS
    <3>1. j \in 1..n /\ j < 1
      BY <1>2, <1>3
    <3> QED
      BY <3>1
  <2> QED
    BY <2>1, <1>3 DEF Previous, Newest
<1>4. CASE i # 1
  <2>1. i - 1 \in before
    <3>1. i - 1 # 0 /\ i - 1 < i
      BY <1>4
    <3>2. i - 1 \in K
      BY <3>1
    <3> QED
      BY <3>1, <3>2
  <2>2. \A j \in before : j <= i - 1
    BY <1>2
  <2>3. Newest(before) = i - 1
    <3> HIDE DEF before
    <3> QED
      BY <1>1, <2>1, <2>2, NewestIs
  <2> QED
    BY <2>3 DEF Previous
<1> QED
  BY <1>3, <1>4

\* The last earlier title is read from the entries that are left when its entry is one of them.
LEMMA TitledIs ==
  ASSUME NEW n \in Nat, NEW K, K \subseteq 1..n, NEW i, PreviousTitled(1..n, i) \in K \cup {0}
  PROVE  PreviousTitled(K, i) = PreviousTitled(1..n, i)
<1> DEFINE all == {j \in 1..n : j < i /\ log[j].titled}
           left == {j \in K : j < i /\ log[j].titled}
           p == Newest(all)
<1>1. all \subseteq 1..n /\ left \subseteq 1..n /\ left \subseteq all
  OBVIOUS
<1>2. p \in K /\ p \in all => p \in left
  OBVIOUS
<1>3. p \in K \cup {0}
  BY DEF PreviousTitled
<1>4. Newest(left) = p
  <2> HIDE DEF all, left, p
  <2>1. CASE all = {}
    <3>1. left = {}
      BY <1>1, <2>1
    <3> QED
      BY <3>1, <2>1, NewestOf, <1>1 DEF p
  <2>2. CASE all # {}
    <3>1. p \in all /\ \A j \in all : j <= p
      BY <1>1, <2>2, NewestOf DEF p
    <3>2. p # 0
      BY <3>1, <1>1
    <3>3. p \in left /\ \A j \in left : j <= p
      BY <1>1, <1>2, <1>3, <3>1, <3>2
    <3> QED
      BY <1>1, <3>3, NewestIs
  <2> QED
    BY <2>1, <2>2
<1> QED
  BY <1>4 DEF PreviousTitled

LEMMA TitledTyped ==
  ASSUME NEW n \in Nat, NEW K, K \subseteq 1..n, NEW i
  PROVE  PreviousTitled(K, i) \in 0..n
<1> DEFINE before == {j \in K : j < i /\ log[j].titled}
<1>1. before \subseteq 1..n
  OBVIOUS
<1>2. Newest(before) \in 0..n
  <2> HIDE DEF before
  <2> QED
    BY <1>1, NewestTyped
<1> QED
  BY <1>2 DEF PreviousTitled

-----------------------------------------------------------------------------
(***************************************************************************)
(* The steps, by what they do to the entries.                              *)
(***************************************************************************)
LEMMA EntriesTyped ==
  ASSUME TypeOK
  PROVE  /\ Len(log) \in Nat
         /\ \A i \in Recorded : i \in 1..Len(log) /\ log[i] \in Entry
         /\ Recorded = 1..Len(log)
BY LenProperties, ElementOfSeq DEF TypeOK, Recorded

\* One entry is recorded after the others.
Grows(run, act, titled) ==
  /\ log' \in Seq(Entry) /\ Len(log') <= MaxEntries
  /\ Len(log') = Len(log) + 1
  /\ Recorded' = Recorded \cup {Len(log) + 1}
  /\ \A i \in Recorded : log'[i] = log[i]
  /\ log'[Len(log) + 1] = [run |-> run, act |-> act, titled |-> titled]
  /\ kept' = kept \cup {Len(log) + 1}
  /\ UNCHANGED <<aged, clear, clears, runs>>

LEMMA AppendGrows ==
  ASSUME TypeOK, NEW run, NEW act, NEW titled,
         run \in 1..MaxRuns, act \in {"block", "repair", "other"}, titled \in BOOLEAN,
         Append1(run, act, titled), UNCHANGED <<clearVars, runs>>
  PROVE  Grows(run, act, titled)
<1> DEFINE e == [run |-> run, act |-> act, titled |-> titled]
<1>1. e \in Entry
  BY DEF Entry
<1>2. log' = Append(log, e) /\ Len(log) < MaxEntries /\ kept' = kept \cup {Len(log) + 1}
  BY DEF Append1
<1>3. log \in Seq(Entry) /\ Len(log) \in Nat
  BY EntriesTyped DEF TypeOK
<1> HIDE DEF e
<1>4. /\ log' \in Seq(Entry) /\ Len(log') = Len(log) + 1
      /\ \A i \in 1..Len(log) : log'[i] = log[i]
      /\ log'[Len(log) + 1] = e
  BY <1>1, <1>2, <1>3, AppendProperties
<1>5. Len(log') <= MaxEntries
  BY <1>2, <1>3, <1>4, ActivityAssumption
<1>6. Recorded' = Recorded \cup {Len(log) + 1}
  BY <1>3, <1>4 DEF Recorded
<1> QED
  BY <1>2, <1>4, <1>5, <1>6 DEF Grows, e, Recorded, clearVars


\* Nothing is recorded, and at most what was being deleted goes.
Same ==
  /\ UNCHANGED <<log, aged>>
  /\ kept \ clear \subseteq kept' \ clear'
  /\ kept' \subseteq kept /\ clear' \subseteq clear \cap kept'

LEMMA DecisionGrows ==
  ASSUME Inv, NEW a \in Actors, NEW act, NEW titled, [act |-> act, titled |-> titled] \in Decisions,
         Decide(a, act, titled)
  PROVE  Grows(actor[a].run, act, titled) /\ actor[a].run \in 1..runs
<1>1. actor[a].run \in 1..runs /\ actor[a].run \in 1..MaxRuns
  <2>1. actor[a].run \in 1..runs
    BY DEF Decide, Inv, RunsDiffer, Numbered
  <2>2. runs \in 0..MaxRuns /\ MaxRuns \in Nat
    BY ActivityAssumption DEF Inv, TypeOK
  <2> QED
    BY <2>1, <2>2
<1>2. act \in {"block", "repair", "other"} /\ titled \in BOOLEAN
  <2> DEFINE d == [act |-> act, titled |-> titled]
  <2>1. d \in [act : {"block", "repair", "other"}, titled : BOOLEAN]
    BY ActivityAssumption
  <2>2. d.act \in {"block", "repair", "other"} /\ d.titled \in BOOLEAN
    BY <2>1
  <2> QED
    BY <2>2
<1> QED
  BY <1>1, <1>2, AppendGrows DEF Decide, Inv

LEMMA ConflictGrows ==
  ASSUME Inv, NEW conflict \in BOOLEAN, Reconcile(conflict)
  PROVE  \/ UNCHANGED logVars
         \/ /\ Grows(actor[ReconcileNow].run, "block", FALSE)
            /\ actor[ReconcileNow].run \in 1..runs
<1>1. actor[ReconcileNow].run \in 1..runs /\ actor[ReconcileNow].run \in 1..MaxRuns
  <2>1. actor[ReconcileNow].run \in 1..runs
    BY DEF Reconcile, Inv, RunsDiffer, Numbered, Actors
  <2>2. runs \in 0..MaxRuns /\ MaxRuns \in Nat
    BY ActivityAssumption DEF Inv, TypeOK
  <2> QED
    BY <2>1, <2>2
<1>2. CASE conflict /\ ~actor[ReconcileNow].again
  BY <1>1, <1>2, AppendGrows DEF Reconcile, Inv
<1>3. CASE ~(conflict /\ ~actor[ReconcileNow].again)
  BY <1>3 DEF Reconcile
<1> QED
  BY <1>2, <1>3

LEMMA EntrySteps ==
  ASSUME Inv, [Next]_vars
  PROVE  \/ Same
         \/ \E run \in 1..runs, act \in {"block", "repair", "other"}, titled \in BOOLEAN :
              Grows(run, act, titled)
         \/ \E old \in SUBSET kept : BeginClear(old)
<1>1. clear \subseteq kept
  BY DEF Inv, NewerIsKept
<1>2. UNCHANGED <<logVars, clearVars>> => Same
  BY <1>1 DEF Same, logVars, clearVars
<1>3. CASE UNCHANGED vars
  BY <1>2, <1>3 DEF vars
<1>4. ASSUME NEW a \in Actors,
             \/ Begin(a) \/ Start(a) \/ Skip(a) \/ Check(a) \/ LoseCheck(a)
             \/ \E retry \in BOOLEAN : Fail(a, retry)
             \/ \E listed \in BOOLEAN : Succeed(a, listed)
      PROVE  Same
  BY <1>2, <1>4 DEF Begin, Start, Skip, Check, LoseCheck, Fail, Succeed
<1>5. ASSUME NEW a \in Actors, NEW d \in Decisions, Decide(a, d.act, d.titled)
      PROVE  /\ d.act \in {"block", "repair", "other"} /\ d.titled \in BOOLEAN
             /\ Grows(actor[a].run, d.act, d.titled) /\ actor[a].run \in 1..runs
  <2>1. d \in [act : {"block", "repair", "other"}, titled : BOOLEAN]
    BY ActivityAssumption
  <2>2. d = [act |-> d.act, titled |-> d.titled]
    BY <2>1
  <2>3. Grows(actor[a].run, d.act, d.titled) /\ actor[a].run \in 1..runs
    BY <1>5, <2>2, DecisionGrows
  <2> QED
    BY <2>1, <2>3
<1>6. CASE StartReconciling \/ RemoveRule
  BY <1>2, <1>6 DEF StartReconciling, RemoveRule
<1>7. ASSUME NEW conflict \in BOOLEAN, Reconcile(conflict)
      PROVE  \/ Same
             \/ /\ Grows(actor[ReconcileNow].run, "block", FALSE)
                /\ actor[ReconcileNow].run \in 1..runs
  BY <1>2, <1>7, ConflictGrows DEF Reconcile
<1>8. CASE DeleteBatch
  <2>1. PICK batch \in SUBSET clear : kept' = kept \ batch /\ clear' = clear \ batch
    BY <1>8 DEF DeleteBatch
  <2>2. UNCHANGED <<log, aged>>
    BY <1>8 DEF DeleteBatch
  <2> QED
    BY <1>1, <2>1, <2>2 DEF Same
<1>9. CASE Restart
  BY <1>1, <1>9 DEF Restart, Same, logVars
<1> QED
  BY <1>3, <1>4, <1>5, <1>6, <1>7, <1>8, <1>9 DEF Next


-----------------------------------------------------------------------------
(***************************************************************************)
(* What is kept.                                                           *)
(***************************************************************************)
LEMMA SafeStays ==
  ASSUME Inv
  PROVE  /\ Same => Safe \subseteq Safe'
         /\ \A run, act, titled :
              Grows(run, act, titled) => Safe' = Safe \cup {Len(log) + 1} /\ Safe \subseteq Recorded \cup {0}
<1>1. Same => Safe \subseteq Safe'
  BY DEF Same, Safe
<1>2. ASSUME NEW run, NEW act, NEW titled, Grows(run, act, titled)
      PROVE  Safe' = Safe \cup {Len(log) + 1} /\ Safe \subseteq Recorded \cup {0}
  <2>1. kept \subseteq Recorded /\ clear \subseteq Recorded
    BY DEF Inv, TypeOK
  <2>2. Len(log) + 1 \notin Recorded
    BY EntriesTyped DEF Inv
  <2> QED
    BY <1>2, <2>1, <2>2 DEF Grows, Safe
<1> QED
  BY <1>1, <1>2

LEMMA KeepsNewer ==
  ASSUME Inv, [Next]_vars
  PROVE  NewerIsKept'
<1>1. NewerIsKept /\ kept \subseteq Recorded /\ aged \subseteq Recorded
  BY DEF Inv, TypeOK
<1>2. CASE Same
  <2>1. Recorded' = Recorded
    BY <1>2 DEF Same, Recorded
  <2> QED
    BY <1>1, <1>2, <2>1 DEF NewerIsKept, Same
<1>3. ASSUME NEW run, NEW act, NEW titled, Grows(run, act, titled) PROVE NewerIsKept'
  BY <1>1, <1>3 DEF NewerIsKept, Grows
<1>4. ASSUME NEW old \in SUBSET kept, BeginClear(old) PROVE NewerIsKept'
  <2>1. UNCHANGED <<log, kept>> /\ aged' = aged \cup old /\ clear' \subseteq old
    BY <1>4 DEF BeginClear, logVars
  <2>2. Recorded' = Recorded
    BY <2>1 DEF Recorded
  <2> QED
    BY <1>1, <2>1, <2>2 DEF NewerIsKept
<1> QED
  BY <1>2, <1>3, <1>4, EntrySteps

\* The last title before an entry does not change when another is recorded, and the last one
\* of all is that of the entry just recorded or the one before it.
LEMMA TitledBefore ==
  ASSUME Inv, NEW run, NEW act, NEW titled \in BOOLEAN, Grows(run, act, titled)
  PROVE  /\ \A i \in 1..(Len(log) + 1) : PreviousTitled(Recorded, i)' = PreviousTitled(Recorded, i)
         /\ \A i : i = Len(log) + 2 =>
              PreviousTitled(Recorded, i)' \in {Len(log) + 1, PreviousTitled(Recorded, Len(log) + 1)}
<1> DEFINE n == Len(log)
<1>1. n \in Nat /\ Recorded = 1..n /\ Recorded' = 1..(n + 1)
  BY EntriesTyped DEF Grows, Inv, Recorded
<1>2. \A j \in 1..n : log'[j] = log[j]
  BY <1>1 DEF Grows
<1>3. log'[n + 1].titled = titled
  BY DEF Grows
<1>4. ASSUME NEW i \in 1..(n + 1)
      PROVE  PreviousTitled(Recorded, i)' = PreviousTitled(Recorded, i)
  <2> DEFINE S == {j \in Recorded : j < i /\ log[j].titled}
             T == {j \in Recorded' : j < i /\ log'[j].titled}
  <2>1. \A j : j \in S <=> j \in T
    <3>1. \A j \in 1..(n + 1) : j < i => j \in 1..n
      BY <1>1
    <3> QED
      BY <1>1, <1>2, <3>1
  <2>2. S = T
    BY <2>1
  <2> QED
    BY <2>2 DEF PreviousTitled
<1>5. ASSUME NEW i, i = n + 2
      PROVE  PreviousTitled(Recorded, i)' \in {n + 1, PreviousTitled(Recorded, n + 1)}
  <2> DEFINE S == {j \in Recorded : j < n + 1 /\ log[j].titled}
             T == {j \in Recorded' : j < i /\ log'[j].titled}
  <2>1. CASE titled
    <3>1. n + 1 \in T
      <4>1. n + 1 \in Recorded' /\ n + 1 < i
        BY <1>1, <1>5
      <4> QED
        BY <1>3, <2>1, <4>1
    <3>2. T \subseteq 1..(n + 1)
      BY <1>1
    <3>3. Newest(T) = n + 1
      <4>1. \A j \in T : j <= n + 1
        BY <1>1
      <4>2. n + 1 \in Nat
        BY <1>1
      <4> HIDE DEF T, n
      <4> QED
        BY <3>1, <3>2, <4>1, <4>2, NewestIs
    <3> QED
      BY <3>3 DEF PreviousTitled
  <2>2. CASE ~titled
    <3>1. \A j : j \in S <=> j \in T
      <4>1. \A j \in 1..(n + 1) : j \in 1..n \/ j = n + 1
        BY <1>1
      <4>2. \A j \in 1..n : j < n + 1 /\ j < i
        BY <1>1, <1>5
      <4> QED
        BY <1>1, <1>2, <1>3, <2>2, <4>1, <4>2
    <3>2. S = T
      BY <3>1
    <3> QED
      BY <3>2 DEF PreviousTitled
  <2> QED
    BY <2>1, <2>2
<1> QED
  BY <1>4, <1>5

LEMMA KeepsCompared ==
  ASSUME Inv, [Next]_vars
  PROVE  Compared'
<1> DEFINE n == Len(log)
<1>1. /\ n \in Nat /\ Recorded = 1..n /\ kept \subseteq Recorded
      /\ NewerIsKept /\ Compared /\ aged \subseteq Recorded
  BY EntriesTyped DEF Inv, TypeOK
<1>2. CASE Same
  <2>1. Recorded' = Recorded /\ Len(log') = n /\ aged' = aged
    BY <1>2 DEF Same, Recorded
  <2>2. \A i : PreviousTitled(Recorded, i)' = PreviousTitled(Recorded, i)
    BY <1>2, <2>1 DEF Same, PreviousTitled
  <2> QED
    BY <1>1, <1>2, <2>1, <2>2, SafeStays DEF Compared
<1>3. ASSUME NEW run, NEW act, NEW titled \in BOOLEAN, Grows(run, act, titled) PROVE Compared'
  <2>1. Safe' = Safe \cup {n + 1} /\ Len(log') = n + 1 /\ aged' = aged
    BY <1>3, SafeStays DEF Grows
  <2>2. Recorded' \ aged' \subseteq (Recorded \ aged) \cup {n + 1}
    BY <1>3, <2>1 DEF Grows
  <2>3. ASSUME NEW i \in (Recorded \ aged) \cup {n + 1}
        PROVE  i - 1 \in Safe' /\ PreviousTitled(Recorded, i)' \in Safe'
    <3>1. i - 1 \in Safe /\ PreviousTitled(Recorded, i) \in Safe
      BY <1>1 DEF Compared
    <3>2. i \in 1..(n + 1)
      BY <1>1
    <3>3. PreviousTitled(Recorded, i)' = PreviousTitled(Recorded, i)
      BY <1>3, <3>2, TitledBefore
    <3> QED
      BY <2>1, <3>1, <3>3
  <2>4. ASSUME NEW i, i = n + 2
        PROVE  i - 1 \in Safe' /\ PreviousTitled(Recorded, i)' \in Safe'
    <3>1. PreviousTitled(Recorded, n + 1) \in Safe
      BY <1>1 DEF Compared
    <3>2. PreviousTitled(Recorded, i)' \in {n + 1, PreviousTitled(Recorded, n + 1)}
      BY <1>3, <2>4, TitledBefore
    <3>3. i - 1 = n + 1
      BY <1>1, <2>4
    <3> QED
      BY <2>1, <3>1, <3>2, <3>3
  <2>5. Len(log') + 1 = n + 2
    BY <1>1, <2>1
  <2>6. ASSUME NEW i \in (Recorded' \ aged') \cup {Len(log') + 1}
        PROVE  i - 1 \in Safe' /\ PreviousTitled(Recorded, i)' \in Safe'
    BY <2>2, <2>3, <2>4, <2>5
  <2> QED
    BY <2>6 DEF Compared
<1>4. ASSUME NEW old \in SUBSET kept, BeginClear(old) PROVE Compared'
  <2> DEFINE P == Protected(kept, old)
  <2>1. /\ UNCHANGED <<log, kept>> /\ clear = {} /\ aged' = aged \cup old
        /\ clear' = old \ P
    BY <1>4 DEF BeginClear, logVars
  <2>2. Recorded' = Recorded /\ Len(log') = n
    BY <2>1 DEF Recorded
  <2>3. \A i : PreviousTitled(Recorded, i)' = PreviousTitled(Recorded, i)
    BY <2>1, <2>2 DEF PreviousTitled
  <2>4. Safe = kept \cup {0}
    BY <2>1 DEF Safe
  <2>5. \A j \in P : j \in kept \cup {0} => j \in Safe'
    BY <2>1 DEF Safe
  <2>6. n \in P \/ n = 0
    <3>1. n \in Safe
      <4>1. n + 1 - 1 \in Safe
        BY <1>1 DEF Compared
      <4> QED
        BY <1>1, <4>1
    <3>2. n # 0 => Newest(kept) = n
      <4> SUFFICES ASSUME n # 0 PROVE Newest(kept) = n
        OBVIOUS
      <4>1. n \in kept /\ kept \subseteq 1..n /\ \A j \in kept : j <= n
        BY <1>1, <2>4, <3>1
      <4> HIDE DEF n
      <4> QED
        BY <1>1, <4>1, NewestIs
    <3> QED
      BY <3>2 DEF Protected, LatestIn
  <2>7. ASSUME NEW i \in (Recorded \ (aged \cup old)) \cup {n + 1}
        PROVE  i - 1 \in Safe' /\ PreviousTitled(Recorded, i) \in Safe'
    <3>1. i - 1 \in kept \cup {0} /\ PreviousTitled(Recorded, i) \in kept \cup {0} /\ i \in 1..(n + 1)
      BY <1>1, <2>4 DEF Compared
    <3>2. Previous(kept, i) = i - 1 /\ PreviousTitled(kept, i) = PreviousTitled(Recorded, i)
      <4> HIDE DEF n
      <4> QED
        BY <1>1, <3>1, PreviousIs, TitledIs
    <3>3. CASE i \in Recorded \ (aged \cup old)
      <4>1. i \in kept /\ i \notin old
        BY <1>1, <3>3 DEF NewerIsKept
      <4>2. Previous(kept, i) \in P /\ PreviousTitled(kept, i) \in P
        BY <4>1 DEF Protected
      <4> QED
        BY <2>5, <3>1, <3>2, <4>2
    <3>4. CASE i = n + 1
      <4>1. i - 1 = n
        BY <1>1, <3>4
      <4>2. i - 1 \in Safe'
        BY <2>5, <2>6, <3>1, <4>1 DEF Safe
      <4>3. PreviousTitled(Recorded, n + 1) \in P \cup {0}
        <5> DEFINE S == {j \in Recorded : j < n + 1 /\ log[j].titled}
                   T == {j \in Recorded : j < n /\ log[j].titled}
        <5>1. CASE n = 0
          <6>1. S = {}
            BY <1>1, <5>1
          <6> QED
            BY <6>1 DEF PreviousTitled, Newest
        <5>2. CASE n # 0 /\ log[n].titled
          <6>1. n \in S /\ S \subseteq 1..n /\ \A j \in S : j <= n
            BY <1>1, <5>2
          <6>2. Newest(S) = n
            <7> HIDE DEF S, n
            <7> QED
              BY <1>1, <6>1, NewestIs
          <6> QED
            BY <2>6, <5>2, <6>2 DEF PreviousTitled
        <5>3. CASE n # 0 /\ ~log[n].titled
          <6>1. \A j : j \in S <=> j \in T
            <7>1. \A j \in 1..n : j < n + 1 /\ (j < n \/ j = n)
              BY <1>1
            <7>2. \A j \in T : j < n + 1
              BY <1>1
            <7> QED
              BY <1>1, <5>3, <7>1, <7>2
          <6>2. PreviousTitled(Recorded, n + 1) = PreviousTitled(Recorded, n)
            BY <6>1 DEF PreviousTitled
          <6>3. n \in kept
            BY <3>1, <3>4, <4>1, <5>3
          <6>4. n \in LatestIn(kept)
            <7>1. kept \subseteq 1..n /\ \A j \in kept : j <= n
              BY <1>1
            <7>2. Newest(kept) = n
              <8> HIDE DEF n
              <8> QED
                BY <1>1, <6>3, <7>1, NewestIs
            <7> QED
              BY <5>3, <7>2 DEF LatestIn
          <6>5. PreviousTitled(kept, n) \in P
            BY <5>3, <6>3, <6>4 DEF Protected
          <6>6. PreviousTitled(kept, n) = PreviousTitled(Recorded, n)
            <7>1. PreviousTitled(1..n, n) \in kept \cup {0}
              BY <1>1, <3>1, <3>4, <6>2
            <7> HIDE DEF n
            <7> QED
              BY <1>1, <7>1, TitledIs
          <6> QED
            BY <6>2, <6>5, <6>6
        <5> QED
          BY <5>1, <5>2, <5>3
      <4> QED
        BY <2>5, <3>1, <3>4, <4>2, <4>3 DEF Safe
    <3> QED
      BY <3>3, <3>4
  <2> HIDE DEF P
  <2> QED
    BY <2>1, <2>2, <2>3, <2>7 DEF Compared
<1> QED
  BY <1>2, <1>3, <1>4, EntrySteps


-----------------------------------------------------------------------------
(***************************************************************************)
(* What a pass in progress finds.                                          *)
(***************************************************************************)
\* A pass keeps the floor it began with, and what it knew then.
LEMMA FloorStays ==
  ASSUME Inv, [Next]_vars, NEW a \in Passes
  PROVE  \/ actor'[a].at = "idle"
         \/ /\ actor[a].at # "idle"
            /\ actor'[a].floor = actor[a].floor /\ actor'[a].before = actor[a].before
         \/ Begin(a)
<1>1. TypeOK /\ a \in Actors
  BY DEF Inv, Passes, Actors
<1>2. actor' = actor => \/ actor'[a].at = "idle"
                        \/ /\ actor[a].at # "idle"
                           /\ actor'[a].floor = actor[a].floor /\ actor'[a].before = actor[a].before
  OBVIOUS
<1>3. CASE UNCHANGED vars
  BY <1>2, <1>3 DEF vars
<1>4. ASSUME NEW b \in Actors, Begin(b) PROVE b # a => actor'[a] = actor[a]
  BY <1>1, <1>4 DEF Begin, TypeOK
<1>5. ASSUME NEW b \in Actors,
             \/ Start(b) \/ Skip(b) \/ Check(b) \/ LoseCheck(b)
             \/ \E d \in Decisions : Decide(b, d.act, d.titled)
             \/ \E retry \in BOOLEAN : Fail(b, retry)
             \/ \E listed \in BOOLEAN : Succeed(b, listed)
      PROVE  \/ actor'[a].at = "idle"
             \/ /\ actor[a].at # "idle"
                /\ actor'[a].floor = actor[a].floor /\ actor'[a].before = actor[a].before
  <2>1. CASE b # a
    <3>1. actor'[a] = actor[a]
      BY <1>1, <1>5, <2>1
        DEF Start, Skip, Check, LoseCheck, Decide, Fail, Succeed, AfterCheck, TypeOK
    <3> QED
      BY <3>1
  <2>2. CASE b = a
    <3>1. CASE Start(a)
      BY <1>1, <3>1 DEF Start, TypeOK
    <3>2. CASE Skip(a)
      BY <1>1, <3>2 DEF Skip, NoRun, TypeOK
    <3>3. CASE Check(a) \/ LoseCheck(a)
      BY <1>1, <3>3 DEF Check, LoseCheck, AfterCheck, NoRun, TypeOK
    <3>4. CASE \E d \in Decisions : Decide(a, d.act, d.titled)
      BY <1>1, <3>4 DEF Decide, TypeOK
    <3>5. CASE \E retry \in BOOLEAN : Fail(a, retry)
      <4>1. PICK retry \in BOOLEAN : Fail(a, retry)
        BY <3>5
      <4>2. CASE retry
        BY <1>1, <4>1, <4>2 DEF Fail, TypeOK
      <4>3. CASE ~retry
        BY <1>1, <4>1, <4>3 DEF Fail, NoRun, TypeOK
      <4> QED
        BY <4>2, <4>3
    <3>6. CASE \E listed \in BOOLEAN : Succeed(a, listed)
      <4>1. PICK listed \in BOOLEAN : Succeed(a, listed)
        BY <3>6
      <4>2. CASE listed
        BY <1>1, <4>1, <4>2 DEF Succeed, TypeOK
      <4>3. CASE ~listed
        BY <1>1, <4>1, <4>3 DEF Succeed, NoRun, TypeOK
      <4> QED
        BY <4>2, <4>3
    <3> QED
      BY <1>5, <2>2, <3>1, <3>2, <3>3, <3>4, <3>5, <3>6
  <2> QED
    BY <2>1, <2>2
<1>6. CASE StartReconciling
  BY <1>1, <1>6 DEF StartReconciling, NoRun, TypeOK, Passes, Actors
<1>7. ASSUME NEW conflict \in BOOLEAN, Reconcile(conflict)
      PROVE  \/ actor'[a].at = "idle"
             \/ /\ actor[a].at # "idle"
                /\ actor'[a].floor = actor[a].floor /\ actor'[a].before = actor[a].before
  BY <1>1, <1>7 DEF Reconcile, NoRun, TypeOK
<1>8. CASE RemoveRule \/ DeleteBatch \/ \E old \in SUBSET kept : BeginClear(old)
  BY <1>2, <1>8 DEF RemoveRule, DeleteBatch, BeginClear
<1>9. CASE Restart
  BY <1>1, <1>9 DEF Restart, NoRun
<1> QED
  <2>1. CASE \E b \in Actors : Begin(b)
    BY <1>1, <1>4, <2>1
  <2> QED
    BY <1>3, <1>5, <1>6, <1>7, <1>8, <1>9, <2>1 DEF Next

\* The newest entry is never deleted.
LEMMA NewestKept ==
  ASSUME Inv
  PROVE  Len(log) \in Safe /\ Newest(kept) = Len(log) /\ Newest(Recorded) = Len(log)
<1> DEFINE n == Len(log)
<1>1. n \in Nat /\ Recorded = 1..n /\ kept \subseteq 1..n
  BY EntriesTyped DEF Inv, TypeOK
<1>2. n \in Safe
  <2>1. n + 1 - 1 \in Safe
    BY DEF Inv, Compared
  <2> QED
    BY <1>1, <2>1
<1>3. CASE n = 0
  <2>1. kept = {} /\ Recorded = {}
    BY <1>1, <1>3
  <2> QED
    BY <1>2, <1>3, <2>1 DEF Newest
<1>4. CASE n # 0
  <2>1. n \in kept /\ n \in Recorded /\ \A j \in Recorded : j <= n
    BY <1>1, <1>2, <1>4 DEF Safe
  <2>2. \A j \in kept : j <= n
    BY <1>1
  <2> HIDE DEF n
  <2>3. Newest(kept) = n /\ Newest(Recorded) = n
    BY <1>1, <2>1, <2>2, NewestIs
  <2> QED
    BY <1>2, <2>3 DEF n
<1> QED
  BY <1>3, <1>4

LEMMA KeepsSpanned ==
  ASSUME Inv, [Next]_vars
  PROVE  Spanned'
<1> SUFFICES ASSUME NEW a \in Passes, actor'[a].at # "idle"
             PROVE  actor'[a].floor <= Len(log') /\ actor'[a].floor .. Len(log') \subseteq Safe'
  BY DEF Spanned
<1> DEFINE n == Len(log)
           f == actor[a].floor
<1>1. /\ n \in Nat /\ Recorded = 1..n /\ kept \subseteq 1..n /\ f \in Nat
      /\ clear \subseteq kept
  BY EntriesTyped, ActivityAssumption DEF Inv, TypeOK, NewerIsKept, Passes, Actors, Ids
<1>2. CASE Begin(a)
  <2>1. actor'[a].floor = n
    <3>1. a \in Actors
      BY DEF Passes, Actors
    <3> QED
      BY <1>2, <3>1, NewestKept DEF Begin, NoRun, Inv, TypeOK
  <2>2. UNCHANGED <<log, kept, clear>>
    BY <1>2 DEF Begin, logVars, clearVars
  <2>3. n..n = {n}
    BY <1>1
  <2> QED
    BY <1>1, <2>1, <2>2, <2>3, NewestKept DEF Safe
<1>3. CASE actor[a].at # "idle" /\ actor'[a].floor = f
  <2>1. f <= n /\ f..n \subseteq Safe
    BY <1>3 DEF Inv, Spanned
  <2>2. CASE Same
    BY <1>3, <2>1, <2>2, SafeStays DEF Same
  <2>3. ASSUME NEW run, NEW act, NEW titled, Grows(run, act, titled)
        PROVE  f <= Len(log') /\ f..Len(log') \subseteq Safe'
    <3>1. Len(log') = n + 1 /\ Safe' = Safe \cup {n + 1}
      BY <2>3, SafeStays DEF Grows
    <3>2. \A j \in f..(n + 1) : j \in f..n \/ j = n + 1
      BY <1>1
    <3> QED
      BY <1>1, <2>1, <3>1, <3>2
  <2>4. ASSUME NEW old \in SUBSET kept, BeginClear(old)
        PROVE  f..n \subseteq Safe' /\ Len(log') = n
    <3> DEFINE P == Protected(kept, old)
    <3>1. UNCHANGED <<log, kept>> /\ clear' = old \ P /\ Dated(old)
      BY <2>4 DEF BeginClear, logVars
    <3>2. \A j \in old : j > f => j \in LatestIn(kept) /\ Block(j)
      BY <1>3, <3>1 DEF Dated
    <3>3. \A j \in Safe : (j \in P \/ j \notin old) => j \in Safe'
      BY <3>1 DEF Safe
    <3>4. LatestIn(kept) \subseteq P
      BY DEF Protected
    <3>5. ASSUME NEW j \in f..n, j > f PROVE j \in Safe'
      BY <2>1, <3>2, <3>3, <3>4, <3>5
    <3>6. f \in Safe'
      <4>1. f \in Safe
        BY <1>1, <2>1
      <4>2. CASE f = n
        <5>1. n \in P \/ n = 0
          BY <3>4, NewestKept DEF LatestIn
        <5> QED
          BY <3>1, <3>3, <4>1, <4>2, <5>1 DEF Safe
      <4>3. CASE f # n
        <5>1. f + 1 \in f..n /\ f + 1 > f /\ f + 1 # 0 /\ f + 1 \in 1..(n + 1) /\ f + 1 - 1 = f
          BY <1>1, <2>1, <4>3
        <5>2. f + 1 \in kept
          BY <2>1, <5>1 DEF Safe
        <5>3. Previous(kept, f + 1) = f
          <6> DEFINE i == f + 1
          <6>1. i \in 1..(n + 1) /\ i - 1 = f /\ i - 1 \in kept \cup {0}
            <7>1. f \in kept \cup {0}
              BY <4>1 DEF Safe
            <7>2. i \in 1..(n + 1) /\ i - 1 = f
              BY <1>1, <5>1
            <7> HIDE DEF i, f
            <7> QED
              BY <7>1, <7>2
          <6> HIDE DEF i
          <6>2. Previous(kept, i) = i - 1
            <7>1. /\ n \in Nat /\ kept \subseteq 1..n
                  /\ i \in 1..(n + 1) /\ i - 1 \in kept \cup {0}
              BY <1>1, <6>1
            <7> HIDE DEF n
            <7> QED
              BY <7>1, PreviousIs
          <6> QED
            BY <6>1, <6>2 DEF i
        <5>4. Previous(kept, f + 1) \in P
          <6>1. f + 1 \notin old \/ (f + 1 \in LatestIn(kept) /\ Block(f + 1))
            BY <3>2, <5>1
          <6> QED
            BY <5>2, <6>1 DEF Protected
        <5> QED
          BY <3>3, <4>1, <5>3, <5>4
      <4> QED
        BY <4>2, <4>3
    <3>7. \A j \in f..n : j = f \/ j > f
      BY <1>1
    <3> HIDE DEF P, f, n
    <3> QED
      BY <3>1, <3>5, <3>6, <3>7 DEF n
  <2> QED
    BY <1>3, <2>1, <2>2, <2>3, <2>4, EntrySteps
<1> QED
  BY <1>2, <1>3, FloorStays


-----------------------------------------------------------------------------
(***************************************************************************)
(* What a check finds.                                                     *)
(***************************************************************************)
\* The event's latest decision before a pass began is the entry at its floor.
LEMMA FloorIsNewest ==
  ASSUME Inv, NEW a \in Passes, actor[a].at # "idle", NEW K, K \in {kept, Recorded}
  PROVE  Newest({j \in K : j <= actor[a].floor}) = actor[a].floor
<1> DEFINE n == Len(log)
           f == actor[a].floor
           S == {j \in K : j <= f}
<1>1. /\ n \in Nat /\ Recorded = 1..n /\ kept \subseteq 1..n /\ f \in Nat /\ K \subseteq 1..n
      /\ kept \subseteq K
  BY EntriesTyped, ActivityAssumption DEF Inv, TypeOK, Passes, Actors, Ids
<1>2. f \in kept \cup {0}
  <2>1. f <= n /\ f..n \subseteq Safe
    BY DEF Inv, Spanned
  <2> QED
    BY <1>1, <2>1 DEF Safe
<1>3. S \subseteq 1..n /\ \A j \in S : j <= f
  BY <1>1
<1>4. CASE f = 0
  <2>1. S = {}
    <3> SUFFICES ASSUME NEW j \in S PROVE FALSE
      OBVIOUS
    <3>1. j \in 1..n /\ j <= 0
      BY <1>3, <1>4
    <3> QED
      BY <1>1, <3>1
  <2> QED
    BY <1>4, <2>1 DEF Newest
<1>5. CASE f # 0
  <2>1. f \in S
    BY <1>1, <1>2, <1>5
  <2>2. Newest(S) = f
    <3> HIDE DEF S, f, n
    <3> QED
      BY <1>1, <1>3, <2>1, NewestIs
  <2> QED
    BY <2>2
<1> QED
  BY <1>4, <1>5

\* What a due check finds, of all that was recorded or of what is left of it, is the block of the
\* pass's own run, if the event was blocked before the pass.
LEMMA Verdict ==
  ASSUME Inv, NEW a \in Passes, actor[a].at = "reporting", NEW K, K \in {kept, Recorded}
  PROVE  Persisting(K, actor[a].floor, actor[a].run)
           = IF actor[a].before /\ actor[a].again THEN Own(a) ELSE {}
<1> DEFINE n == Len(log)
           f == actor[a].floor
           run == actor[a].run
           Found == Persisting(K, f, run)
<1>1. /\ n \in Nat /\ Recorded = 1..n /\ kept \subseteq 1..n /\ f \in Nat /\ K \subseteq Recorded
      /\ f <= n /\ f..n \subseteq Safe /\ kept \subseteq K
  BY EntriesTyped, ActivityAssumption DEF Inv, TypeOK, Passes, Actors, Ids, Spanned
<1>2. Newest({j \in K : j <= f}) = f
  BY FloorIsNewest
<1>3. (actor[a].before <=> Block(f)) /\ Decided(a)
  BY DEF Inv, Evidence
<1>4. Found = {i \in K : /\ i > f /\ Block(i) /\ log[i].run = run
                         /\ \A j \in K : log[j].run = run => j <= i
                         /\ Block(f)}
  BY <1>2 DEF Persisting
<1>5. Found \subseteq Own(a) /\ (Found # {} => actor[a].before)
  BY <1>1, <1>3, <1>4 DEF Own
<1>6. CASE ~actor[a].decided
  <2>1. Own(a) = {} /\ ~actor[a].again
    BY <1>3, <1>6 DEF Decided
  <2> QED
    BY <1>5, <2>1
<1>7. CASE actor[a].decided
  <2>1. PICK i \in Recorded : Own(a) = {i} /\ i > f /\ (Block(i) <=> actor[a].again)
    BY <1>3, <1>7 DEF Decided
  <2>2. \A j \in Found : j = i
    BY <1>5, <2>1
  <2>3. CASE actor[a].before /\ actor[a].again
    <3>1. i \in K
      <4>1. i \in f..n /\ i # 0
        BY <1>1, <2>1
      <4> QED
        BY <1>1, <4>1 DEF Safe
    <3>2. \A j \in K : log[j].run = run => j <= i
      <4> SUFFICES ASSUME NEW j \in K, log[j].run = run PROVE j <= i
        OBVIOUS
      <4>1. j \in Own(a)
        BY <1>1 DEF Own
      <4>2. j = i /\ i \in 1..n
        BY <1>1, <2>1, <4>1
      <4> QED
        BY <1>1, <4>2
    <3>3. i \in Own(a)
      BY <2>1
    <3>4. i \in Found
      BY <1>3, <1>4, <2>1, <2>3, <3>1, <3>2, <3>3 DEF Own
    <3> HIDE DEF Found
    <3>5. Found = {i}
      BY <2>2, <3>4
    <3> QED
      BY <2>1, <2>3, <3>5 DEF Found
  <2>4. CASE ~(actor[a].before /\ actor[a].again)
    <3>1. i \notin Found
      BY <1>3, <1>4, <2>1, <2>4
    <3>2. Found = {}
      BY <2>2, <3>1
    <3> QED
      BY <2>4, <3>2
  <2> QED
    BY <2>3, <2>4
<1> QED
  BY <1>6, <1>7

\* What the invariant says of what is read from the entries that are left.
LEMMA NothingReadIsLost ==
  ASSUME Inv
  PROVE  ClearingInv
<1>1. Newest(kept) = Len(log) /\ Newest(Recorded) = Len(log) /\ Len(log) \in Safe
  BY NewestKept
<1>2. Len(log) \in Nat /\ Recorded = 1..Len(log) /\ kept \subseteq 1..Len(log)
  BY EntriesTyped DEF Inv, TypeOK
<1>3. BlocksSurvive
  <2>1. ASSUME NEW K, K \in {kept, Recorded}
        PROVE  OpenBlocks(K, floor) = {i \in {Len(log)} : i # 0 /\ i > floor /\ Block(i)}
    <3>1. \A i \in K : (\A j \in K : j <= i) => i = Len(log)
      <4> SUFFICES ASSUME NEW i \in K, \A j \in K : j <= i PROVE i = Len(log)
        OBVIOUS
      <4>1. i \in 1..Len(log)
        BY <1>2, <2>1
      <4>2. Len(log) \in K
        BY <1>1, <1>2, <2>1, <4>1 DEF Safe
      <4>3. Len(log) <= i
        BY <4>2
      <4> QED
        BY <1>2, <4>1, <4>3
    <3>2. Len(log) # 0 => Len(log) \in K /\ \A j \in K : j <= Len(log)
      BY <1>1, <1>2, <2>1 DEF Safe
    <3>3. \A i \in K : i # 0
      BY <1>2, <2>1
    <3> QED
      BY <3>1, <3>2, <3>3 DEF OpenBlocks
  <2> QED
    BY <2>1 DEF BlocksSurvive
<1>4. HistorySurvives
  <2> SUFFICES ASSUME NEW i \in Recorded \ aged
               PROVE  /\ i \in kept
                      /\ Repeated(kept, i) <=> Repeated(Recorded, i)
                      /\ PreviousTitled(kept, i) = PreviousTitled(Recorded, i)
    BY DEF HistorySurvives
  <2> DEFINE n == Len(log)
  <2>1. i \in kept /\ i \in 1..(n + 1)
    BY <1>2 DEF Inv, NewerIsKept
  <2>2. i - 1 \in kept \cup {0} /\ PreviousTitled(Recorded, i) \in kept \cup {0}
    BY DEF Inv, Compared, Safe
  <2>3. i - 1 \in 1..n \cup {0}
    BY <1>2, <2>1
  <2>4. Previous(kept, i) = i - 1 /\ Previous(1..n, i) = i - 1
    <3> HIDE DEF n
    <3>1. n \in Nat /\ kept \subseteq 1..n
      BY <1>2 DEF n
    <3>2. Previous(kept, i) = i - 1
      BY <2>1, <2>2, <3>1, PreviousIs
    <3>3. Previous(1..n, i) = i - 1
      BY <2>1, <2>3, <3>1, PreviousIs
    <3> QED
      BY <3>2, <3>3
  <2>5. PreviousTitled(kept, i) = PreviousTitled(1..n, i)
    <3> HIDE DEF n
    <3>1. n \in Nat /\ kept \subseteq 1..n /\ PreviousTitled(1..n, i) \in kept \cup {0}
      BY <1>2, <2>2 DEF n
    <3> QED
      BY <3>1, TitledIs
  <2> QED
    BY <1>2, <2>1, <2>4, <2>5 DEF Repeated
<1>5. VerdictsSurvive
  BY Verdict DEF VerdictsSurvive
<1> QED
  BY <1>3, <1>4, <1>5 DEF ClearingInv, Inv


-----------------------------------------------------------------------------
(***************************************************************************)
(* The runs.                                                               *)
(***************************************************************************)
Runner == [at : {"idle", "waiting", "running", "reporting", "checked", "reconciling"},
           floor : Ids \cup {0}, run : 0..MaxRuns, decided : BOOLEAN,
           before : BOOLEAN, again : BOOLEAN]

LEMMA RunnersTyped ==
  ASSUME TypeOK
  PROVE  /\ actor \in [Actors -> Runner]
         /\ \A a \in Actors : actor[a] \in Runner
         /\ NoRun \in Runner
<1>1. NoRun \in Runner
  <2>1. 0 \in 0..MaxRuns
    BY ActivityAssumption
  <2> QED
    BY <2>1 DEF NoRun, Runner
<1> QED
  BY <1>1 DEF TypeOK, Runner

LEMMA KeepsRunners ==
  ASSUME Inv, [Next]_vars
  PROVE  actor' \in [Actors -> Runner] /\ runs' \in 0..MaxRuns /\ runs' >= runs
<1>1. /\ actor \in [Actors -> Runner] /\ NoRun \in Runner /\ runs \in 0..MaxRuns /\ MaxRuns \in Nat
      /\ \A a \in Actors : actor[a] \in Runner
  BY RunnersTyped, ActivityAssumption DEF Inv, TypeOK
<1>2. UNCHANGED <<actor, runs>> =>
        actor' \in [Actors -> Runner] /\ runs' \in 0..MaxRuns /\ runs' >= runs
  BY <1>1
<1>3. CASE UNCHANGED vars
  BY <1>2, <1>3 DEF vars
<1>4. ASSUME NEW a \in Actors, Begin(a)
      PROVE  actor' \in [Actors -> Runner] /\ runs' = runs
  <2> DEFINE f == Newest(kept)
             b == Block(Newest(Recorded))
             new == [NoRun EXCEPT !.at = "waiting", !.floor = f, !.before = b]
  <2>1. f \in Ids \cup {0}
    <3>1. f = Len(log) /\ Len(log) \in Nat /\ Len(log) <= MaxEntries
      BY NewestKept, EntriesTyped DEF Inv, TypeOK
    <3> QED
      BY <3>1, ActivityAssumption DEF Ids
  <2>2. b \in BOOLEAN
    BY DEF Block
  <2>3. new \in Runner
    <3> HIDE DEF f, b
    <3> QED
      BY <1>1, <2>1, <2>2 DEF Runner
  <2>4. actor' = [actor EXCEPT ![a] = new] /\ runs' = runs
    BY <1>4 DEF Begin
  <2> HIDE DEF new
  <2> QED
    BY <1>1, <2>3, <2>4
<1>5. ASSUME NEW a \in Actors, Start(a)
      PROVE  actor' \in [Actors -> Runner] /\ runs' \in 0..MaxRuns /\ runs' >= runs
  <2> DEFINE new == [actor[a] EXCEPT !.at = "running", !.run = runs + 1,
                                    !.decided = FALSE, !.again = FALSE]
  <2>1. runs' = runs + 1 /\ runs + 1 \in 0..MaxRuns
    BY <1>1, <1>5 DEF Start
  <2>2. new \in Runner
    BY <1>1, <2>1 DEF Runner
  <2>3. actor' = [actor EXCEPT ![a] = new]
    BY <1>5 DEF Start
  <2> HIDE DEF new
  <2> QED
    BY <1>1, <2>1, <2>2, <2>3
<1>6. ASSUME NEW a \in Actors, Skip(a) \/ Check(a) \/ LoseCheck(a)
      PROVE  actor' \in [Actors -> Runner] /\ runs' = runs
  <2>1. [actor[a] EXCEPT !.at = "checked"] \in Runner
    BY <1>1 DEF Runner
  <2> DEFINE new == IF a = ReconcileNow THEN [actor[a] EXCEPT !.at = "checked"] ELSE NoRun
  <2>2. actor' = [actor EXCEPT ![a] = NoRun] \/ actor' = [actor EXCEPT ![a] = new]
    BY <1>6 DEF Skip, Check, LoseCheck, AfterCheck
  <2>3. runs' = runs /\ new \in Runner
    BY <1>1, <1>6, <2>1 DEF Skip, Check, LoseCheck
  <2> HIDE DEF new
  <2> QED
    BY <1>1, <2>2, <2>3
<1>7. ASSUME NEW a \in Actors, NEW d \in Decisions, Decide(a, d.act, d.titled)
      PROVE  actor' \in [Actors -> Runner] /\ runs' = runs
  <2> DEFINE b == d.act = "block"
             new == [actor[a] EXCEPT !.decided = TRUE, !.again = b]
  <2>1. b \in BOOLEAN
    OBVIOUS
  <2>2. actor' = [actor EXCEPT ![a] = new] /\ runs' = runs
    BY <1>7 DEF Decide
  <2> HIDE DEF b
  <2>3. new \in Runner
    BY <1>1, <2>1 DEF Runner
  <2> HIDE DEF new
  <2> QED
    BY <1>1, <2>2, <2>3
<1>8. ASSUME NEW a \in Actors, NEW x \in BOOLEAN, Fail(a, x) \/ Succeed(a, x)
      PROVE  actor' \in [Actors -> Runner] /\ runs' = runs
  BY <1>1, <1>8 DEF Fail, Succeed, Runner
<1>9. CASE StartReconciling
  BY <1>1, <1>9 DEF StartReconciling, Runner
<1>10. ASSUME NEW conflict \in BOOLEAN, Reconcile(conflict)
       PROVE  actor' \in [Actors -> Runner] /\ runs' = runs
  BY <1>1, <1>10 DEF Reconcile
<1>11. CASE RemoveRule \/ DeleteBatch \/ \E old \in SUBSET kept : BeginClear(old)
  BY <1>2, <1>11 DEF RemoveRule, DeleteBatch, BeginClear
<1>12. CASE Restart
  BY <1>1, <1>12 DEF Restart
<1> QED
  <2>1. runs' = runs => runs' \in 0..MaxRuns /\ runs' >= runs
    BY <1>1
  <2> QED
    BY <1>3, <1>4, <1>5, <1>6, <1>7, <1>8, <1>9, <1>10, <1>11, <1>12, <2>1 DEF Next

\* The lock, the check and the rule.
LEMMA KeepsChecks ==
  ASSUME Inv, [Next]_vars
  PROVE  /\ holder' \in Actors \cup {None} /\ floor' \in Ids \cup {0}
         /\ blocked' \in {"none", "open", "resolved"} /\ exists' \in BOOLEAN
         /\ RemovedIsUnblocked'
<1> DEFINE Kept == /\ holder' \in Actors \cup {None} /\ floor' \in Ids \cup {0}
                   /\ blocked' \in {"none", "open", "resolved"} /\ exists' \in BOOLEAN
                   /\ RemovedIsUnblocked'
<1>1. /\ holder \in Actors \cup {None} /\ floor \in Ids \cup {0} /\ exists \in BOOLEAN
      /\ blocked \in {"none", "open", "resolved"} /\ RemovedIsUnblocked
      /\ \A a \in Actors : actor[a].floor \in Ids \cup {0}
  BY DEF Inv, TypeOK
<1>2. UNCHANGED <<checkVars, exists>> /\ holder' \in Actors \cup {None, holder} => Kept
  BY <1>1 DEF checkVars, RemovedIsUnblocked
<1>3. CASE UNCHANGED vars
  BY <1>2, <1>3 DEF vars
<1>4. ASSUME NEW a \in Actors,
             \/ Begin(a) \/ Start(a) \/ Skip(a) \/ LoseCheck(a)
             \/ \E d \in Decisions : Decide(a, d.act, d.titled)
             \/ \E retry \in BOOLEAN : Fail(a, retry)
             \/ \E listed \in BOOLEAN : Succeed(a, listed)
      PROVE  Kept
  <2>1. UNCHANGED <<checkVars, exists>> /\ holder' \in Actors \cup {None, holder}
    BY <1>4 DEF Begin, Start, Skip, LoseCheck, Decide, Fail, Succeed
  <2> QED
    BY <1>2, <2>1
<1>5. ASSUME NEW a \in Actors, Check(a) PROVE Kept
  <2>1. CASE ~exists
    <3>1. UNCHANGED <<checkVars, exists>> /\ holder' \in Actors \cup {None, holder}
      BY <1>5, <2>1 DEF Check
    <3> QED
      BY <1>2, <3>1
  <2>2. CASE exists
    <3>1. exists' = exists /\ holder' = holder /\ floor' = actor[a].floor
      BY <1>5, <2>2 DEF Check
    <3>2. blocked' \in {"open", "resolved", blocked}
      BY <1>5, <2>2 DEF Check
    <3> QED
      BY <1>1, <2>2, <3>1, <3>2 DEF RemovedIsUnblocked
  <2> QED
    BY <2>1, <2>2
<1>6. CASE StartReconciling
  <2>1. UNCHANGED <<checkVars, exists>> /\ holder' \in Actors \cup {None, holder}
    BY <1>6 DEF StartReconciling, Actors
  <2> QED
    BY <1>2, <2>1
<1>7. CASE \E conflict \in BOOLEAN : Reconcile(conflict)
  BY <1>2, <1>7 DEF Reconcile
<1>8. CASE RemoveRule
  <2>1. /\ floor' = 0 /\ exists' = FALSE /\ holder' = holder
        /\ blocked' = IF blocked = "open" THEN "resolved" ELSE blocked
    BY <1>8 DEF RemoveRule
  <2> QED
    BY <1>1, <2>1 DEF RemovedIsUnblocked
<1>9. CASE DeleteBatch \/ Restart \/ \E old \in SUBSET kept : BeginClear(old)
  <2>1. UNCHANGED <<checkVars, exists>> /\ holder' \in Actors \cup {None, holder}
    BY <1>9 DEF DeleteBatch, Restart, BeginClear
  <2> QED
    BY <1>2, <2>1
<1> QED
  <2>1. CASE \E a \in Actors :
               \/ Begin(a) \/ Start(a) \/ Skip(a) \/ LoseCheck(a)
               \/ \E d \in Decisions : Decide(a, d.act, d.titled)
               \/ \E retry \in BOOLEAN : Fail(a, retry)
               \/ \E listed \in BOOLEAN : Succeed(a, listed)
    BY <1>4, <2>1
  <2>2. CASE \E a \in Actors : Check(a)
    BY <1>5, <2>2
  <2>3. \/ \E a \in Actors :
              \/ Begin(a) \/ Start(a) \/ Skip(a) \/ LoseCheck(a)
              \/ \E d \in Decisions : Decide(a, d.act, d.titled)
              \/ \E retry \in BOOLEAN : Fail(a, retry)
              \/ \E listed \in BOOLEAN : Succeed(a, listed)
        \/ \E a \in Actors : Check(a)
        \/ StartReconciling
        \/ \E conflict \in BOOLEAN : Reconcile(conflict)
        \/ RemoveRule
        \/ DeleteBatch \/ Restart \/ \E old \in SUBSET kept : BeginClear(old)
        \/ UNCHANGED vars
    BY DEF Next
  <2> QED
    BY <1>3, <1>6, <1>7, <1>8, <1>9, <2>1, <2>2, <2>3

LEMMA KeepsTyped ==
  ASSUME Inv, [Next]_vars
  PROVE  TypeOK'
<1> DEFINE n == Len(log)
<1>1. /\ log \in Seq(Entry) /\ n <= MaxEntries /\ n \in Nat /\ Recorded = 1..n
      /\ kept \subseteq Recorded /\ aged \subseteq Recorded /\ clear \subseteq Recorded
      /\ clears \in 0..MaxClears /\ MaxClears \in Nat
  BY EntriesTyped, ActivityAssumption DEF Inv, TypeOK
<1>2. /\ log' \in Seq(Entry) /\ Len(log') <= MaxEntries
      /\ kept' \subseteq Recorded' /\ aged' \subseteq Recorded' /\ clear' \subseteq Recorded'
  <2>1. CASE Same
    <3>1. Recorded' = Recorded
      BY <2>1 DEF Same, Recorded
    <3> QED
      BY <1>1, <2>1, <3>1 DEF Same
  <2>2. ASSUME NEW run, NEW act, NEW titled, Grows(run, act, titled)
        PROVE  /\ log' \in Seq(Entry) /\ Len(log') <= MaxEntries
               /\ kept' \subseteq Recorded' /\ aged' \subseteq Recorded' /\ clear' \subseteq Recorded'
    BY <1>1, <2>2 DEF Grows
  <2>3. ASSUME NEW old \in SUBSET kept, BeginClear(old)
        PROVE  /\ log' \in Seq(Entry) /\ Len(log') <= MaxEntries
               /\ kept' \subseteq Recorded' /\ aged' \subseteq Recorded' /\ clear' \subseteq Recorded'
    <3>1. UNCHANGED <<log, kept>> /\ aged' = aged \cup old /\ clear' \subseteq old
      BY <2>3 DEF BeginClear, logVars
    <3>2. Recorded' = Recorded
      BY <3>1 DEF Recorded
    <3> QED
      BY <1>1, <3>1, <3>2
  <2> QED
    BY <2>1, <2>2, <2>3, EntrySteps
<1>3. clears' \in 0..MaxClears
  <2>1. CASE UNCHANGED clears
    BY <1>1, <2>1
  <2>2. CASE \E old \in SUBSET kept : BeginClear(old)
    BY <1>1, <2>2 DEF BeginClear
  <2> QED
    <3>1. UNCHANGED clears \/ \E old \in SUBSET kept : BeginClear(old)
      BY DEF Next, vars, clearVars, Begin, Start, Skip, Check, LoseCheck, Decide, Fail, Succeed,
             StartReconciling, Reconcile, RemoveRule, DeleteBatch, Restart
    <3> QED
      BY <2>1, <2>2, <3>1
<1> QED
  BY <1>2, <1>3, KeepsRunners, KeepsChecks DEF TypeOK, Runner


\* A run begins with the next id, decides, or goes on as it was.
LEMMA RunSteps ==
  ASSUME Inv, [Next]_vars, NEW a \in Actors, actor'[a].at \notin {"idle", "waiting"}
  PROVE  \/ Start(a)
         \/ \E d \in Decisions : Decide(a, d.act, d.titled)
         \/ /\ Numbered(a)
            /\ actor'[a].run = actor[a].run /\ actor'[a].floor = actor[a].floor
            /\ actor'[a].decided = actor[a].decided /\ actor'[a].again = actor[a].again
            /\ actor'[a].at \in {"running", "reporting"} =>
                 actor[a].at \in {"running", "reporting"}
<1> DEFINE Goes == /\ Numbered(a)
                   /\ actor'[a].run = actor[a].run /\ actor'[a].floor = actor[a].floor
                   /\ actor'[a].decided = actor[a].decided /\ actor'[a].again = actor[a].again
                   /\ actor'[a].at \in {"running", "reporting"} =>
                        actor[a].at \in {"running", "reporting"}
<1>1. actor \in [Actors -> Runner] /\ actor[a] \in Runner
  BY RunnersTyped DEF Inv
<1>2. actor'[a] = actor[a] => Goes
  BY DEF Numbered
<1>3. CASE UNCHANGED vars
  BY <1>2, <1>3 DEF vars
<1>4. ASSUME NEW b \in Actors,
             \/ Begin(b) \/ Start(b) \/ Skip(b) \/ Check(b) \/ LoseCheck(b)
             \/ \E d \in Decisions : Decide(b, d.act, d.titled)
             \/ \E retry \in BOOLEAN : Fail(b, retry)
             \/ \E listed \in BOOLEAN : Succeed(b, listed)
      PROVE  Start(a) \/ (\E d \in Decisions : Decide(a, d.act, d.titled)) \/ Goes
  <2>1. CASE b # a
    <3>1. actor'[a] = actor[a]
      BY <1>1, <1>4, <2>1
        DEF Begin, Start, Skip, Check, LoseCheck, Decide, Fail, Succeed, AfterCheck
    <3> QED
      BY <1>2, <3>1
  <2>2. CASE b = a
    <3>1. CASE Begin(a) \/ Skip(a)
      <4>1. CASE Begin(a)
        <5> DEFINE f == Newest(kept)
                   k == Block(Newest(Recorded))
                   new == [NoRun EXCEPT !.at = "waiting", !.floor = f, !.before = k]
        <5>1. actor'[a] = new
          BY <1>1, <4>1 DEF Begin
        <5>2. new.at = "waiting"
          <6> HIDE DEF f, k
          <6> QED
            BY DEF NoRun
        <5> HIDE DEF new
        <5> QED
          BY <5>1, <5>2
      <4>2. CASE Skip(a)
        BY <1>1, <4>2 DEF Skip, NoRun
      <4> QED
        BY <3>1, <4>1, <4>2
    <3>2. CASE Check(a) \/ LoseCheck(a)
      BY <1>1, <3>2 DEF Check, LoseCheck, AfterCheck, NoRun, Runner, Numbered
    <3>3. CASE \E retry \in BOOLEAN : Fail(a, retry)
      <4>1. PICK retry \in BOOLEAN : Fail(a, retry)
        BY <3>3
      <4>2. CASE retry
        BY <1>1, <4>1, <4>2 DEF Fail, Runner
      <4>3. CASE ~retry
        BY <1>1, <4>1, <4>3 DEF Fail, NoRun
      <4> QED
        BY <4>2, <4>3
    <3>4. CASE \E listed \in BOOLEAN : Succeed(a, listed)
      <4>1. PICK listed \in BOOLEAN : Succeed(a, listed)
        BY <3>4
      <4>2. CASE listed
        BY <1>1, <4>1, <4>2 DEF Succeed, Runner, Numbered
      <4>3. CASE ~listed
        BY <1>1, <4>1, <4>3 DEF Succeed, NoRun
      <4> QED
        BY <4>2, <4>3
    <3> HIDE DEF Goes
    <3> QED
      BY <1>4, <2>2, <3>1, <3>2, <3>3, <3>4 DEF Goes
  <2> QED
    BY <2>1, <2>2
<1>5. CASE StartReconciling
  <2>1. CASE a # ReconcileNow
    <3>1. actor'[a] = actor[a]
      BY <1>1, <1>5, <2>1 DEF StartReconciling
    <3> QED
      BY <1>2, <3>1
  <2>2. CASE a = ReconcileNow
    BY <1>1, <1>5, <2>2 DEF StartReconciling, NoRun, Numbered, Runner
  <2> QED
    BY <2>1, <2>2
<1>6. ASSUME NEW conflict \in BOOLEAN, Reconcile(conflict) PROVE Goes
  <2>1. a # ReconcileNow
    BY <1>1, <1>6 DEF Reconcile, NoRun
  <2>2. actor'[a] = actor[a]
    BY <1>1, <1>6, <2>1 DEF Reconcile
  <2> QED
    BY <1>2, <2>2
<1>7. CASE RemoveRule \/ DeleteBatch \/ \E old \in SUBSET kept : BeginClear(old)
  BY <1>2, <1>7 DEF RemoveRule, DeleteBatch, BeginClear
<1>8. CASE Restart
  BY <1>8 DEF Restart, NoRun
<1> QED
  <2>1. CASE \E b \in Actors :
               \/ Begin(b) \/ Start(b) \/ Skip(b) \/ Check(b) \/ LoseCheck(b)
               \/ \E d \in Decisions : Decide(b, d.act, d.titled)
               \/ \E retry \in BOOLEAN : Fail(b, retry)
               \/ \E listed \in BOOLEAN : Succeed(b, listed)
    <3> HIDE DEF Goes
    <3>1. Start(a) \/ (\E d \in Decisions : Decide(a, d.act, d.titled)) \/ Goes
      BY <1>4, <2>1
    <3> QED
      BY <3>1 DEF Goes
  <2>2. CASE \E conflict \in BOOLEAN : Reconcile(conflict)
    BY <1>6, <2>2
  <2>3. \/ \E b \in Actors :
             \/ Begin(b) \/ Start(b) \/ Skip(b) \/ Check(b) \/ LoseCheck(b)
             \/ \E d \in Decisions : Decide(b, d.act, d.titled)
             \/ \E retry \in BOOLEAN : Fail(b, retry)
             \/ \E listed \in BOOLEAN : Succeed(b, listed)
        \/ StartReconciling
        \/ \E conflict \in BOOLEAN : Reconcile(conflict)
        \/ RemoveRule
        \/ DeleteBatch \/ Restart \/ \E old \in SUBSET kept : BeginClear(old)
        \/ UNCHANGED vars
    BY DEF Next
  <2> QED
    BY <1>3, <1>5, <1>7, <1>8, <2>1, <2>2, <2>3

\* Entries are recorded by runs, each under its id.
LEMMA LogSteps ==
  ASSUME Inv, [Next]_vars
  PROVE  \/ UNCHANGED log
         \/ \E a \in Actors :
              /\ \E act, titled : Grows(actor[a].run, act, titled)
              /\ Numbered(a)
              /\ actor'[a] = NoRun \/ \E d \in Decisions : Decide(a, d.act, d.titled)
<1>1. ASSUME NEW a \in Actors, NEW d \in Decisions, Decide(a, d.act, d.titled)
      PROVE  Grows(actor[a].run, d.act, d.titled) /\ Numbered(a)
  <2>1. d = [act |-> d.act, titled |-> d.titled]
    <3>1. d \in [act : {"block", "repair", "other"}, titled : BOOLEAN]
      BY ActivityAssumption
    <3> QED
      BY <3>1
  <2>2. Numbered(a)
    BY <1>1 DEF Decide, Numbered
  <2> QED
    BY <1>1, <2>1, <2>2, DecisionGrows
<1>2. ASSUME NEW conflict \in BOOLEAN, Reconcile(conflict)
      PROVE  \/ UNCHANGED log
             \/ /\ Grows(actor[ReconcileNow].run, "block", FALSE) /\ Numbered(ReconcileNow)
                /\ actor'[ReconcileNow] = NoRun /\ ReconcileNow \in Actors
  <2>1. Numbered(ReconcileNow) /\ ReconcileNow \in Actors
    BY <1>2 DEF Reconcile, Numbered, Actors
  <2>2. actor'[ReconcileNow] = NoRun
    BY <1>2, <2>1, RunnersTyped DEF Reconcile, Inv
  <2> QED
    BY <1>2, <2>1, <2>2, ConflictGrows DEF logVars
<1>3. \/ UNCHANGED log
      \/ \E a \in Actors, d \in Decisions : Decide(a, d.act, d.titled)
      \/ \E conflict \in BOOLEAN : Reconcile(conflict)
  BY DEF Next, vars, logVars, Begin, Start, Skip, Check, LoseCheck, Fail, Succeed,
         StartReconciling, RemoveRule, BeginClear, DeleteBatch, Restart
<1> QED
  BY <1>1, <1>2, <1>3

LEMMA KeepsRunsDiffer ==
  ASSUME Inv, [Next]_vars
  PROVE  RunsDiffer'
<1>1. /\ runs \in Nat /\ runs' \in Nat /\ runs' >= runs
      /\ actor \in [Actors -> Runner] /\ RunsDiffer
  BY KeepsRunners, RunnersTyped, ActivityAssumption DEF Inv, TypeOK
<1>2. ASSUME NEW a \in Actors, Start(a)
      PROVE  /\ runs' = runs + 1 /\ actor'[a].run = runs + 1
             /\ \A b \in Actors : b # a => actor'[b] = actor[b]
  BY <1>1, <1>2 DEF Start, Runner
<1>3. \A i \in Recorded' : log'[i].run <= runs'
  <2>1. CASE UNCHANGED log
    <3>1. \A i \in Recorded : log[i].run <= runs /\ log[i].run \in Nat
      BY EntriesTyped DEF Inv, RunsDiffer, Entry
    <3>2. Recorded' = Recorded
      BY <2>1 DEF Recorded
    <3> QED
      BY <1>1, <2>1, <3>1, <3>2
  <2>2. ASSUME NEW a \in Actors, NEW act, NEW titled,
               Grows(actor[a].run, act, titled), Numbered(a)
        PROVE  \A i \in Recorded' : log'[i].run <= runs'
    <3>1. \A i \in Recorded : log[i].run <= runs /\ log[i].run \in Nat
      BY EntriesTyped DEF Inv, RunsDiffer, Entry
    <3>2. actor[a].run \in 1..runs
      BY <1>1, <2>2 DEF RunsDiffer
    <3>3. /\ Recorded' = Recorded \cup {Len(log) + 1}
          /\ \A i \in Recorded : log'[i] = log[i]
          /\ log'[Len(log) + 1].run = actor[a].run
      BY <2>2 DEF Grows
    <3>4. \A i \in Recorded : log'[i].run <= runs'
      BY <1>1, <3>1, <3>3
    <3>5. log'[Len(log) + 1].run <= runs'
      BY <1>1, <3>2, <3>3
    <3> QED
      BY <3>3, <3>4, <3>5
  <2> QED
    BY <2>1, <2>2, LogSteps
<1>4. ASSUME NEW a \in Actors, actor'[a].at \notin {"idle", "waiting"}
      PROVE  \/ Start(a)
             \/ Numbered(a) /\ actor'[a].run = actor[a].run /\ actor[a].run \in 1..runs
  <2>1. ASSUME NEW d \in Decisions, Decide(a, d.act, d.titled)
        PROVE  Numbered(a) /\ actor'[a].run = actor[a].run
    BY <1>1, <2>1 DEF Decide, Numbered, Runner
  <2>2. Start(a) \/ (Numbered(a) /\ actor'[a].run = actor[a].run)
    BY <1>4, <2>1, RunSteps
  <2> QED
    BY <1>1, <2>2 DEF RunsDiffer
<1>5. ASSUME NEW a \in Actors, actor'[a].at \notin {"idle", "waiting"}
      PROVE  actor'[a].run \in 1..runs'
  BY <1>1, <1>2, <1>4, <1>5
<1>6. ASSUME NEW a \in Actors, NEW b \in Actors, actor'[a].run = actor'[b].run,
             actor'[a].at \notin {"idle", "waiting"}, actor'[b].at \notin {"idle", "waiting"}
      PROVE  a = b
  <2>1. CASE Start(a) \/ Start(b)
    <3>1. ASSUME NEW x \in Actors, NEW y \in Actors, Start(x), x # y,
                 actor'[y].at \notin {"idle", "waiting"}
          PROVE  actor'[y].run # actor'[x].run
      <4>1. actor'[x].run = runs + 1 /\ actor'[y] = actor[y]
        BY <1>2, <3>1
      <4>2. actor[y].run \in 1..runs
        BY <1>1, <3>1, <4>1 DEF RunsDiffer, Numbered
      <4> QED
        BY <1>1, <4>1, <4>2
    <3> QED
      BY <1>6, <2>1, <3>1
  <2>2. CASE ~Start(a) /\ ~Start(b)
    <3>1. Numbered(a) /\ Numbered(b) /\ actor[a].run = actor[b].run
      BY <1>4, <1>6, <2>2
    <3> QED
      BY <1>1, <3>1 DEF RunsDiffer
  <2> QED
    BY <2>1, <2>2
<1> QED
  BY <1>3, <1>5, <1>6 DEF RunsDiffer, Numbered


\* What was recorded stays as it is.
LEMMA RecordedStays ==
  ASSUME Inv, [Next]_vars
  PROVE  /\ Len(log) \in Nat
         /\ \A i \in 0..Len(log) : Block(i)' <=> Block(i)
         /\ \A i \in Recorded : i \in Recorded' /\ log'[i] = log[i]
<1>1. Len(log) \in Nat /\ Recorded = 1..Len(log)
  BY EntriesTyped DEF Inv
<1>2. \A i \in Recorded : i \in Recorded' /\ log'[i] = log[i]
  <2>1. CASE UNCHANGED log
    BY <2>1 DEF Recorded
  <2>2. ASSUME NEW a \in Actors, NEW act, NEW titled, Grows(actor[a].run, act, titled)
        PROVE  \A i \in Recorded : i \in Recorded' /\ log'[i] = log[i]
    BY <2>2 DEF Grows
  <2> QED
    BY <2>1, <2>2, LogSteps
<1>3. ASSUME NEW i \in 0..Len(log) PROVE Block(i)' <=> Block(i)
  <2>1. CASE i = 0
    BY <2>1 DEF Block
  <2>2. CASE i # 0
    <3>1. i \in Recorded
      BY <1>1, <2>2
    <3> QED
      BY <1>2, <3>1 DEF Block
  <2> QED
    BY <2>1, <2>2
<1> QED
  BY <1>1, <1>2, <1>3

\* What another run records is not of this one's run.
LEMMA OwnStays ==
  ASSUME Inv, [Next]_vars, NEW a \in Actors, actor'[a].at \notin {"idle", "waiting"},
         ~Start(a), ~\E d \in Decisions : Decide(a, d.act, d.titled)
  PROVE  Own(a)' = Own(a)
<1>1. Numbered(a) /\ actor'[a].run = actor[a].run
  BY RunSteps
<1>2. CASE UNCHANGED log
  BY <1>1, <1>2 DEF Own, Recorded
<1>3. ASSUME NEW b \in Actors, NEW act, NEW titled, Grows(actor[b].run, act, titled), Numbered(b),
             actor'[b] = NoRun \/ \E d \in Decisions : Decide(b, d.act, d.titled)
      PROVE  Own(a)' = Own(a)
  <2>1. b # a
    BY <1>3 DEF NoRun
  <2>2. actor[b].run # actor[a].run
    BY <1>1, <1>3, <2>1 DEF Inv, RunsDiffer
  <2>3. /\ Recorded' = Recorded \cup {Len(log) + 1}
        /\ \A i \in Recorded : log'[i] = log[i]
        /\ log'[Len(log) + 1].run = actor[b].run
    BY <1>3 DEF Grows
  <2> QED
    BY <1>1, <2>2, <2>3 DEF Own
<1> QED
  BY <1>2, <1>3, LogSteps

LEMMA KeepsDecided ==
  ASSUME Inv, [Next]_vars, NEW a \in Passes, actor'[a].at \in {"running", "reporting"}
  PROVE  Decided(a)'
<1> DEFINE n == Len(log)
<1>1. /\ a \in Actors /\ actor \in [Actors -> Runner] /\ actor[a] \in Runner
      /\ n \in Nat /\ Recorded = 1..n
      /\ actor[a].at # "idle" => actor[a].floor <= n
  BY RunnersTyped, EntriesTyped DEF Inv, Passes, Actors, Spanned
<1>2. CASE Start(a)
  <2>1. /\ actor'[a].run = runs + 1 /\ actor'[a].decided = FALSE /\ actor'[a].again = FALSE
        /\ UNCHANGED log
    BY <1>1, <1>2 DEF Start, Runner, logVars
  <2>2. \A i \in Recorded : log[i].run # runs + 1
    <3>1. \A i \in Recorded : log[i].run <= runs /\ log[i].run \in Nat
      BY EntriesTyped DEF Inv, RunsDiffer, Entry
    <3>2. runs \in Nat
      BY ActivityAssumption DEF Inv, TypeOK
    <3> QED
      BY <3>1, <3>2
  <2> QED
    BY <2>1, <2>2 DEF Decided, Own, Recorded
<1>3. ASSUME NEW d \in Decisions, Decide(a, d.act, d.titled) PROVE Decided(a)'
  <2> DEFINE k == d.act = "block"
  <2>1. /\ actor'[a].run = actor[a].run /\ actor'[a].floor = actor[a].floor
        /\ actor'[a].decided = TRUE /\ (actor'[a].again <=> k)
    BY <1>1, <1>3 DEF Decide, Runner
  <2>2. actor[a].at = "running" /\ ~actor[a].decided
    BY <1>3 DEF Decide
  <2>3. Own(a) = {}
    BY <2>2 DEF Inv, Evidence, Decided
  <2>4. Grows(actor[a].run, d.act, d.titled)
    <3>1. d \in [act : {"block", "repair", "other"}, titled : BOOLEAN]
      BY ActivityAssumption
    <3>2. d = [act |-> d.act, titled |-> d.titled]
      BY <3>1
    <3> QED
      BY <1>1, <1>3, <3>2, DecisionGrows
  <2>5. /\ Recorded' = Recorded \cup {n + 1}
        /\ \A i \in Recorded : log'[i] = log[i]
        /\ log'[n + 1].run = actor[a].run /\ log'[n + 1].act = d.act
    BY <2>4 DEF Grows
  <2>6. Own(a)' = {n + 1}
    <3>1. \A i \in Recorded' : log'[i].run = actor[a].run <=> i = n + 1
      BY <1>1, <2>3, <2>5 DEF Own
    <3>2. Own(a)' = {i \in Recorded' : log'[i].run = actor'[a].run}
      BY DEF Own
    <3> QED
      BY <2>1, <2>5, <3>1, <3>2
  <2>7. n + 1 > actor'[a].floor
    <3>1. actor[a].floor \in Nat
      BY <1>1, ActivityAssumption DEF Runner, Ids
    <3> QED
      BY <1>1, <2>1, <2>2, <3>1
  <2>8. ASSUME NEW i, i = n + 1 PROVE Block(i)' <=> actor'[a].again
    <3>1. i # 0
      BY <1>1, <2>8
    <3> QED
      BY <2>1, <2>5, <2>8, <3>1 DEF Block
  <2>9. PICK i : i = n + 1
    OBVIOUS
  <2>10. i \in Recorded' /\ Own(a)' = {i} /\ i > actor'[a].floor /\ (Block(i)' <=> actor'[a].again)
    BY <2>5, <2>6, <2>7, <2>8, <2>9
  <2> QED
    BY <2>1, <2>10 DEF Decided
<1>4. CASE ~Start(a) /\ ~\E d \in Decisions : Decide(a, d.act, d.titled)
  <2>1. /\ actor'[a].floor = actor[a].floor /\ actor'[a].decided = actor[a].decided
        /\ actor'[a].again = actor[a].again /\ actor[a].at \in {"running", "reporting"}
    BY <1>1, <1>4, RunSteps
  <2>2. Own(a)' = Own(a)
    BY <1>1, <1>4, OwnStays
  <2>3. Decided(a)
    BY <2>1 DEF Inv, Evidence
  <2>4. CASE actor[a].decided
    <3>1. PICK i \in Recorded : /\ Own(a) = {i} /\ i > actor[a].floor
                                /\ Block(i) <=> actor[a].again
      BY <2>3, <2>4 DEF Decided
    <3>2. i \in Recorded' /\ (Block(i)' <=> Block(i))
      BY <1>1, RecordedStays
    <3> QED
      BY <2>1, <2>2, <2>4, <3>1, <3>2 DEF Decided
  <2>5. CASE ~actor[a].decided
    BY <2>1, <2>2, <2>3, <2>5 DEF Decided
  <2> QED
    BY <2>4, <2>5
<1> QED
  BY <1>2, <1>3, <1>4

LEMMA KeepsEvidence ==
  ASSUME Inv, [Next]_vars
  PROVE  Evidence'
<1>1. ASSUME NEW a \in Passes, actor'[a].at # "idle"
      PROVE  actor'[a].before <=> Block(actor[a].floor)'
  <2>1. a \in Actors /\ actor \in [Actors -> Runner]
    BY RunnersTyped DEF Inv, Passes, Actors
  <2>2. CASE Begin(a)
    <3> DEFINE f == Newest(kept)
               k == Block(Newest(Recorded))
               new == [NoRun EXCEPT !.at = "waiting", !.floor = f, !.before = k]
    <3>1. actor'[a] = new /\ UNCHANGED log
      BY <2>1, <2>2 DEF Begin, logVars
    <3>2. new.floor = f /\ (new.before <=> k)
      <4> HIDE DEF f, k
      <4> QED
        BY DEF NoRun
    <3>3. k <=> Block(f)
      BY NewestKept
    <3>4. Block(actor[a].floor)' <=> (new.floor # 0 /\ log[new.floor].act = "block")
      BY <3>1 DEF Block
    <3> HIDE DEF new, f, k
    <3> QED
      BY <3>1, <3>2, <3>3, <3>4 DEF Block
  <2>3. CASE /\ actor[a].at # "idle"
             /\ actor'[a].floor = actor[a].floor /\ actor'[a].before = actor[a].before
    <3> DEFINE f == actor[a].floor
    <3>1. f \in 0..Len(log)
      <4>1. f \in Nat
        BY <2>1, ActivityAssumption DEF Runner, Ids
      <4> QED
        BY <2>3, <4>1, EntriesTyped DEF Inv, Spanned
    <3>2. actor[a].before <=> Block(f)
      BY <2>3 DEF Inv, Evidence
    <3>3. \A i \in 0..Len(log) : Block(i) <=> (i # 0 /\ log'[i].act = "block")
      BY RecordedStays DEF Block
    <3>4. Block(actor[a].floor)' <=> (f # 0 /\ log'[f].act = "block")
      BY <2>3 DEF Block
    <3> HIDE DEF f
    <3> QED
      BY <2>3, <3>1, <3>2, <3>3, <3>4
  <2> QED
    BY <1>1, <2>2, <2>3, FloorStays
<1>2. \A a \in Passes : actor'[a].at \in {"running", "reporting"} => Decided(a)'
  BY KeepsDecided
<1> QED
  BY <1>1, <1>2 DEF Evidence

-----------------------------------------------------------------------------
(***************************************************************************)
(* The theorems.                                                           *)
(***************************************************************************)
LEMMA InitInv == Init => Inv
<1> SUFFICES ASSUME Init PROVE Inv
  OBVIOUS
<1>1. Len(log) = 0 /\ Recorded = {} /\ log \in Seq(Entry)
  BY DEF Init, Recorded
<1>2. TypeOK
  <2>1. NoRun \in Runner /\ 0 \in 0..MaxRuns /\ 0 \in 0..MaxClears /\ 0 <= MaxEntries
    BY ActivityAssumption DEF NoRun, Runner
  <2> QED
    BY <1>1, <2>1 DEF Init, TypeOK, Runner
<1>3. NewerIsKept /\ Spanned /\ RunsDiffer /\ Evidence /\ RemovedIsUnblocked
  <2>1. \A a \in Actors : actor[a].at = "idle"
    BY DEF Init, NoRun
  <2>2. \A a \in Passes : a \in Actors
    BY DEF Passes, Actors
  <2> QED
    BY <1>1, <2>1, <2>2
      DEF Init, NewerIsKept, Spanned, RunsDiffer, Numbered, Evidence, RemovedIsUnblocked
<1>4. Compared
  <2>1. ASSUME NEW i PROVE PreviousTitled(Recorded, i) = 0
    BY <1>1 DEF PreviousTitled, Newest
  <2> QED
    BY <1>1, <2>1 DEF Init, Compared, Safe
<1> QED
  BY <1>2, <1>3, <1>4 DEF Inv

LEMMA Invariance == Spec => []Inv
<1>1. Inv /\ [Next]_vars => Inv'
  BY KeepsTyped, KeepsNewer, KeepsCompared, KeepsSpanned, KeepsRunsDiffer, KeepsEvidence,
     KeepsChecks DEF Inv
<1> QED
  BY InitInv, <1>1, PTL DEF Spec

(***************************************************************************)
(* Clearing old entries, batch by batch and while runs append others,      *)
(* loses nothing that the dashboard (open_blocks), Activity                *)
(* (_previous_names, _repeated_repairs) or a due check (record_block_check)*)
(* would read, for any batch size and whichever entries look old           *)
(* (SqliteStorage.clear_activity).                                         *)
(***************************************************************************)
THEOREM ClearingLosesNothing == Spec => []ClearingInv
BY Invariance, NothingReadIsLost, PTL

(***************************************************************************)
(* A check leaves the blocked Incident open exactly when the event was     *)
(* blocked before the pass began and the pass's own run blocked it again,  *)
(* and a removed rule is left without one                                  *)
(* (ReconcileNow and SyncScheduler, record_full_pass).                     *)
(***************************************************************************)
THEOREM IncidentsNeedEvidence == Spec => OpensOnEvidence
<1>1. ASSUME Inv, [Next]_vars, NEW a \in Passes, exists, Check(a)
      PROVE  blocked' = "open" <=> actor[a].before /\ actor[a].again
  <2> DEFINE Found == Persisting(kept, actor[a].floor, actor[a].run)
  <2>1. actor[a].at = "reporting"
    BY <1>1 DEF Check
  <2>2. blocked' = IF Found # {} THEN "open"
                   ELSE IF blocked = "open" THEN "resolved" ELSE blocked
    BY <1>1 DEF Check
  <2>3. Found = IF actor[a].before /\ actor[a].again THEN Own(a) ELSE {}
    BY <1>1, <2>1, Verdict
  <2>4. actor[a].again => Own(a) # {}
    BY <1>1, <2>1 DEF Inv, Evidence, Decided
  <2>5. blocked' = "open" <=> Found # {}
    <3> HIDE DEF Found
    <3> QED
      BY <2>2
  <2> HIDE DEF Found
  <2> QED
    BY <2>3, <2>4, <2>5
<1> DEFINE Evident == /\ RemovedIsUnblocked'
                      /\ \A a \in Passes : exists /\ Check(a) =>
                           (blocked' = "open" <=> actor[a].before /\ actor[a].again)
<1>2. Inv /\ [Next]_vars => [Evident]_vars
  BY <1>1, KeepsChecks
<1> QED
  BY Invariance, <1>2, PTL DEF Spec, OpensOnEvidence

-----------------------------------------------------------------------------
(***************************************************************************)
(* The event an entry names.                                               *)
(***************************************************************************)
LEMMA LargestIs ==
  ASSUME NEW n \in Nat, NEW K, K \subseteq 1..n, NEW m \in K, \A h \in K : h <= m
  PROVE  (CHOOSE j \in K : \A h \in K : h <= j) = m
<1> DEFINE x == CHOOSE j \in K : \A h \in K : h <= j
<1>1. x \in K /\ \A h \in K : h <= x
  OBVIOUS
<1> HIDE DEF x
<1>2. x <= m /\ m <= x /\ x \in 1..n /\ m \in 1..n
  BY <1>1
<1>3. x = m
  BY <1>2
<1> QED BY <1>3 DEF x

TitlesBefore(k) == {j \in 1..k : TitleObserved(entries[j])}

LastTitled(k) == CHOOSE j \in TitlesBefore(k) : \A h \in TitlesBefore(k) : h <= j

Tabled == entries \in Seq(Entries)

LEMMA NamesTheLast ==
  ASSUME NEW n \in Nat, NEW i \in 1..n, TitlesBefore(i) # {}
  PROVE  LET shown == RecordedEvent(i)
         IN /\ shown.title = entries[LastTitled(i)].title
            /\ IF /\ TitlesBefore(i - 1) # {}
                  /\ entries[LastTitled(i)].title # entries[LastTitled(i - 1)].title
                  /\ ~entries[i].cancelled
               THEN shown.renamed = entries[LastTitled(i - 1)].title
               ELSE shown.renamed = Null
<1> DEFINE earlier == TitlesBefore(i - 1)
           p == PreviousName(i)
           own == entries[i]
<1>1. i \in Nat /\ i - 1 \in Nat /\ 1..i = (1..(i - 1)) \cup {i} /\ i \notin 1..(i - 1)
  OBVIOUS
<1>2. p = IF earlier = {} THEN 0 ELSE LastTitled(i - 1)
  BY DEF PreviousName, TitlesBefore, LastTitled
<1>3. earlier # {} => /\ LastTitled(i - 1) \in 1..(i - 1) /\ TitleObserved(entries[LastTitled(i - 1)])
                      /\ p # 0
  <2> SUFFICES ASSUME earlier # {}
               PROVE  /\ LastTitled(i - 1) \in 1..(i - 1) /\ TitleObserved(entries[LastTitled(i - 1)])
                      /\ p # 0
    OBVIOUS
  <2>1. earlier \subseteq 1..(i - 1)
    BY DEF TitlesBefore
  <2>2. PICK m \in earlier : \A j \in earlier : j <= m
    BY <1>1, <2>1, HasLargest
  <2>3. LastTitled(i - 1) = m
    BY <1>1, <2>1, <2>2, LargestIs DEF LastTitled
  <2>4. m \in 1..(i - 1) /\ TitleObserved(entries[m])
    BY <2>2 DEF TitlesBefore
  <2> QED BY <1>1, <1>2, <2>3, <2>4
<1> HIDE DEF earlier, p
<1>4. CASE TitleObserved(own)
  <2>1. i \in TitlesBefore(i) /\ TitlesBefore(i) \subseteq 1..i /\ \A j \in TitlesBefore(i) : j <= i
    BY <1>1, <1>4 DEF TitlesBefore
  <2>2. LastTitled(i) = i
    BY <1>1, <2>1, LargestIs DEF LastTitled
  <2>3. RecordedEvent(i) =
          [title |-> own.title,
           renamed |-> IF /\ ~own.cancelled /\ p # 0
                          /\ entries[p].title # Null /\ entries[p].title # own.title
                       THEN entries[p].title ELSE Null]
    BY <1>4 DEF RecordedEvent, TitleObserved, p
  <2>4. CASE earlier = {}
    BY <1>2, <2>2, <2>3, <2>4 DEF earlier
  <2>5. CASE earlier # {}
    <3>1. p # 0 /\ p = LastTitled(i - 1) /\ entries[p].title # Null
      BY <1>2, <1>3, <2>5 DEF TitleObserved
    <3> QED BY <2>2, <2>3, <2>5, <3>1 DEF earlier
  <2> QED BY <2>4, <2>5
<1>5. CASE ~TitleObserved(own)
  <2>1. TitlesBefore(i) = earlier
    BY <1>1, <1>5 DEF TitlesBefore, earlier
  <2>2. LastTitled(i) = LastTitled(i - 1)
    BY <2>1 DEF LastTitled, earlier
  <2>3. p # 0 /\ p = LastTitled(i - 1) /\ entries[p].title # Null
    BY <1>2, <1>3, <2>1 DEF TitleObserved
  <2>4. RecordedEvent(i) = [title |-> entries[p].title, renamed |-> Null]
    BY <1>5, <2>3 DEF RecordedEvent, TitleObserved, p
  <2> QED BY <2>2, <2>3, <2>4
<1> QED BY <1>4, <1>5

(***************************************************************************)
(* In a table of any length, an entry names its event by the last title    *)
(* anybody saw up to it and tells a rename exactly where that title        *)
(* changed (_previous_names, _recorded_event).                             *)
(***************************************************************************)
THEOREM EntriesAreNamed == SpecTables => []NamedAsObserved
<1>1. InitTables => Tabled
  BY DEF InitTables, Tabled
<1>2. Tabled /\ [NextEntry \/ NextRow]_<<entries, rows>> => Tabled'
  BY AppendProperties DEF NextEntry, NextRow, Tabled
<1>3. Tabled => NamedAsObserved
  <2> SUFFICES ASSUME entries \in Seq(Entries) PROVE NamedAsObserved
    BY DEF Tabled
  <2>1. DOMAIN entries = 1..Len(entries) /\ Len(entries) \in Nat
    BY LenProperties
  <2>2. ASSUME NEW i \in 1..Len(entries), TitlesBefore(i) # {}
        PROVE  /\ RecordedEvent(i).title = entries[LastTitled(i)].title
               /\ IF /\ TitlesBefore(i - 1) # {}
                     /\ entries[LastTitled(i)].title # entries[LastTitled(i - 1)].title
                     /\ ~entries[i].cancelled
                  THEN RecordedEvent(i).renamed = entries[LastTitled(i - 1)].title
                  ELSE RecordedEvent(i).renamed = Null
    BY <2>1, <2>2, NamesTheLast
  <2> DEFINE saw(k) == {j \in 1..k : TitleObserved(entries[j])}
             last(k) == entries[CHOOSE j \in saw(k) : \A h \in saw(k) : h <= j].title
  <2>3. \A k : saw(k) = TitlesBefore(k) /\ last(k) = entries[LastTitled(k)].title
    BY DEF TitlesBefore, LastTitled
  <2> HIDE DEF saw, last
  <2>4. ASSUME NEW i \in DOMAIN entries, saw(i) # {}
        PROVE  /\ RecordedEvent(i).title = last(i)
               /\ IF saw(i - 1) # {} /\ last(i) # last(i - 1) /\ ~entries[i].cancelled
                  THEN RecordedEvent(i).renamed = last(i - 1) ELSE RecordedEvent(i).renamed = Null
    BY <2>1, <2>2, <2>3, <2>4
  <2> QED BY <2>4 DEF NamedAsObserved, saw, last
<1> QED BY <1>1, <1>2, <1>3, PTL DEF SpecTables

-----------------------------------------------------------------------------
(***************************************************************************)
(* What a rule remembers of a source event.  The observation is that of    *)
(* the last revision a decision observed; each of its fields is the last   *)
(* one known since all was forgotten.                                      *)
(***************************************************************************)
DecidedListings == [revision : Nat, title : Titles, guests : Guests, fate : Fates]

ToldChanges == UNION {[some -> (Titles \cup Guests) \X (Titles \cup Guests)] : some \in SUBSET Fields}

ListingsTyped ==
  /\ listings \in Seq(DecidedListings)
  /\ memory \in [observation : Observations \cup {Unknown}, changes : Seq(ToldChanges)]
  /\ Len(memory.changes) = Len(listings)

\* Listings whose decision looked at what was remembered.
Telling(j) == listings[j].fate \in {"recorded", "forgotten"}

RevisionsRise ==
  \A i, j \in DOMAIN listings : i <= j => listings[i].revision <= listings[j].revision

LastRevision ==
  IF memory.observation = Unknown THEN \A j \in DOMAIN listings : ~Telling(j)
  ELSE /\ \E j \in DOMAIN listings :
            Telling(j) /\ listings[j].revision = memory.observation.revision
       /\ \A j \in DOMAIN listings :
            Telling(j) => listings[j].revision <= memory.observation.revision

\* The listings that told a field since all was forgotten: among those before i, and among all.
KnownBefore(i, f) ==
  {j \in 1..(i - 1) : /\ Observing(j) /\ listings[j][f] # Unknown
                      /\ \A h \in (j + 1)..i : listings[h].fate # "forgotten"}
Known(f) ==
  {j \in DOMAIN listings : /\ Observing(j) /\ listings[j][f] # Unknown
                           /\ \A h \in (j + 1)..Len(listings) : listings[h].fate # "forgotten"}

LastOf(K, f) ==
  IF K = {} THEN Unknown ELSE listings[CHOOSE j \in K : \A h \in K : h <= j][f]

LastFields ==
  memory.observation # Unknown => \A f \in Fields : memory.observation[f] = LastOf(Known(f), f)

Remembered ==
  ListingsTyped /\ RevisionsRise /\ LastRevision /\ LastFields /\ ChangesAddUp

LEMMA LastOfIs ==
  ASSUME NEW n \in Nat, NEW K, K \subseteq 1..n, NEW m \in K, \A h \in K : h <= m, NEW f
  PROVE  LastOf(K, f) = listings[m][f]
BY LargestIs DEF LastOf

LEMMA LastKnownIs ==
  ASSUME NEW i, NEW f PROVE LastKnown(i, f) = LastOf(KnownBefore(i, f), f)
BY DEF LastKnown, LastOf, KnownBefore

\* One more listing is decided.
DecidesNext(l) ==
  /\ l \in DecidedListings
  /\ listings' = Append(listings, l)
  /\ memory' = Record(memory, l)
  /\ \A j \in DOMAIN listings : listings[j].revision <= l.revision

LEMMA DecisionIsNext ==
  ASSUME ListingsTyped, RevisionsRise, NextChanges
  PROVE  \E l : DecidesNext(l)
<1>1. PICK title \in Titles, guests \in Guests, fate \in Fates : DecideListing(title, guests, fate)
  BY DEF NextChanges
<1> DEFINE last == IF listings = <<>> THEN 0 ELSE listings[Len(listings)].revision
<1>2. PICK newer \in IF listings = <<>> THEN {1} ELSE {0, 1} :
        /\ listings' = Append(listings, Listing(last + newer, title, guests, fate))
        /\ memory' = Record(memory, Listing(last + newer, title, guests, fate))
  BY <1>1 DEF DecideListing
<1>3. /\ Len(listings) \in Nat /\ DOMAIN listings = 1..Len(listings)
      /\ \A j \in DOMAIN listings : listings[j] \in DecidedListings
      /\ listings # <<>> => Len(listings) \in DOMAIN listings
  BY LenProperties, ElementOfSeq, EmptySeq DEF ListingsTyped
<1>4. last \in Nat /\ newer \in Nat
  BY <1>2, <1>3 DEF DecidedListings
<1>5. \A j \in DOMAIN listings : listings[j].revision <= last
  BY <1>3 DEF RevisionsRise
<1> DEFINE l == Listing(last + newer, title, guests, fate)
<1>6. l \in DecidedListings /\ l.revision = last + newer
  BY <1>4 DEF Listing, DecidedListings
<1>7. \A j \in DOMAIN listings : listings[j].revision <= l.revision
  <2> HIDE DEF last
  <2> QED BY <1>3, <1>4, <1>5, <1>6 DEF DecidedListings
<1>8. DecidesNext(l)
  BY <1>2, <1>6, <1>7 DEF DecidesNext
<1> QED BY <1>8

\* What one more listing leaves as it was, and whether it observes a revision of its own.
LEMMA ListingsGrow ==
  ASSUME Remembered, NEW l, DecidesNext(l), NEW n, n = Len(listings)
  PROVE  /\ n \in Nat /\ DOMAIN listings = 1..n /\ DOMAIN listings' = 1..(n + 1) /\ Len(listings') = n + 1
         /\ \A j \in 1..n : listings'[j] = listings[j]
         /\ listings'[n + 1] = l
         /\ \A j \in 1..n : listings[j] \in DecidedListings /\ Telling(j)' = Telling(j) /\ Observing(j)' = Observing(j)
         /\ listings' \in Seq(DecidedListings)
<1>1. listings \in Seq(DecidedListings) /\ l \in DecidedListings /\ listings' = Append(listings, l)
  BY DEF Remembered, ListingsTyped, DecidesNext
<1>2. /\ n \in Nat /\ DOMAIN listings = 1..n /\ DOMAIN listings' = 1..(n + 1) /\ Len(listings') = n + 1
      /\ \A j \in 1..n : listings'[j] = listings[j] /\ listings[j] \in DecidedListings
      /\ listings'[n + 1] = l /\ listings' \in Seq(DecidedListings)
  BY <1>1, LenProperties, ElementOfSeq, AppendProperties
<1>3. ASSUME NEW j \in 1..n PROVE Telling(j)' = Telling(j) /\ Observing(j)' = Observing(j)
  <2>1. \A h \in 1..(j - 1) : listings'[h] = listings[h]
    BY <1>2
  <2>2. listings'[j] = listings[j]
    BY <1>2
  <2> QED BY <2>1, <2>2 DEF Telling, Observing
<1> QED BY <1>2, <1>3

LEMMA EarlierKnown ==
  ASSUME Remembered, NEW l, DecidesNext(l), NEW n, n = Len(listings)
  PROVE  \A i \in 1..n, f \in Fields : LastKnown(i, f)' = LastKnown(i, f)
<1> SUFFICES ASSUME NEW i \in 1..n, NEW f \in Fields PROVE LastKnown(i, f)' = LastKnown(i, f)
  OBVIOUS
<1>1. /\ n \in Nat /\ \A j \in 1..n : listings'[j] = listings[j] /\ Observing(j)' = Observing(j)
  BY ListingsGrow
<1>2. KnownBefore(i, f)' = KnownBefore(i, f)
  <2>1. ASSUME NEW j \in 1..(i - 1)
        PROVE  /\ Observing(j)' = Observing(j) /\ listings'[j] = listings[j]
               /\ \A h \in (j + 1)..i : listings'[h] = listings[h]
    BY <1>1
  <2> QED BY <2>1 DEF KnownBefore
<1>3. KnownBefore(i, f) \subseteq 1..n
  BY <1>1 DEF KnownBefore
<1>4. LastOf(KnownBefore(i, f), f)' = LastOf(KnownBefore(i, f), f)
  <2> DEFINE K == KnownBefore(i, f)
  <2>1. CASE K = {}
    BY <1>2, <2>1 DEF LastOf
  <2>2. CASE K # {}
    <3>1. PICK m \in K : \A j \in K : j <= m
      BY <1>1, <1>3, <2>2, HasLargest
    <3>2. LastOf(K, f) = listings[m][f]
      BY <1>1, <1>3, <3>1, LastOfIs
    <3>3. (CHOOSE j \in K : \A h \in K : h <= j) = m
      BY <1>1, <1>3, <3>1, LargestIs
    <3>4. LastOf(K, f)' = listings'[m][f]
      BY <1>2, <2>2, <3>3 DEF LastOf
    <3> QED BY <1>1, <1>3, <3>1, <3>2, <3>4
  <2> QED BY <2>1, <2>2
<1>5. LastKnown(i, f)' = LastOf(KnownBefore(i, f), f)' /\ LastKnown(i, f) = LastOf(KnownBefore(i, f), f)
  BY LastKnownIs DEF LastKnown, LastOf, KnownBefore
<1> QED BY <1>4, <1>5

\* The last value of a field as the next listing finds it.
LEMMA NextKnown ==
  ASSUME Remembered, NEW l, DecidesNext(l), NEW n, n = Len(listings), NEW f \in Fields
  PROVE  /\ Known(f) \subseteq 1..n
         /\ LastKnown(n + 1, f)' = IF l.fate = "forgotten" THEN Unknown ELSE LastOf(Known(f), f)
<1>1. /\ n \in Nat /\ DOMAIN listings = 1..n /\ listings'[n + 1] = l
      /\ \A j \in 1..n : listings'[j] = listings[j] /\ Observing(j)' = Observing(j)
  BY ListingsGrow
<1>2. Known(f) \subseteq 1..n
  BY <1>1 DEF Known
<1>3. KnownBefore(n + 1, f)' = IF l.fate = "forgotten" THEN {} ELSE Known(f)
  <2>1. (n + 1) - 1 = n
    BY <1>1
  <2>2. ASSUME NEW j \in 1..n
        PROVE  (\A h \in (j + 1)..(n + 1) : listings'[h].fate # "forgotten")
                 <=> l.fate # "forgotten" /\ \A h \in (j + 1)..n : listings[h].fate # "forgotten"
    <3>1. (j + 1)..(n + 1) = ((j + 1)..n) \cup {n + 1} /\ (j + 1)..n \subseteq 1..n
      BY <1>1
    <3> QED BY <1>1, <3>1
  <2>3. KnownBefore(n + 1, f)' = {j \in 1..n : /\ Observing(j)' /\ listings'[j][f] # Unknown
                                               /\ \A h \in (j + 1)..(n + 1) : listings'[h].fate # "forgotten"}
    BY <2>1 DEF KnownBefore
  <2>4. Known(f) = {j \in 1..n : /\ Observing(j) /\ listings[j][f] # Unknown
                                 /\ \A h \in (j + 1)..n : listings[h].fate # "forgotten"}
    BY <1>1 DEF Known
  <2> QED BY <1>1, <2>2, <2>3, <2>4
<1>4. LastKnown(n + 1, f)' = LastOf(KnownBefore(n + 1, f), f)'
  BY DEF LastKnown, LastOf, KnownBefore
<1>5. CASE l.fate = "forgotten"
  BY <1>2, <1>3, <1>4, <1>5 DEF LastOf
<1>6. CASE l.fate # "forgotten"
  <2> DEFINE K == Known(f)
  <2>1. KnownBefore(n + 1, f)' = K
    BY <1>3, <1>6
  <2>2. CASE K = {}
    BY <1>4, <1>6, <2>1, <2>2 DEF LastOf
  <2>3. CASE K # {}
    <3>1. PICK m \in K : \A j \in K : j <= m
      BY <1>1, <1>2, <2>3, HasLargest
    <3>2. LastOf(K, f) = listings[m][f] /\ (CHOOSE j \in K : \A h \in K : h <= j) = m
      BY <1>1, <1>2, <3>1, LastOfIs, LargestIs
    <3>3. LastOf(KnownBefore(n + 1, f), f)' = listings'[m][f]
      BY <2>1, <2>3, <3>2 DEF LastOf
    <3> QED BY <1>1, <1>2, <1>4, <1>6, <3>1, <3>2, <3>3
  <2> QED BY <1>2, <2>2, <2>3
<1> QED BY <1>2, <1>5, <1>6

\* A decision looks at the revision if it is a new one, or if all was forgotten.
LEMMA NextObserving ==
  ASSUME Remembered, NEW l, DecidesNext(l), NEW n, n = Len(listings)
  PROVE  Observing(n + 1)' <=>
           \/ l.fate = "forgotten"
           \/ /\ l.fate = "recorded"
              /\ memory.observation = Unknown \/ memory.observation.revision # l.revision
<1>1. /\ n \in Nat /\ DOMAIN listings = 1..n /\ listings'[n + 1] = l
      /\ \A j \in 1..n : listings'[j] = listings[j] /\ listings[j] \in DecidedListings
      /\ (n + 1) - 1 = n
  BY ListingsGrow
<1>2. Observing(n + 1)' <=>
        /\ l.fate \in {"recorded", "forgotten"}
        /\ l.fate # "forgotten" => ~\E h \in 1..n : listings[h].revision = l.revision /\ Telling(h)
  BY <1>1 DEF Observing, Telling
<1>3. \A h \in 1..n : listings[h].revision <= l.revision /\ listings[h].revision \in Nat
  BY <1>1 DEF DecidesNext, DecidedListings
<1>4. (\E h \in 1..n : listings[h].revision = l.revision /\ Telling(h))
        <=> memory.observation # Unknown /\ memory.observation.revision = l.revision
  <2>1. CASE memory.observation = Unknown
    BY <1>1, <2>1 DEF Remembered, LastRevision
  <2>2. CASE memory.observation # Unknown
    <3>1. PICK w \in 1..n : Telling(w) /\ listings[w].revision = memory.observation.revision
      BY <1>1, <2>2 DEF Remembered, LastRevision
    <3>2. \A j \in 1..n : Telling(j) => listings[j].revision <= memory.observation.revision
      BY <1>1, <2>2 DEF Remembered, LastRevision
    <3>3. l.revision \in Nat /\ memory.observation.revision \in Nat
      BY <1>3, <3>1 DEF DecidesNext, DecidedListings
    <3> QED BY <1>3, <2>2, <3>1, <3>2, <3>3
  <2> QED BY <2>1, <2>2
<1> QED BY <1>2, <1>4

\* What is remembered of a field, and what it is compared with.
Recalled(l) == IF l.fate = "forgotten" THEN Unknown ELSE memory.observation

LEMMA RecordSteps ==
  ASSUME Remembered, NEW l, DecidesNext(l), NEW n, n = Len(listings)
  PROVE  LET previous == Recalled(l)
         IN /\ Observing(n + 1)' =>
                 /\ memory'.observation = Observation(previous, Of(l))
                 /\ memory'.changes = Append(memory.changes,
                      IF previous = Unknown THEN <<>>
                      ELSE [f \in Between(previous, memory'.observation) |->
                              <<previous[f], memory'.observation[f]>>])
            /\ ~Observing(n + 1)' =>
                 /\ memory'.observation = memory.observation
                 /\ memory'.changes = Append(memory.changes, <<>>)
            /\ l.fate \notin {"left out", "cancelled"} => Of(l) \in Observations /\ Of(l) # Unknown
<1> DEFINE previous == Recalled(l)
<1>1. /\ l \in DecidedListings /\ memory' = Record(memory, l)
      /\ memory \in [observation : Observations \cup {Unknown}, changes : Seq(ToldChanges)]
  BY DEF DecidesNext, Remembered, ListingsTyped
<1>2. Unknown \notin Observations
  BY ChangesAssumption
<1>3. l.fate \in {"recorded", "left out", "cancelled", "forgotten"}
  BY <1>1 DEF DecidedListings, Fates
<1>4. Observing(n + 1)' <=>
        \/ l.fate = "forgotten"
        \/ /\ l.fate = "recorded"
           /\ memory.observation = Unknown \/ memory.observation.revision # l.revision
  BY NextObserving
<1>5. l.fate \notin {"left out", "cancelled"} =>
        Of(l) \in Observations /\ Of(l) # Unknown /\ Of(l).revision = l.revision
  <2> SUFFICES ASSUME l.fate \notin {"left out", "cancelled"}
               PROVE  Of(l) \in Observations /\ Of(l) # Unknown /\ Of(l).revision = l.revision
    OBVIOUS
  <2>1. l.revision \in Nat /\ l.title \in Titles /\ l.guests \in Guests
    BY <1>1 DEF DecidedListings
  <2>2. Of(l).revision = l.revision
    BY DEF Of
  <2>3. Of(l) \in Observations
    BY <2>1 DEF Of, Observations
  <2> QED BY <1>2, <2>2, <2>3
<1>6. CASE l.fate = "left out"
  BY <1>1, <1>4, <1>5, <1>6 DEF Record
<1>7. CASE l.fate = "cancelled"
  <2>1. Record(memory, l) = [observation |-> memory.observation, changes |-> Append(memory.changes, <<>>)]
    BY <1>7 DEF Record, Observe, Of
  <2> QED BY <1>1, <1>4, <1>7, <2>1
<1>8. CASE l.fate \in {"recorded", "forgotten"}
  <2>1. Record(memory, l) = Observe(memory, l) /\ previous = IF l.fate = "forgotten" THEN Unknown ELSE memory.observation
    BY <1>8 DEF Record, Recalled
  <2>2. CASE Observing(n + 1)'
    <3>1. ~(previous # Unknown /\ previous.revision = Of(l).revision)
      BY <1>4, <1>5, <1>8, <2>1, <2>2
    <3>2. Observe(memory, l) =
            [observation |-> Observation(previous, Of(l)),
             changes |-> Append(memory.changes,
               IF previous = Unknown THEN <<>>
               ELSE [f \in Between(previous, Observation(previous, Of(l))) |->
                       <<previous[f], Observation(previous, Of(l))[f]>>])]
      BY <1>5, <1>8, <2>1, <3>1 DEF Observe
    <3>3. memory'.observation = Observation(previous, Of(l))
      BY <1>1, <2>1, <3>2
    <3>4. memory'.changes = Append(memory.changes,
               IF previous = Unknown THEN <<>>
               ELSE [f \in Between(previous, memory'.observation) |->
                       <<previous[f], memory'.observation[f]>>])
      BY <1>1, <2>1, <3>2, <3>3
    <3> QED BY <1>5, <1>8, <2>2, <3>3, <3>4
  <2>3. CASE ~Observing(n + 1)'
    <3>1. l.fate = "recorded" /\ memory.observation # Unknown /\ memory.observation.revision = Of(l).revision
      BY <1>4, <1>5, <1>8, <2>3
    <3>2. Observe(memory, l) = [observation |-> memory.observation, changes |-> Append(memory.changes, <<>>)]
      BY <1>5, <2>1, <3>1 DEF Observe
    <3>3. memory'.observation = memory.observation /\ memory'.changes = Append(memory.changes, <<>>)
      BY <1>1, <2>1, <3>2
    <3> QED BY <1>5, <1>8, <2>3, <3>3
  <2> QED BY <2>2, <2>3
<1> QED BY <1>3, <1>6, <1>7, <1>8

\* The record of an observed revision, field by field.
Follows(l, previous, new) ==
  \A f \in Fields :
    /\ new[f] = IF l[f] # Unknown THEN l[f] ELSE IF previous = Unknown THEN Unknown ELSE previous[f]
    /\ previous # Unknown => (f \in Between(previous, new) <=> KnownDiffer(previous[f], l[f]))
    /\ {new[f], l[f]} \subseteq Titles \cup Guests
    /\ previous # Unknown => previous[f] \in Titles \cup Guests

LEMMA ObservationOf ==
  ASSUME NEW l \in DecidedListings, l.fate \notin {"left out", "cancelled"},
         NEW previous \in Observations \cup {Unknown}, NEW new, new = Observation(previous, Of(l))
  PROVE  /\ new \in Observations /\ new.revision = l.revision
         /\ Follows(l, previous, new)
<1>1. /\ l.revision \in Nat /\ l.title \in Titles /\ l.guests \in Guests
      /\ l.title # Unknown /\ Unknown \notin Observations
  BY ChangesAssumption DEF DecidedListings
<1>2. previous # Unknown => /\ previous \in Observations
                            /\ previous.title \in Titles /\ previous.guests \in Guests
                            /\ previous.title # Unknown
  BY ChangesAssumption DEF Observations
<1>3. /\ Of(l) \in Observations /\ Of(l).revision = l.revision
      /\ Of(l).title = l.title /\ Of(l).guests = l.guests
  BY <1>1 DEF Of, Observations
<1>4. /\ new \in Observations /\ new.revision = l.revision /\ new.title = l.title
      /\ new.guests = IF l.guests # Unknown THEN l.guests ELSE IF previous = Unknown THEN Unknown ELSE previous.guests
  <2>1. CASE previous = Unknown
    BY <1>3, <2>1 DEF Observation
  <2>2. CASE previous # Unknown /\ l.guests # Unknown
    BY <1>3, <2>2 DEF Observation, KeepComplete
  <2>3. CASE previous # Unknown /\ l.guests = Unknown
    <3>1. new = [Of(l) EXCEPT !.guests = previous.guests]
      BY <1>3, <2>3 DEF Observation, KeepComplete
    <3> QED BY <1>2, <1>3, <2>3, <3>1 DEF Observations
  <2> QED BY <2>1, <2>2, <2>3
<1>5. previous # Unknown =>
        /\ "title" \in Between(previous, new) <=> KnownDiffer(previous.title, l.title)
        /\ "guests" \in Between(previous, new) <=> KnownDiffer(previous.guests, l.guests)
  BY <1>1, <1>2, <1>4 DEF Between, KnownDiffer, Fields
<1>6. new.title \in Titles \cup Guests /\ new.guests \in Titles \cup Guests
  BY <1>4 DEF Observations
<1> QED BY <1>1, <1>2, <1>4, <1>5, <1>6 DEF Fields, Follows

\* A decision compares each field with the last value known before it.
LEMMA ComparedWith ==
  ASSUME Remembered, NEW l, DecidesNext(l), NEW n, n = Len(listings), NEW f \in Fields
  PROVE  LastKnown(n + 1, f)' = IF Recalled(l) = Unknown THEN Unknown ELSE Recalled(l)[f]
<1>1. LastKnown(n + 1, f)' = IF l.fate = "forgotten" THEN Unknown ELSE LastOf(Known(f), f)
  BY NextKnown
<1>2. memory.observation = Unknown => Known(f) = {}
  BY DEF Remembered, LastRevision, Known, Observing, Telling
<1>3. LastOf(Known(f), f) = IF memory.observation = Unknown THEN Unknown ELSE memory.observation[f]
  BY <1>2 DEF Remembered, LastFields, LastOf
<1> QED BY <1>1, <1>3 DEF Recalled

LEMMA KnownAfter ==
  ASSUME Remembered, NEW l, DecidesNext(l), NEW n, n = Len(listings), NEW f \in Fields
  PROVE  LastOf(Known(f), f)' = IF Observing(n + 1)' /\ l[f] # Unknown THEN l[f] ELSE LastKnown(n + 1, f)'
<1>1. /\ n \in Nat /\ DOMAIN listings = 1..n /\ listings'[n + 1] = l
      /\ DOMAIN listings' = 1..(n + 1) /\ Len(listings') = n + 1
  BY ListingsGrow
<1>2. KnownBefore(n + 1, f)' = {j \in 1..n : /\ Observing(j)' /\ listings'[j][f] # Unknown
                                             /\ \A h \in (j + 1)..(n + 1) : listings'[h].fate # "forgotten"}
  <2>1. (n + 1) - 1 = n
    BY <1>1
  <2> QED BY <2>1 DEF KnownBefore
<1>3. Known(f)' = {j \in 1..(n + 1) : /\ Observing(j)' /\ listings'[j][f] # Unknown
                                      /\ \A h \in (j + 1)..(n + 1) : listings'[h].fate # "forgotten"}
  BY <1>1 DEF Known
<1>4. 1..(n + 1) = (1..n) \cup {n + 1} /\ ((n + 1) + 1)..(n + 1) = {}
  BY <1>1
<1>5. CASE Observing(n + 1)' /\ l[f] # Unknown
  <2>1. Known(f)' \subseteq 1..(n + 1) /\ n + 1 \in Known(f)' /\ \A j \in Known(f)' : j <= n + 1
    BY <1>1, <1>3, <1>4, <1>5
  <2>2. n + 1 \in Nat
    BY <1>1
  <2>3. (CHOOSE j \in Known(f)' : \A h \in Known(f)' : h <= j) = n + 1
    <3> DEFINE K == Known(f)'
    <3>1. K \subseteq 1..(n + 1) /\ n + 1 \in K /\ \A j \in K : j <= n + 1
      BY <2>1
    <3> HIDE DEF K
    <3>2. (CHOOSE j \in K : \A h \in K : h <= j) = n + 1
      BY <2>2, <3>1, LargestIs
    <3> QED BY <3>2 DEF K
  <2>4. LastOf(Known(f), f)' = listings'[n + 1][f]
    BY <2>1, <2>3 DEF LastOf
  <2> QED BY <1>1, <1>5, <2>4
<1>6. CASE ~(Observing(n + 1)' /\ l[f] # Unknown)
  <2>1. Known(f)' = KnownBefore(n + 1, f)'
    BY <1>1, <1>2, <1>3, <1>4, <1>6
  <2>2. LastKnown(n + 1, f)' = LastOf(KnownBefore(n + 1, f), f)'
    BY DEF LastKnown, LastOf, KnownBefore
  <2>3. LastOf(Known(f), f)' = LastOf(KnownBefore(n + 1, f), f)'
    BY <2>1 DEF LastOf
  <2> QED BY <1>6, <2>2, <2>3
<1> QED BY <1>5, <1>6

LEMMA KeepsRemembered ==
  ASSUME Remembered, NEW l, DecidesNext(l)
  PROVE  Remembered'
<1> DEFINE previous == Recalled(l)
<1>1. PICK n : n = Len(listings)
  OBVIOUS
<1>2. /\ n \in Nat /\ DOMAIN listings = 1..n /\ DOMAIN listings' = 1..(n + 1) /\ Len(listings') = n + 1
      /\ \A j \in 1..n : listings'[j] = listings[j]
      /\ listings'[n + 1] = l
      /\ \A j \in 1..n : listings[j] \in DecidedListings /\ Telling(j)' = Telling(j) /\ Observing(j)' = Observing(j)
      /\ listings' \in Seq(DecidedListings)
  BY <1>1, ListingsGrow
<1>3. /\ l \in DecidedListings /\ memory' = Record(memory, l)
      /\ memory \in [observation : Observations \cup {Unknown}, changes : Seq(ToldChanges)]
      /\ Len(memory.changes) = n
      /\ previous \in Observations \cup {Unknown}
  BY <1>1 DEF DecidesNext, Remembered, ListingsTyped, Recalled
<1>4. \A f \in Fields : LastKnown(n + 1, f)' = IF previous = Unknown THEN Unknown ELSE previous[f]
  BY <1>1, ComparedWith
<1>5. \A f \in Fields :
        LastOf(Known(f), f)' = IF Observing(n + 1)' /\ l[f] # Unknown THEN l[f] ELSE LastKnown(n + 1, f)'
  BY <1>1, KnownAfter
<1>6. Observing(n + 1)' <=>
           \/ l.fate = "forgotten"
           \/ /\ l.fate = "recorded"
              /\ memory.observation = Unknown \/ memory.observation.revision # l.revision
  BY <1>1, NextObserving
<1>7. \A j \in 1..n : listings[j].revision \in Nat /\ listings[j].revision <= l.revision
  BY <1>2 DEF DecidesNext, DecidedListings
<1>8. 1..(n + 1) = (1..n) \cup {n + 1} /\ l.revision \in Nat
  BY <1>2, <1>3 DEF DecidedListings
<1>9. RevisionsRise'
  <2> SUFFICES ASSUME NEW i \in 1..(n + 1), NEW j \in 1..(n + 1), i <= j
               PROVE  listings'[i].revision <= listings'[j].revision
    BY <1>2 DEF RevisionsRise
  <2>1. CASE j = n + 1
    BY <1>2, <1>7, <1>8, <2>1
  <2>2. CASE j # n + 1
    <3>1. i \in 1..n /\ j \in 1..n
      BY <1>2, <2>2
    <3> QED BY <1>2, <3>1 DEF Remembered, RevisionsRise
  <2> QED BY <2>1, <2>2
<1>10. \A i \in 1..n : /\ Observing(i)' = Observing(i) /\ listings'[i] = listings[i]
                       /\ \A f \in Fields : LastKnown(i, f)' = LastKnown(i, f)
  BY <1>1, <1>2, EarlierKnown
<1>11. ASSUME NEW c \in ToldChanges, memory'.changes = Append(memory.changes, c),
              memory'.observation \in Observations \cup {Unknown},
              c = [f \in {f \in Fields : Observing(n + 1)' /\ KnownDiffer(LastKnown(n + 1, f)', l[f])} |->
                     <<LastKnown(n + 1, f)', l[f]>>]
       PROVE  ListingsTyped' /\ ChangesAddUp'
  <2>1. /\ memory'.changes \in Seq(ToldChanges) /\ Len(memory'.changes) = n + 1
        /\ \A i \in 1..n : memory'.changes[i] = memory.changes[i]
        /\ memory'.changes[n + 1] = c
    BY <1>3, <1>11, AppendProperties
  <2>2. memory' \in [observation : Observations \cup {Unknown}, changes : Seq(ToldChanges)]
    <3>1. memory' = [observation |-> memory'.observation, changes |-> memory'.changes]
      BY <1>3 DEF Record, Observe
    <3> QED BY <1>11, <2>1, <3>1
  <2>3. ListingsTyped'
    BY <1>2, <2>1, <2>2 DEF ListingsTyped
  <2>4. ASSUME NEW i \in 1..n
        PROVE  memory'.changes[i] =
                 [f \in {f \in Fields : Observing(i)' /\ KnownDiffer(LastKnown(i, f)', listings'[i][f])} |->
                    <<LastKnown(i, f)', listings'[i][f]>>]
    <3>1. memory.changes[i] =
            [f \in {f \in Fields : Observing(i) /\ KnownDiffer(LastKnown(i, f), listings[i][f])} |->
               <<LastKnown(i, f), listings[i][f]>>]
      BY <1>2 DEF Remembered, ChangesAddUp
    <3> QED BY <1>10, <2>1, <3>1
  <2>5. memory'.changes[n + 1] =
          [f \in {f \in Fields : Observing(n + 1)' /\ KnownDiffer(LastKnown(n + 1, f)', listings'[n + 1][f])} |->
             <<LastKnown(n + 1, f)', listings'[n + 1][f]>>]
    BY <1>2, <1>11, <2>1
  <2>6. ChangesAddUp'
    BY <1>2, <1>8, <2>4, <2>5 DEF ChangesAddUp, KnownDiffer
  <2> QED BY <2>3, <2>6
<1>12. CASE Observing(n + 1)'
  <2>1. /\ memory'.observation = Observation(previous, Of(l))
        /\ memory'.changes = Append(memory.changes,
             IF previous = Unknown THEN <<>>
             ELSE [f \in Between(previous, memory'.observation) |-> <<previous[f], memory'.observation[f]>>])
    BY <1>1, <1>12, RecordSteps
  <2>2. l.fate \in {"recorded", "forgotten"} /\ Telling(n + 1)'
    BY <1>2, <1>6, <1>12 DEF Telling
  <2> DEFINE new == memory'.observation
  <2>3. /\ new \in Observations /\ new.revision = l.revision /\ new # Unknown
        /\ Follows(l, previous, new)
    <3>1. l.fate \notin {"left out", "cancelled"} /\ Unknown \notin Observations
      BY <2>2, ChangesAssumption
    <3>2. /\ new = Observation(previous, Of(l)) /\ l \in DecidedListings
          /\ previous \in Observations \cup {Unknown}
      BY <1>3, <2>1
    <3> HIDE DEF previous, new
    <3>3. new \in Observations /\ new.revision = l.revision /\ Follows(l, previous, new)
      BY <3>1, <3>2, ObservationOf
    <3> QED BY <3>1, <3>3
  <2>4. LastRevision'
    <3>1. \A j \in 1..(n + 1) : listings'[j].revision <= l.revision
      BY <1>2, <1>7, <1>8
    <3> QED BY <1>2, <1>8, <2>2, <2>3, <3>1 DEF LastRevision
  <2>5. LastFields'
    BY <1>4, <1>5, <1>12, <2>3 DEF LastFields, Follows
  <2> DEFINE c == IF previous = Unknown THEN <<>>
                  ELSE [f \in Between(previous, new) |-> <<previous[f], new[f]>>]
             want == [f \in {f \in Fields : Observing(n + 1)' /\ KnownDiffer(LastKnown(n + 1, f)', l[f])} |->
                        <<LastKnown(n + 1, f)', l[f]>>]
  <2>6. c = want /\ c \in ToldChanges
    <3>1. CASE previous = Unknown
      <4>1. {f \in Fields : Observing(n + 1)' /\ KnownDiffer(LastKnown(n + 1, f)', l[f])} = {}
        BY <1>4, <3>1 DEF KnownDiffer
      <4>2. want = <<>>
        BY <4>1
      <4>3. <<>> \in [{} -> (Titles \cup Guests) \X (Titles \cup Guests)]
        OBVIOUS
      <4> QED BY <3>1, <4>2, <4>3 DEF ToldChanges
    <3>2. CASE previous # Unknown
      <4>1. Between(previous, new) =
              {f \in Fields : Observing(n + 1)' /\ KnownDiffer(LastKnown(n + 1, f)', l[f])}
        <5>1. Between(previous, new) \subseteq Fields
          BY DEF Between
        <5> QED BY <1>4, <1>12, <2>3, <3>2, <5>1 DEF Follows
      <4>2. \A f \in Between(previous, new) : previous[f] = LastKnown(n + 1, f)' /\ new[f] = l[f]
        BY <1>4, <2>3, <3>2, <4>1 DEF KnownDiffer, Follows
      <4>3. c = [f \in Between(previous, new) |-> <<previous[f], new[f]>>]
        BY <3>2
      <4>4. c = want
        BY <4>1, <4>2, <4>3
      <4>5. c \in [Between(previous, new) -> (Titles \cup Guests) \X (Titles \cup Guests)]
        BY <2>3, <3>2, <4>1, <4>3 DEF Follows
      <4>6. Between(previous, new) \in SUBSET Fields
        BY <4>1
      <4> HIDE DEF c, want, new, previous
      <4> QED BY <4>4, <4>5, <4>6 DEF ToldChanges
    <3> QED BY <3>1, <3>2
  <2>7. memory'.changes = Append(memory.changes, c)
    BY <2>1
  <2>8. ListingsTyped' /\ ChangesAddUp'
    BY <1>11, <2>3, <2>6, <2>7
  <2> QED BY <1>9, <2>4, <2>5, <2>8 DEF Remembered
<1>13. CASE ~Observing(n + 1)'
  <2>1. memory'.observation = memory.observation /\ memory'.changes = Append(memory.changes, <<>>)
    BY <1>1, <1>13, RecordSteps
  <2>2. previous = memory.observation /\ l.fate # "forgotten"
    BY <1>6, <1>13 DEF Recalled
  <2>3. Telling(n + 1)' => memory.observation # Unknown /\ memory.observation.revision = l.revision
    BY <1>2, <1>6, <1>13 DEF Telling
  <2>4. LastRevision'
    <3>1. CASE memory.observation = Unknown
      BY <1>2, <1>8, <2>1, <2>3, <3>1 DEF LastRevision, Remembered
    <3>2. CASE memory.observation # Unknown
      <4>1. PICK w \in 1..n : Telling(w) /\ listings[w].revision = memory.observation.revision
        BY <1>2, <3>2 DEF Remembered, LastRevision
      <4>2. \A j \in 1..n : Telling(j) => listings[j].revision <= memory.observation.revision
        BY <1>2, <3>2 DEF Remembered, LastRevision
      <4>3. w \in 1..(n + 1) /\ Telling(w)' /\ listings'[w].revision = memory'.observation.revision
        BY <1>2, <1>8, <2>1, <4>1
      <4>4. \A j \in 1..(n + 1) : Telling(j)' => listings'[j].revision <= memory'.observation.revision
        BY <1>2, <1>8, <2>1, <2>3, <4>2
      <4> QED BY <1>2, <2>1, <3>2, <4>3, <4>4 DEF LastRevision
    <3> QED BY <3>1, <3>2
  <2>5. LastFields'
    BY <1>4, <1>5, <1>13, <2>1, <2>2 DEF LastFields
  <2>6. {f \in Fields : Observing(n + 1)' /\ KnownDiffer(LastKnown(n + 1, f)', l[f])} = {}
    BY <1>13
  <2>7. <<>> = [f \in {f \in Fields : Observing(n + 1)' /\ KnownDiffer(LastKnown(n + 1, f)', l[f])} |->
                  <<LastKnown(n + 1, f)', l[f]>>]
    BY <2>6
  <2>8. <<>> \in ToldChanges
    <3>1. <<>> \in [{} -> (Titles \cup Guests) \X (Titles \cup Guests)]
      OBVIOUS
    <3> QED BY <3>1 DEF ToldChanges
  <2>9. ListingsTyped' /\ ChangesAddUp'
    BY <1>3, <1>11, <2>1, <2>7, <2>8
  <2> QED BY <1>9, <2>4, <2>5, <2>9 DEF Remembered
<1> QED BY <1>12, <1>13

(***************************************************************************)
(* Activity tells every change of a source event once, from the last value *)
(* known to the next, and nothing else: for any number of listings, lists  *)
(* that Google shortened, decisions left out of Activity, cancellations    *)
(* and observations that were forgotten (sync_run.py, record, _observe).   *)
(***************************************************************************)
THEOREM ChangesAreToldOnce == SpecChanges => []ChangesAddUp
<1>1. InitChanges => Remembered
  <2> SUFFICES ASSUME InitChanges PROVE Remembered
    OBVIOUS
  <2>1. listings = <<>> /\ memory.observation = Unknown /\ memory.changes = <<>>
        /\ memory = [observation |-> Unknown, changes |-> <<>>]
    BY DEF InitChanges, NothingObserved
  <2>2. DOMAIN listings = {} /\ Len(listings) = 0
    BY <2>1
  <2>3. ListingsTyped
    BY <2>1 DEF ListingsTyped
  <2> QED BY <2>1, <2>2, <2>3 DEF Remembered, RevisionsRise, LastRevision, LastFields, ChangesAddUp
<1>2. Remembered /\ [NextChanges]_<<listings, memory>> => Remembered'
  <2> SUFFICES ASSUME Remembered, [NextChanges]_<<listings, memory>> PROVE Remembered'
    OBVIOUS
  <2>1. CASE NextChanges
    <3>1. PICK l : DecidesNext(l)
      BY <2>1, DecisionIsNext DEF Remembered
    <3> QED BY <3>1, KeepsRemembered
  <2>2. CASE UNCHANGED <<listings, memory>>
    <3>1. \A j : Telling(j)' = Telling(j) /\ Observing(j)' = Observing(j)
      BY <2>2 DEF Telling, Observing
    <3>2. \A i, f : LastKnown(i, f)' = LastKnown(i, f) /\ LastOf(Known(f), f)' = LastOf(Known(f), f)
      <4> SUFFICES ASSUME NEW i, NEW f
                   PROVE  LastKnown(i, f)' = LastKnown(i, f) /\ LastOf(Known(f), f)' = LastOf(Known(f), f)
        OBVIOUS
      <4>1. KnownBefore(i, f)' = KnownBefore(i, f) /\ Known(f)' = Known(f)
        BY <2>2, <3>1 DEF KnownBefore, Known
      <4>2. LastOf(KnownBefore(i, f), f)' = LastOf(KnownBefore(i, f), f)
        BY <2>2, <4>1 DEF LastOf
      <4>3. LastOf(Known(f), f)' = LastOf(Known(f), f)
        BY <2>2, <4>1 DEF LastOf
      <4>4. LastKnown(i, f)' = LastOf(KnownBefore(i, f), f)' /\ LastKnown(i, f) = LastOf(KnownBefore(i, f), f)
        BY DEF LastKnown, LastOf, KnownBefore
      <4> QED BY <4>2, <4>3, <4>4
    <3>3. ListingsTyped' /\ RevisionsRise' /\ LastRevision' /\ LastFields'
      BY <2>2, <3>1, <3>2 DEF Remembered, ListingsTyped, RevisionsRise, LastRevision, LastFields
    <3>4. ChangesAddUp'
      BY <2>2, <3>1, <3>2 DEF Remembered, ChangesAddUp
    <3> QED BY <3>3, <3>4 DEF Remembered
  <2> QED BY <2>1, <2>2
<1>3. Remembered => ChangesAddUp
  BY DEF Remembered
<1> QED BY <1>1, <1>2, <1>3, PTL DEF SpecChanges

=============================================================================
