----------------------------- MODULE MCSyncRun -----------------------------
(***************************************************************************)
(* Small instances of SyncRun.  Two policies show every revision in their  *)
(* own way, and policy "busy" leaves one revision out; people write        *)
(* something neither policy ever shows.                                    *)
(***************************************************************************)
EXTENDS SyncRun, TLC

MCPolicies == {"full", "busy"}
MCShown == {"full0", "full1", "full2", "busy", "edited"}
MCProject ==
  [full |-> [r \in Revs |-> CASE r = 0 -> "full0" [] r = 1 -> "full1" [] OTHER -> "full2"],
   busy |-> [r \in Revs |-> IF r = 1 THEN "withheld" ELSE "busy"]]

\* What may happen together in each run.
Bound(edits, policies, faults, ends) ==
  [edits |-> edits, policies |-> policies, faults |-> faults, ends |-> ends]

MCFaults == {Bound(0, 0, 1, 0)}
MCEdits == {Bound(1, 1, 0, 1)}
MCSettles == {Bound(0, 1, 1, 1), Bound(1, 0, 1, 0)}

\* Two states that differ by a permutation of slots have used the same number of them, hence the
\* same ones, and will be given the same one next.
Symmetric == Permutations(Slots) \cup Permutations(Events)
=============================================================================
