-------------------------------- MODULE Wire --------------------------------
(***************************************************************************)
(* The operations of the envelope an entity carries from run to run        *)
(* (internal/wire/wire.go): the bounded cache of completed requests and    *)
(* the merge of a label patch.  Pure operators: the module has no state.   *)
(*                                                                         *)
(* A Go map is a function whose DOMAIN is the set of keys present.         *)
(***************************************************************************)
EXTENDS Naturals, Sequences

CONSTANT CompletedOpsCap   \* how many completed requests the cache keeps

ASSUME CompletedOpsCapAssumption == CompletedOpsCap \in Nat \ {0}

-----------------------------------------------------------------------------
(* RecordCompleted *)

\* CompletedOrder once r is recorded, before anything is evicted: a request
\* already in the cache keeps its place.
Enlisted(completed, order, r) ==
  IF r \in DOMAIN completed THEN order ELSE Append(order, r)

\* A slip in the loop's bound: one entry too many survives.
OverflowOffByOne(o) ==
  IF Len(o) > CompletedOpsCap + 1 THEN Len(o) - CompletedOpsCap - 1 ELSE 0

\* The same slip the other way: the cache never holds its full cap.
OverflowTooMany(o) ==
  IF Len(o) >= CompletedOpsCap THEN Len(o) - CompletedOpsCap + 1 ELSE 0

\* How many of the oldest entries of o the eviction loop drops.
Overflow(o) == IF Len(o) > CompletedOpsCap THEN Len(o) - CompletedOpsCap ELSE 0

\* env.CompletedOrder after RecordCompleted(r, ...).
RecordOrder(completed, order, r) ==
  LET o == Enlisted(completed, order, r)
  IN  SubSeq(o, Overflow(o) + 1, Len(o))

\* env.Completed after RecordCompleted(r, result).
RecordCompleted(completed, order, r, result) ==
  LET o       == Enlisted(completed, order, r)
      evicted == {o[i] : i \in 1 .. Overflow(o)}
  IN  [x \in (DOMAIN completed \cup {r}) \ evicted |->
         IF x = r THEN result ELSE completed[x]]

-----------------------------------------------------------------------------
(* MergeLabels *)

\* The labels after a patch: an empty value removes its key, any other value
\* overwrites.  The code reports a change exactly when the result differs.
MergeLabels(labels, patch) ==
  LET removed == {k \in DOMAIN patch : patch[k] = ""}
  IN  [k \in (DOMAIN labels \cup DOMAIN patch) \ removed |->
         IF k \in DOMAIN patch THEN patch[k] ELSE labels[k]]

=============================================================================
