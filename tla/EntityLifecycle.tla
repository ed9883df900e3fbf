--------------------------- MODULE EntityLifecycle ---------------------------
(***************************************************************************)
(* What an entity promises, with no runs, tasks, coroutines or caches: one *)
(* lifecycle, in which side effects happen one at a time, accepted         *)
(* commands execute in the order they were accepted, and the finalizer     *)
(* starts when every caller has its answer.  Continue-as-New is invisible. *)
(***************************************************************************)
EXTENDS Sequences

CONSTANTS Calls,        \* the update calls
          MayInterrupt  \* may the workflow be cancelled from outside?

VARIABLES stage,    \* new, creating, ready, deleting, over
          effect,   \* the side effect in progress, if any
          queue,    \* accepted commands, the executing one first
          open      \* callers that wait for an answer

vars == <<stage, effect, queue, open>>

Init == stage = "new" /\ effect = "none" /\ queue = <<>> /\ open = {}

-----------------------------------------------------------------------------
(* Callers *)

\* Nobody is accepted once the deletion began.
Accept(c) ==
  /\ stage \in {"creating", "ready"}
  /\ queue' = Append(queue, c)
  /\ \/ open' = open \cup {c}
     \/ MayInterrupt /\ open' = open
  /\ UNCHANGED <<stage, effect>>

Answer(c) ==
  /\ c \in open /\ open' = open \ {c}
  /\ UNCHANGED <<stage, effect, queue>>

-----------------------------------------------------------------------------
(* Side effects: none starts while another is in progress. *)

Starts(e, when) ==
  /\ stage = when /\ effect = "none" /\ effect' = e
  /\ UNCHANGED <<queue, open>>

Create == Starts("init", "new") /\ stage' = "creating"

Created ==
  /\ (stage = "creating" /\ effect = "init") \/ stage = "new"
  /\ stage' = "ready" /\ effect' = "none"
  /\ UNCHANGED <<queue, open>>

\* Creation broke off, and only deletion can follow.
CreationAborted ==
  /\ stage = "creating" /\ effect = "init" /\ effect' = "none"
  /\ UNCHANGED <<stage, queue, open>>

Execute == queue # <<>> /\ Starts("command", "ready") /\ UNCHANGED stage

Executed ==
  /\ effect = "command" /\ effect' = "none" /\ queue' = Tail(queue)
  /\ UNCHANGED <<stage, open>>

\* A set-labels command takes its turn and has no side effect.
Relabel ==
  /\ stage = "ready" /\ effect = "none" /\ queue # <<>>
  /\ queue' = Tail(queue)
  /\ UNCHANGED <<stage, effect, open>>

Tick == queue = <<>> /\ Starts("tick", "ready") /\ UNCHANGED stage

Ticked == effect = "tick" /\ effect' = "none" /\ UNCHANGED <<stage, queue, open>>

-----------------------------------------------------------------------------
(* The end *)

BeginDeletion ==
  /\ stage \in {"creating", "ready"} /\ effect = "none" /\ stage' = "deleting"
  /\ UNCHANGED <<effect, queue, open>>

\* Deletion fails a queued command.
Refuse ==
  /\ stage = "deleting" /\ queue # <<>> /\ queue' = Tail(queue)
  /\ UNCHANGED <<stage, effect, open>>

Finalize ==
  /\ queue = <<>> /\ open = {}
  /\ Starts("finalize", "deleting") /\ UNCHANGED stage

\* The end of a deletion, of a creation that failed (its callers are left
\* without an answer), or by an operator between two side effects.
End ==
  /\ \/ stage = "deleting" /\ effect \in {"none", "finalize"} /\ queue = <<>> /\ open = {}
     \/ stage = "creating" /\ effect = "init"
     \/ MayInterrupt /\ effect \in {"none", "init"}
  /\ stage # "over" /\ stage' = "over"
  /\ effect' = "none" /\ open' = {}
  /\ UNCHANGED queue

Next ==
  \/ \E c \in Calls : Accept(c) \/ Answer(c)
  \/ Create \/ Created \/ CreationAborted
  \/ Execute \/ Executed \/ Relabel \/ Tick \/ Ticked
  \/ BeginDeletion \/ Refuse \/ Finalize \/ End

Spec == Init /\ [][Next]_vars

=============================================================================
