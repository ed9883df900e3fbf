----------------------------- MODULE EntityClient -----------------------------
(***************************************************************************)
(* The caller's side of an entity (pkg/entclient), composed with what the  *)
(* entity promises (EntityLifecycle): one workflow ID that may live, close *)
(* and live again, and calls that send, wait, retry and give up.           *)
(***************************************************************************)
EXTENDS Sequences, Naturals, FiniteSets, Functions

CONSTANTS Calls,        \* the update calls, each made once
          Kind,         \* exec, start (ExecWithStart) or raw (ExecRaw, SetLabelsRaw)
          Requests,     \* request ids
          Req,          \* the id a call sends; calls with an explicit id may share it
          MaxAttempts,  \* withCANRetry: 5 in the code
          Creations     \* bound: calls of CreateOrAttach or ApplyRaw

ASSUME ClientAssumption ==
  /\ Kind \in [Calls -> {"exec", "start", "raw"}]
  /\ Req \in [Calls -> Requests]
  /\ MaxAttempts \in Nat \ {0}
  /\ Creations \in Nat

VARIABLES stage, effect, queue, open,  \* the entity, as in EntityLifecycle
          life,     \* how often the workflow ID has been started
          creates,  \* calls of CreateOrAttach made
          asked,    \* a delete signal has reached this life
          cache,    \* completed operations of this life, by request id
          ran,      \* history: the lives in which a request was executed
          hasty,    \* history: requests sent again while an update was under way
          at,       \* a call is idle, sent, open (accepted), backoff, over, or
                    \* adrift: it gave up, and its update may still land
          tries,    \* attempts of a call
          out       \* what a call returned

entity == <<stage, effect, queue, open>>
client == <<at, tries, out>>
history == <<ran, hasty>>
vars == <<entity, life, creates, asked, cache, history, client>>

L == INSTANCE EntityLifecycle WITH MayInterrupt <- FALSE

Outcomes == {"none", "done", "refused", "invalid", "not_found", "race", "timeout"}
Running == stage # "over"

Init ==
  /\ stage = "over" /\ effect = "none" /\ queue = <<>> /\ open = {}
  /\ life = 0 /\ creates = 0 /\ asked = FALSE
  /\ cache = [r \in Requests |-> "none"] /\ ran = [r \in Requests |-> <<>>] /\ hasty = {}
  /\ at = [c \in Calls |-> "idle"]
  /\ tries = [c \in Calls |-> 0] /\ out = [c \in Calls |-> "none"]

-----------------------------------------------------------------------------
(* Creating and deleting *)

\* Under one workflow ID an open entity is attached to, a closed one is
\* succeeded by a new one, with an empty cache.
StartOrAttach ==
  \/ Running /\ UNCHANGED <<entity, life, asked, cache>>
  \/ /\ ~Running /\ stage' = "new" /\ effect' = "none" /\ queue' = <<>> /\ open' = {}
     /\ life' = life + 1 /\ asked' = FALSE
     /\ cache' = [r \in Requests |-> "none"]

CreateOrAttach ==
  /\ creates < Creations /\ creates' = creates + 1
  /\ StartOrAttach /\ UNCHANGED <<history, client>>

Delete ==
  /\ Running /\ ~asked /\ asked' = TRUE
  /\ UNCHANGED <<entity, life, creates, cache, history, client>>

-----------------------------------------------------------------------------
(* A call *)

Returns(c, what) ==
  at' = [at EXCEPT ![c] = "over"] /\ out' = [out EXCEPT ![c] = what] /\ UNCHANGED tries

\* ExecWithStart creates the entity in the same request.
Send(c) ==
  /\ at' = [at EXCEPT ![c] = "sent"] /\ tries' = [tries EXCEPT ![c] = @ + 1]
  /\ \/ Kind[c] = "start" /\ StartOrAttach
     \/ Kind[c] # "start" /\ UNCHANGED <<entity, life, asked, cache>>
  /\ UNCHANGED <<creates, ran, out>>

\* Under way: the call waits, or what it sent may still be executed.  A caller
\* who gave up does not see the difference.
Pending(c) ==
  at[c] \in {"sent", "adrift", "open", "backoff"} \/ (Running /\ c \in Range(queue))

\* Nobody has to wait for an earlier call with the same request id.
Call(c) ==
  /\ at[c] = "idle" /\ Send(c)
  /\ hasty' = hasty \cup {Req[d] : d \in {d \in Calls : Req[d] = Req[c] /\ Pending(d)}}

\* A slip: the handler does not look into the cache.
DeliverUncached(c) ==
  /\ at[c] = "sent" /\ L!Accept(c) /\ at' = [at EXCEPT ![c] = "open"]
  /\ UNCHANGED <<tries, out, life, creates, asked, cache, history>>

\* The update ends at once.  Nobody hears of it if the caller has given up.
Hears(c, what) ==
  /\ \/ at[c] = "sent" /\ Returns(c, what)
     \/ at[c] = "adrift" /\ at' = [at EXCEPT ![c] = "over"] /\ UNCHANGED <<tries, out>>
  /\ UNCHANGED entity

\* The update reaches an entity that lives, is being deleted, or is gone.
\* The validator refuses it from the moment the run has taken the delete, and
\* the command's own validator may refuse what is not known.
Deliver(c) ==
  /\ \/ /\ at[c] \in {"sent", "adrift"} /\ cache[Req[c]] = "none" /\ L!Accept(c)
        /\ at' = [at EXCEPT ![c] = IF @ = "sent" THEN "open" ELSE "over"]
        /\ UNCHANGED <<tries, out>>
     \/ cache[Req[c]] = "none" /\ stage \in {"creating", "ready"} /\ Hears(c, "invalid")
     \/ cache[Req[c]] # "none" /\ stage \in {"creating", "ready"} /\ Hears(c, cache[Req[c]])
     \/ /\ stage = "deleting" \/ (asked /\ stage \in {"creating", "ready"})
        /\ Hears(c, "refused")
     \/ ~Running /\ Hears(c, "not_found")
  /\ UNCHANGED <<life, creates, asked, cache, history>>

\* The handler finds the outcome; the caller may have given up.
Answer(c) ==
  /\ L!Answer(c) /\ cache[Req[c]] # "none"
  /\ \/ at[c] = "open" /\ Returns(c, cache[Req[c]])
     \/ at[c] # "open" /\ UNCHANGED client
  /\ UNCHANGED <<life, creates, asked, cache, history>>

\* The run closed on an accepted update. Only the typed client tries again.
Raced(c) ==
  /\ at[c] = "open" /\ c \notin open
  /\ \/ Kind[c] = "raw" /\ Returns(c, "race")
     \/ /\ Kind[c] # "raw"
        /\ at' = [at EXCEPT ![c] = "backoff"] /\ UNCHANGED <<tries, out>>
  /\ UNCHANGED <<entity, life, creates, asked, cache, history>>

\* A slip: one attempt too many.
RetryOnceMore(c) ==
  at[c] = "backoff" /\ tries[c] <= MaxAttempts /\ Send(c) /\ UNCHANGED hasty

Retry(c) ==
  /\ at[c] = "backoff"
  /\ \/ tries[c] < MaxAttempts /\ Send(c) /\ UNCHANGED hasty
     \/ /\ tries[c] = MaxAttempts /\ Returns(c, "race")
        /\ UNCHANGED <<entity, life, creates, asked, cache, history>>

\* The caller's context ends.  That takes back no update the server has: one
\* that no worker has seen yet may be lost, or land later.
Timeout(c) ==
  /\ \/ at[c] \in {"sent", "open", "backoff"} /\ Returns(c, "timeout")
     \/ /\ at[c] = "sent" /\ at' = [at EXCEPT ![c] = "adrift"]
        /\ out' = [out EXCEPT ![c] = "timeout"] /\ UNCHANGED tries
  /\ UNCHANGED <<entity, life, creates, asked, cache, history>>

-----------------------------------------------------------------------------
(* The entity *)

Proceed ==
  /\ \/ L!Create \/ L!Created \/ (asked /\ L!CreationAborted)
     \/ L!Tick \/ L!Ticked
     \/ (asked /\ L!BeginDeletion) \/ L!Finalize
  /\ UNCHANGED <<life, creates, asked, cache, history, client>>

Record(what) == cache' = [cache EXCEPT ![Req[Head(queue)]] = what]

\* A label patch, which only raw calls send, takes effect at once.
Execute ==
  /\ queue # <<>>
  /\ \/ L!Execute /\ UNCHANGED cache
     \/ Kind[Head(queue)] = "raw" /\ L!Relabel /\ Record("done")
  /\ ran' = [ran EXCEPT ![Req[Head(queue)]] = Append(@, life)]
  /\ UNCHANGED <<life, creates, asked, hasty, client>>

Executed ==
  /\ L!Executed /\ Record("done")
  /\ UNCHANGED <<life, creates, asked, history, client>>

\* A slip: deletion drops the queue and tells nobody.
RefuseSilently == L!Refuse /\ UNCHANGED <<life, creates, asked, cache, history, client>>

Refuse ==
  /\ L!Refuse /\ Record("refused")
  /\ UNCHANGED <<life, creates, asked, history, client>>

\* A slip: the run ends with its handlers still waiting.
ContinueAsNewAtOnce ==
  /\ stage = "ready" /\ effect = "none" /\ queue = <<>>
  /\ open' = {} /\ asked' = FALSE
  /\ UNCHANGED <<stage, effect, queue, life, creates, cache, history, client>>

\* Invisible, but for a delete that arrives in its last task.
ContinueAsNew ==
  /\ stage = "ready" /\ effect = "none" /\ queue = <<>> /\ open = {}
  /\ asked /\ asked' = FALSE
  /\ UNCHANGED <<entity, life, creates, cache, history, client>>

End == L!End /\ UNCHANGED <<life, creates, asked, cache, history, client>>

-----------------------------------------------------------------------------
Next ==
  \/ CreateOrAttach \/ Delete
  \/ \E c \in Calls : \/ Call(c) \/ Deliver(c) \/ Answer(c)
                      \/ Raced(c) \/ Retry(c) \/ Timeout(c)
  \/ Proceed \/ Execute \/ Executed \/ Refuse \/ ContinueAsNew \/ End

Spec == Init /\ [][Next]_vars

\* Requests arrive, workers run, Init and commands end, backoff timers fire.
\* Nobody has to call, to give up or to delete, Init need not fail, and what a
\* caller has given up need not land.
FairSpec ==
  /\ Spec
  /\ \A c \in Calls : /\ WF_vars(at[c] = "sent" /\ Deliver(c)) /\ WF_vars(Answer(c))
                      /\ WF_vars(Raced(c)) /\ WF_vars(Retry(c))
  /\ WF_vars(Proceed) /\ WF_vars(Execute) /\ WF_vars(Executed) /\ WF_vars(Refuse)

-----------------------------------------------------------------------------
(* Properties *)

\* Types; no call makes more attempts than withCANRetry allows.
TypeOK ==
  /\ stage \in {"new", "creating", "ready", "deleting", "over"}
  /\ effect \in {"none", "init", "command", "tick", "finalize"}
  /\ queue \in Seq(Calls) /\ open \subseteq Calls
  /\ life \in Nat /\ creates \in 0..Creations /\ asked \in BOOLEAN
  /\ cache \in [Requests -> {"none", "done", "refused"}]
  /\ ran \in [Requests -> Seq(Nat)] /\ hasty \subseteq Requests
  /\ at \in [Calls -> {"idle", "sent", "adrift", "open", "backoff", "over"}]
  /\ tries \in [Calls -> 0..MaxAttempts]
  /\ out \in [Calls -> Outcomes]

\* However often a request is sent, by calls that retry or follow one another,
\* one life of an entity executes it at most once (ExecWithRequestID and
\* withCANRetry, against the loop's cache), unless a call was made while the
\* update of an earlier one was under way.  An answer tells that it no longer
\* is; the end of the caller's own context does not.
OncePerLife == \A r \in Requests \ hasty : IsInjective(ran[r])

\* Calls that may still hear, have heard, or gave up before they heard that
\* r was executed.
Credited(r) ==
  {c \in Calls : Req[c] = r /\ (Pending(c) \/ out[c] \in {"done", "timeout"})}

\* What a call returns is true over all of its attempts and of the lives
\* they met: a success was executed; and (on the same condition) each execution
\* has a call of its own that succeeded, waits or gave up, so a refusal, an
\* unknown entity, and a race that outlasted the retries (or met the raw call,
\* which has none) mean that nothing was executed.
ReturnsTruthful ==
  /\ \A c \in Calls : out[c] = "done" => ran[Req[c]] # <<>>
  /\ \A r \in Requests \ hasty : Len(ran[r]) <= Cardinality(Credited(r))

\* Every call returns, whatever becomes of the entity and of those after it.
CallsReturn == \A c \in Calls : at[c] = "sent" ~> out[c] # "none"

=============================================================================
