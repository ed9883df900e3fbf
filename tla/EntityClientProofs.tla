-------------------------- MODULE EntityClientProofs --------------------------
(***************************************************************************)
(* Proofs about EntityClient, for any number of calls of any kind, of      *)
(* requests, attempts and lives.                                           *)
(***************************************************************************)
EXTENDS EntityClient, FiniteSetTheorems, TLAPS

\* What is queued was sent once, and its caller waits or has given up.  It is
\* still to be answered, and not in the cache, unless it was sent again too soon.
QueueInv ==
  Running =>
    /\ IsInjective(queue)
    /\ \A c \in Range(queue) :
         /\ at[c] \in {"open", "over"} /\ (at[c] = "open" => c \in open)
         /\ Req[c] \notin hasty => c \in open /\ cache[Req[c]] = "none"

Busy == effect = "command" => stage = "ready" /\ queue # <<>>

\* Only the calls of a hasty request overlap.
Alone ==
  \A c, d \in Calls :
    Req[c] = Req[d] /\ Req[c] \notin hasty /\ Pending(c) /\ Pending(d) => c = d

InHand(r) == effect = "command" /\ queue # <<>> /\ Req[Head(queue)] = r

\* Once this life has executed a request, it holds its result, or will.
RanInv ==
  \A r \in Requests :
    /\ \A i \in DOMAIN ran[r] : ran[r][i] <= life
    /\ r \notin hasty => IsInjective(ran[r])
    /\ r \notin hasty /\ Running /\ life \in Range(ran[r]) => cache[r] # "none" \/ InHand(r)

\* A call that has not begun has sent nothing and ended nowhere; what is adrift
\* was given up.
Untried ==
  \A c \in Calls :
    /\ at[c] = "idle" => tries[c] = 0 /\ out[c] = "none"
    /\ at[c] = "adrift" => out[c] = "timeout"

Orderly == Busy /\ QueueInv /\ Alone /\ RanInv

ClientInv == TypeOK /\ Untried /\ Orderly

\* What the callers are told rests on what the entity has done: nothing waits in
\* an entity that is over; whoever is queued (and did not hear the outcome of
\* another call with the same id) waits or gave up; whoever waits is
\* queued or has an outcome; an entity not created has recorded nothing; and
\* what was recorded or told as done was executed.
ReportInv ==
  /\ ~Running => open = {}
  /\ Running => \A c \in Range(queue) :
       \/ at[c] = "open" \/ (at[c] = "over" /\ out[c] = "timeout")
       \/ Req[c] \in hasty
  /\ Running => \A c \in open : c \in Range(queue) \/ cache[Req[c]] # "none"
  /\ stage \in {"new", "creating"} => \A r \in Requests : cache[r] = "none"

DoneInv ==
  /\ \A r \in Requests : InHand(r) \/ cache[r] = "done" => ran[r] # <<>>
  /\ \A c \in Calls : out[c] = "done" => ran[Req[c]] # <<>>

\* A call that may still be executed: it is on its way, or queued, or its
\* attempt came to nothing.
Fresh(c) ==
  \/ at[c] \in {"sent", "adrift", "backoff"}
  \/ at[c] = "open" /\ (c \notin open \/ cache[Req[c]] = "refused")
  \/ Running /\ c \in Range(queue) /\ ~(effect = "command" /\ c = Head(queue))

\* A call whose one execution was or is in hand, or that gave up.
Used(c) ==
  /\ ~Fresh(c)
  /\ \/ at[c] = "open" \/ (Running /\ c \in Range(queue))
     \/ out[c] \in {"done", "timeout"}

Spent(r) == {c \in Calls : Req[c] = r /\ Used(c)}

\* Each execution has used up a call of its own.
SpentInv == \A r \in Requests \ hasty : Len(ran[r]) <= Cardinality(Spent(r))

-----------------------------------------------------------------------------
(* Sequences *)

LEMMA AppendFacts ==
  ASSUME NEW T, NEW s \in Seq(T), NEW x \in T
  PROVE  /\ Append(s, x) \in Seq(T) /\ Append(s, x) # <<>>
         /\ Range(Append(s, x)) = Range(s) \cup {x}
         /\ s # <<>> => Head(Append(s, x)) = Head(s)
         /\ IsInjective(s) /\ x \notin Range(s) => IsInjective(Append(s, x))
         /\ \A i \in DOMAIN Append(s, x) :
              Append(s, x)[i] = x \/ (i \in DOMAIN s /\ Append(s, x)[i] = s[i])
<1>1. /\ DOMAIN Append(s, x) = 1 .. Len(s) + 1 /\ Len(s) \in Nat /\ DOMAIN s = 1 .. Len(s)
      /\ \A i \in 1 .. Len(s) + 1 : Append(s, x)[i] = IF i <= Len(s) THEN s[i] ELSE x
  OBVIOUS
<1>2. Range(Append(s, x)) = Range(s) \cup {x}
  BY <1>1 DEF Range
<1>3. IsInjective(s) /\ x \notin Range(s) => IsInjective(Append(s, x))
  BY <1>1 DEF Range, IsInjective
<1>4. Append(s, x) \in Seq(T) /\ Append(s, x) # <<>>
  <2>1. Append(s, x) \in Seq(T)
    OBVIOUS
  <2>2. Len(Append(s, x)) = Len(s) + 1 /\ Len(<<>>) = 0
    OBVIOUS
  <2> QED
    BY <1>1, <2>1, <2>2
<1>5. ASSUME s # <<>> PROVE Head(Append(s, x)) = Head(s)
  <2>1. Len(s) >= 1 /\ Head(s) = s[1]
    BY <1>5
  <2>2. Head(Append(s, x)) = Append(s, x)[1]
    BY <1>4
  <2> QED
    BY <1>1, <2>1, <2>2
<1>6. \A i \in DOMAIN Append(s, x) :
         Append(s, x)[i] = x \/ (i \in DOMAIN s /\ Append(s, x)[i] = s[i])
  <2> TAKE i \in DOMAIN Append(s, x)
  <2>1. i \in 1 .. Len(s) + 1 /\ Append(s, x)[i] = IF i <= Len(s) THEN s[i] ELSE x
    BY <1>1
  <2>2. CASE i <= Len(s)
    <3>1. i \in 1 .. Len(s)
      BY <1>1, <2>1, <2>2
    <3> QED
      BY <1>1, <2>1, <2>2, <3>1
  <2>3. CASE ~(i <= Len(s))
    BY <2>1, <2>3
  <2> QED
    BY <2>2, <2>3
<1> QED
  BY <1>2, <1>3, <1>4, <1>5, <1>6

LEMMA TailFacts ==
  ASSUME NEW T, NEW s \in Seq(T), s # <<>>
  PROVE  /\ Tail(s) \in Seq(T) /\ Head(s) \in T /\ Head(s) \in Range(s)
         /\ Range(Tail(s)) \subseteq Range(s)
         /\ IsInjective(s) => IsInjective(Tail(s)) /\ Head(s) \notin Range(Tail(s))
<1>1. /\ Len(s) \in Nat \ {0} /\ DOMAIN s = 1 .. Len(s) /\ Head(s) = s[1]
      /\ DOMAIN Tail(s) = 1 .. Len(s) - 1
      /\ \A i \in 1 .. Len(s) - 1 : Tail(s)[i] = s[i + 1] /\ i + 1 \in DOMAIN s
  OBVIOUS
<1>2. Range(Tail(s)) \subseteq Range(s) /\ Head(s) \in Range(s)
  BY <1>1 DEF Range
<1>3. IsInjective(s) => IsInjective(Tail(s)) /\ Head(s) \notin Range(Tail(s))
  BY <1>1 DEF Range, IsInjective
<1> QED
  BY <1>2, <1>3

LEMMA QueuedCalls == TypeOK => Range(queue) \subseteq Calls /\ \A c \in Calls : Req[c] \in Requests
  BY ClientAssumption DEF TypeOK, Range

-----------------------------------------------------------------------------
(* What a step may do to each part *)

\* Nobody becomes pending.
LEMMA AloneStays ==
  ASSUME ClientInv, \A c \in Calls : Pending(c)' => Pending(c), hasty \subseteq hasty'
  PROVE  Alone'
  BY DEF ClientInv, Orderly, Alone

\* A call moves on, and the entity stays as it is.
LEMMA CallerMoves ==
  ASSUME ClientInv, NEW c \in Calls, UNCHANGED <<stage, effect, queue, open, life, cache, ran>>,
         hasty \subseteq hasty', NEW s, at' = [at EXCEPT ![c] = s],
         s = "over" \/ ~Running \/ c \notin Range(queue)
  PROVE  QueueInv' /\ RanInv'
<1>1. QueueInv'
  BY QueuedCalls DEF ClientInv, Orderly, QueueInv, Running, TypeOK
<1>2. RanInv'
  BY DEF ClientInv, Orderly, RanInv, Running, InHand
<1> QED
  BY <1>1, <1>2

\* A new life begins.
LEMMA LifeBegins ==
  ASSUME ClientInv, stage' = "new", effect' = "none", queue' = <<>>, life' = life + 1,
         UNCHANGED ran, hasty \subseteq hasty'
  PROVE  QueueInv' /\ RanInv'
<1>1. QueueInv'
  BY DEF QueueInv, Range, IsInjective
<1>2. ASSUME NEW r \in Requests
      PROVE  /\ \A i \in DOMAIN ran[r] : ran[r][i] <= life + 1
             /\ life + 1 \notin Range(ran[r])
  <2>1. \A i \in DOMAIN ran[r] : ran[r][i] <= life /\ ran[r][i] \in Nat
    BY DEF ClientInv, Orderly, RanInv, TypeOK
  <2> QED
    BY <2>1 DEF ClientInv, TypeOK, Range
<1>3. RanInv'
  BY <1>2 DEF ClientInv, Orderly, RanInv
<1> QED
  BY <1>1, <1>3

-----------------------------------------------------------------------------
(* The callers *)

\* Where a delivered update leaves its call: accepted, or at its end.
Settles(c, what) ==
  /\ UNCHANGED entity
  /\ \/ at[c] = "sent" /\ Returns(c, what)
     \/ at[c] = "adrift" /\ at' = [at EXCEPT ![c] = "over"] /\ UNCHANGED <<tries, out>>

LEMMA DeliverCases ==
  ASSUME TypeOK, NEW c \in Calls, Deliver(c)
  PROVE  /\ at[c] \in {"sent", "adrift"}
         /\ UNCHANGED <<life, creates, asked, cache, history>>
         /\ \/ /\ cache[Req[c]] = "none" /\ L!Accept(c) /\ UNCHANGED <<tries, out>>
               /\ \E s \in {"open", "over"} :
                    at' = [at EXCEPT ![c] = s] /\ (s = "over" => at[c] = "adrift")
            \/ \E what \in Outcomes :
                 Settles(c, what) /\ (what = "done" => cache[Req[c]] = "done")
<1>1. at[c] \in {"sent", "adrift"} /\ UNCHANGED <<life, creates, asked, cache, history>>
  BY DEF Deliver, Hears
<1>2. /\ cache[Req[c]] \in Outcomes
      /\ {"refused", "invalid", "not_found"} \subseteq Outcomes
  BY ClientAssumption DEF TypeOK, Outcomes
<1>3. \A what : Hears(c, what) => Settles(c, what)
  BY DEF Hears, Settles
<1>4. CASE \E what \in {"invalid", "refused", "not_found", cache[Req[c]]} : Hears(c, what)
  BY <1>1, <1>2, <1>3, <1>4
<1>5. CASE /\ cache[Req[c]] = "none" /\ L!Accept(c) /\ UNCHANGED <<tries, out>>
           /\ at' = [at EXCEPT ![c] = IF @ = "sent" THEN "open" ELSE "over"]
  <2>1. CASE at[c] = "sent"
    <3>1. at' = [at EXCEPT ![c] = "open"]
      BY <1>5, <2>1
    <3> QED
      BY <1>1, <1>5, <3>1
  <2>2. CASE at[c] = "adrift"
    <3>1. at' = [at EXCEPT ![c] = "over"]
      BY <1>5, <2>2
    <3> QED
      BY <1>1, <1>5, <2>2, <3>1
  <2> QED
    BY <1>1, <2>1, <2>2
<1> QED
  BY <1>4, <1>5 DEF Deliver

LEMMA CallCases ==
  ASSUME TypeOK, NEW c \in Calls, Call(c)
  PROVE  /\ at[c] = "idle" /\ Send(c) /\ hasty \subseteq hasty' /\ hasty' \subseteq Requests
         /\ Req[c] \notin hasty' => \A d \in Calls : Req[d] = Req[c] => ~Pending(d)
BY ClientAssumption DEF Call, TypeOK

LEMMA TypeKept == TypeOK /\ Busy /\ Untried /\ [Next]_vars => TypeOK' /\ Untried'
<1> SUFFICES ASSUME TypeOK, Busy, Untried, [Next]_vars PROVE TypeOK' /\ Untried'
  OBVIOUS
<1> DEFINE EntityTypeOK ==
      /\ stage \in {"new", "creating", "ready", "deleting", "over"}
      /\ effect \in {"none", "init", "command", "tick", "finalize"}
      /\ queue \in Seq(Calls) /\ open \subseteq Calls
<1> DEFINE CallerTypeOK ==
      /\ at \in [Calls -> {"idle", "sent", "adrift", "open", "backoff", "over"}]
      /\ tries \in [Calls -> 0 .. MaxAttempts]
      /\ out \in [Calls -> Outcomes]
<1> DEFINE RecordTypeOK ==
      /\ life \in Nat /\ creates \in 0 .. Creations /\ asked \in BOOLEAN
      /\ cache \in [Requests -> {"none", "done", "refused"}]
      /\ ran \in [Requests -> Seq(Nat)] /\ hasty \subseteq Requests
<1>a. EntityTypeOK /\ CallerTypeOK /\ RecordTypeOK
  BY DEF TypeOK
<1>b. EntityTypeOK' /\ CallerTypeOK' /\ RecordTypeOK' => TypeOK'
  BY DEF TypeOK
<1>1. ASSUME StartOrAttach
      PROVE  EntityTypeOK' /\ life' \in Nat /\ asked' \in BOOLEAN
             /\ cache' \in [Requests -> {"none", "done", "refused"}]
  <2>1. CASE Running
    BY <1>1, <2>1, <1>a DEF StartOrAttach, entity
  <2>2. CASE ~Running
    <3>1. /\ stage' = "new" /\ effect' = "none" /\ queue' = <<>> /\ open' = {}
          /\ life' = life + 1 /\ asked' = FALSE /\ cache' = [r \in Requests |-> "none"]
      BY <1>1, <2>2 DEF StartOrAttach
    <3>2. EntityTypeOK'
      BY <3>1
    <3>3. cache' \in [Requests -> {"none", "done", "refused"}]
      BY <3>1
    <3>4. life' \in Nat
      BY <3>1, <1>a
    <3>5. asked' \in BOOLEAN
      BY <3>1
    <3> QED
      BY <3>2, <3>3, <3>4, <3>5
  <2> QED
    BY <2>1, <2>2
<1>2. CASE CreateOrAttach
  BY <1>1, <1>2, <1>a, <1>b, ClientAssumption DEF CreateOrAttach, client, history, Untried
<1>3. CASE Delete
  BY <1>3, <1>a, <1>b DEF Delete, entity, client, history, Untried
<1>4. ASSUME NEW c \in Calls, Send(c), tries[c] < MaxAttempts, hasty' \subseteq Requests
      PROVE  TypeOK' /\ Untried'
  <2>1. EntityTypeOK' /\ RecordTypeOK'
    BY <1>1, <1>4, <1>a DEF Send, entity
  <2>2. CallerTypeOK'
    BY <1>4, <1>a, ClientAssumption DEF Send
  <2>3. Untried'
    BY <1>4, <1>a DEF Send, Untried
  <2> QED
    BY <2>1, <2>2, <2>3, <1>b
<1>5. ASSUME NEW c \in Calls, NEW what \in Outcomes, Returns(c, what)
      PROVE CallerTypeOK' /\ Untried'
  BY <1>5, <1>a DEF Returns, Untried
<1>6. ASSUME NEW c \in Calls, NEW s \in {"open", "backoff", "over"}, at' = [at EXCEPT ![c] = s],
             UNCHANGED <<tries, out>>
      PROVE CallerTypeOK' /\ Untried'
  BY <1>6, <1>a DEF Untried
<1>7. UNCHANGED client => CallerTypeOK' /\ Untried'
  BY <1>a DEF client, Untried
<1>8. UNCHANGED entity => EntityTypeOK'
  BY <1>a DEF entity
<1>9. \A r \in Requests : cache[r] \in Outcomes
  BY <1>a DEF Outcomes
<1>10. {"refused", "invalid", "not_found", "race", "timeout"} \subseteq Outcomes
  BY DEF Outcomes
<1>11. \A c \in Calls : Req[c] \in Requests
  BY ClientAssumption
<1>12. ASSUME NEW c \in Calls, L!Accept(c) PROVE EntityTypeOK'
  BY <1>12, <1>a, AppendFacts DEF L!Accept
<1>13. ASSUME NEW what \in {"done", "refused"}, queue # <<>>, Record(what)
       PROVE  cache' \in [Requests -> {"none", "done", "refused"}]
  <2>1. Head(queue) \in Calls
    BY <1>13, <1>a, TailFacts
  <2> QED
    BY <1>13, <2>1, <1>11, <1>a DEF Record
<1> HIDE DEF EntityTypeOK, CallerTypeOK
<1>14. ASSUME NEW c \in Calls, Call(c) \/ Deliver(c) \/ Answer(c) \/ Raced(c) \/ Retry(c) \/ Timeout(c)
       PROVE  TypeOK' /\ Untried'
  <2>1. CASE Call(c)
    <3>1. tries[c] < MaxAttempts
      BY <2>1, ClientAssumption DEF Call, Untried
    <3> QED
      BY <2>1, <3>1, <1>4, CallCases
  <2>2. CASE Deliver(c)
    <3>1. ASSUME L!Accept(c), UNCHANGED <<tries, out>>,
                 NEW s \in {"open", "over"}, at' = [at EXCEPT ![c] = s]
          PROVE  EntityTypeOK' /\ CallerTypeOK' /\ Untried'
      BY <3>1, <1>6, <1>12
    <3>2. ASSUME NEW what \in Outcomes, Settles(c, what)
          PROVE  EntityTypeOK' /\ CallerTypeOK' /\ Untried'
      BY <3>2, <1>5, <1>6, <1>8 DEF Settles
    <3>3. EntityTypeOK' /\ CallerTypeOK' /\ Untried' /\ UNCHANGED <<life, creates, asked, cache, history>>
      BY <2>2, <3>1, <3>2, DeliverCases
    <3> QED
      BY <3>3, <1>a, <1>b DEF history
  <2>3. CASE Answer(c)
    <3>1. EntityTypeOK'
      BY <2>3, <1>a DEF Answer, L!Answer, EntityTypeOK
    <3>2. CallerTypeOK' /\ Untried'
      BY <2>3, <1>5, <1>7, <1>9, <1>11 DEF Answer
    <3> QED
      BY <2>3, <3>1, <3>2, <1>a, <1>b DEF Answer, history
  <2>4. CASE Raced(c)
    BY <2>4, <1>5, <1>6, <1>8, <1>10, <1>a, <1>b DEF Raced, history
  <2>5. CASE Retry(c)
    BY <2>5, <1>4, <1>5, <1>8, <1>10, <1>a, <1>b DEF Retry, history
  <2>6. CASE Timeout(c)
    <3>1. ASSUME Returns(c, "timeout") PROVE CallerTypeOK' /\ Untried'
      BY <3>1, <1>5, <1>10
    <3>2. ASSUME at' = [at EXCEPT ![c] = "adrift"], out' = [out EXCEPT ![c] = "timeout"], UNCHANGED tries
          PROVE  CallerTypeOK' /\ Untried'
      BY <3>2, <1>10, <1>a DEF CallerTypeOK, Untried
    <3>3. CallerTypeOK' /\ Untried' /\ UNCHANGED <<entity, life, creates, asked, cache, history>>
      BY <2>6, <3>1, <3>2 DEF Timeout
    <3> QED
      BY <3>3, <1>8, <1>a, <1>b DEF history
  <2> QED
    BY <1>14, <2>1, <2>2, <2>3, <2>4, <2>5, <2>6
<1> USE DEF EntityTypeOK
<1>15. CASE Proceed
  <2>1. EntityTypeOK'
    BY <1>15, <1>a DEF Proceed, L!Create, L!Created, L!CreationAborted, L!Tick, L!Ticked,
       L!BeginDeletion, L!Finalize, L!Starts
  <2> QED
    BY <1>15, <2>1, <1>7, <1>a, <1>b DEF Proceed, history
<1>16. CASE Execute
  <2>1. EntityTypeOK'
    <3>1. Tail(queue) \in Seq(Calls)
      BY <1>16, <1>a, TailFacts DEF Execute
    <3> QED
      BY <1>16, <3>1, <1>a DEF Execute, L!Execute, L!Starts, L!Relabel
  <2>2. cache' \in [Requests -> {"none", "done", "refused"}]
    BY <1>16, <1>13, <1>a DEF Execute
  <2>3. ran' \in [Requests -> Seq(Nat)]
    BY <1>16, <1>a, AppendFacts DEF Execute
  <2> QED
    BY <1>16, <2>1, <2>2, <2>3, <1>7, <1>a, <1>b DEF Execute
<1>17. CASE Executed \/ Refuse
  <2>1. queue # <<>>
    BY <1>17 DEF Executed, Refuse, L!Executed, L!Refuse, Busy
  <2>2. EntityTypeOK'
    <3>1. Tail(queue) \in Seq(Calls)
      BY <2>1, <1>a, TailFacts
    <3> QED
      BY <1>17, <3>1, <1>a DEF Executed, Refuse, L!Executed, L!Refuse
  <2>3. cache' \in [Requests -> {"none", "done", "refused"}]
    BY <1>17, <2>1, <1>13 DEF Executed, Refuse
  <2> QED
    BY <1>17, <2>2, <2>3, <1>7, <1>a, <1>b DEF Executed, Refuse, history
<1>18. CASE ContinueAsNew
  BY <1>18, <1>7, <1>8, <1>a, <1>b DEF ContinueAsNew, history
<1>19. CASE End
  BY <1>19, <1>7, <1>a, <1>b DEF End, L!End, history
<1>20. CASE UNCHANGED vars
  BY <1>20, <1>7, <1>8, <1>a, <1>b DEF vars, history
<1> QED
  BY <1>2, <1>3, <1>14, <1>15, <1>16, <1>17, <1>18, <1>19, <1>20 DEF Next

-----------------------------------------------------------------------------
(* The entity's order, step by step *)

\* StartOrAttach leaves a running entity alone, or begins a life.
LEMMA StartKeeps ==
  ASSUME ClientInv, StartOrAttach, UNCHANGED ran, hasty \subseteq hasty',
         \A c \in Calls : at'[c] = at[c] \/ (at[c] \in {"idle", "backoff"} /\ at'[c] = "sent"),
         \A c \in Calls : Running /\ at'[c] # at[c] => c \notin Range(queue),
         \A c, d \in Calls :
            at[c] = "idle" /\ at'[c] # at[c] /\ Req[d] = Req[c] /\ Req[c] \notin hasty' => ~Pending(d),
         \A c, d \in Calls : at'[c] # at[c] /\ at'[d] # at[d] => c = d
  PROVE  Orderly'
<1>1. CASE Running
  <2>1. UNCHANGED <<stage, effect, queue, open, life, cache, ran>>
    BY <1>1 DEF StartOrAttach, entity
  <2>2. Busy'
    BY <2>1 DEF ClientInv, Orderly, Busy
  <2>3. QueueInv'
    BY <2>1, <1>1, QueuedCalls DEF ClientInv, Orderly, QueueInv, Running
  <2>4. RanInv'
    BY <2>1 DEF ClientInv, Orderly, RanInv, Running, InHand
  <2>5. Alone'
    BY <2>1 DEF ClientInv, Orderly, Alone, Pending, Running
  <2> QED
    BY <2>2, <2>3, <2>4, <2>5 DEF Orderly
<1>2. CASE ~Running
  <2>1. stage' = "new" /\ effect' = "none" /\ queue' = <<>> /\ life' = life + 1
    BY <1>2 DEF StartOrAttach
  <2>2. QueueInv' /\ RanInv'
    BY <2>1, LifeBegins
  <2>3. Busy'
    BY <2>1 DEF Busy
  <2>4. Range(queue') = {}
    BY <2>1 DEF Range
  <2>5. Alone'
    BY <2>4 DEF ClientInv, Orderly, Alone, Pending
  <2> QED
    BY <2>2, <2>3, <2>5 DEF Orderly
<1> QED
  BY <1>1, <1>2

LEMMA SendKeeps ==
  ASSUME ClientInv, NEW c \in Calls, Send(c), hasty \subseteq hasty',
         \/ at[c] = "backoff"
         \/ at[c] = "idle" /\ (Req[c] \notin hasty' => \A d \in Calls : Req[d] = Req[c] => ~Pending(d))
  PROVE  Orderly'
<1>1. at' = [at EXCEPT ![c] = "sent"] /\ at \in [Calls -> {"idle", "sent", "adrift", "open", "backoff", "over"}]
  BY DEF Send, ClientInv, TypeOK
<1>2. Running => c \notin Range(queue)
  BY DEF ClientInv, Orderly, QueueInv
<1>3. \A d \in Calls : at'[d] = at[d] \/ (d = c /\ at'[d] = "sent")
  BY <1>1
<1>4. UNCHANGED ran
  BY DEF Send
<1>5. \A d, e \in Calls :
        at[d] = "idle" /\ at'[d] # at[d] /\ Req[e] = Req[d] /\ Req[d] \notin hasty' => ~Pending(e)
  BY <1>3
<1>6. CASE StartOrAttach
  <2>1. /\ \A d \in Calls : at'[d] = at[d] \/ (at[d] \in {"idle", "backoff"} /\ at'[d] = "sent")
        /\ \A d \in Calls : Running /\ at'[d] # at[d] => d \notin Range(queue)
        /\ \A d, e \in Calls : at'[d] # at[d] /\ at'[e] # at[e] => d = e
    BY <1>2, <1>3
  <2> QED
    BY <1>4, <1>5, <1>6, <2>1, StartKeeps
<1>7. CASE UNCHANGED <<entity, life, asked, cache>>
  <2>1. QueueInv' /\ RanInv'
    BY <1>1, <1>2, <1>4, <1>7, CallerMoves DEF entity
  <2>2. Busy'
    BY <1>7 DEF ClientInv, Orderly, Busy, entity
  <2>3. Alone'
    BY <1>3, <1>5, <1>7 DEF ClientInv, Orderly, Alone, Pending, Running, entity
  <2> QED
    BY <2>1, <2>2, <2>3 DEF Orderly
<1> QED
  BY <1>6, <1>7 DEF Send

\* A call rests or returns.
LEMMA HaltKeeps ==
  ASSUME ClientInv, NEW c \in Calls, UNCHANGED <<entity, life, cache, history>>,
         \/ at' = [at EXCEPT ![c] = "over"]
         \/ at[c] = "sent" /\ at' = [at EXCEPT ![c] = "adrift"]
         \/ Raced(c)
  PROVE  Orderly'
<1>1. \E s \in {"over", "adrift", "backoff"} :
         /\ at' = [at EXCEPT ![c] = s]
         /\ s = "adrift" => at[c] = "sent"
         /\ s = "backoff" => at[c] = "open" /\ c \notin open
  BY DEF Raced, Returns
<1>2. Running /\ c \in Range(queue) => at[c] \in {"open", "over"} /\ (at[c] = "open" => c \in open)
  BY DEF ClientInv, Orderly, QueueInv
<1>3. QueueInv' /\ RanInv'
  BY <1>1, <1>2, CallerMoves DEF entity, history
<1>4. Busy'
  BY DEF ClientInv, Orderly, Busy, entity
<1>5. \A d \in Calls : Pending(d)' => Pending(d)
  <2>1. at \in [Calls -> {"idle", "sent", "adrift", "open", "backoff", "over"}]
    BY DEF ClientInv, TypeOK
  <2> QED
    BY <1>1, <2>1 DEF Pending, Running, entity
<1> QED
  BY <1>3, <1>4, <1>5, AloneStays DEF Orderly, history

LEMMA AcceptKeeps ==
  ASSUME ClientInv, NEW c \in Calls, at[c] \in {"sent", "adrift"}, cache[Req[c]] = "none", L!Accept(c),
         NEW s \in {"open", "over"}, at' = [at EXCEPT ![c] = s], UNCHANGED <<life, cache, history>>
  PROVE  Orderly'
<1>1. /\ queue \in Seq(Calls) /\ at \in [Calls -> {"idle", "sent", "adrift", "open", "backoff", "over"}]
      /\ Running /\ Running' /\ UNCHANGED <<stage, effect>>
      /\ queue' = Append(queue, c) /\ open' = open \cup {c}
  BY DEF L!Accept, Running, ClientInv, TypeOK
<1>2. c \notin Range(queue) /\ Range(queue) \subseteq Calls
  BY <1>1, QueuedCalls DEF ClientInv, Orderly, QueueInv
<1>3. /\ Range(queue') = Range(queue) \cup {c} /\ queue' # <<>>
      /\ queue # <<>> => Head(queue') = Head(queue)
      /\ IsInjective(queue) => IsInjective(queue')
  BY <1>1, <1>2, AppendFacts
<1>4. Busy'
  BY <1>1, <1>3 DEF ClientInv, Orderly, Busy
<1>5. QueueInv'
  BY <1>1, <1>2, <1>3 DEF ClientInv, Orderly, QueueInv, history
<1>6. RanInv'
  BY <1>1, <1>3 DEF ClientInv, Orderly, RanInv, InHand, history
<1>7. \A d \in Calls : Pending(d)' => Pending(d)
  BY <1>1, <1>3 DEF Pending
<1> QED
  BY <1>4, <1>5, <1>6, <1>7, AloneStays DEF Orderly, history

LEMMA AnswerKeeps ==
  ASSUME ClientInv, NEW c \in Calls, Answer(c)
  PROVE  Orderly'
<1>1. /\ UNCHANGED <<stage, effect, queue, life, cache, ran, hasty>>
      /\ open' = open \ {c} /\ cache[Req[c]] # "none"
      /\ (at[c] # "open" /\ at' = at) \/ at' = [at EXCEPT ![c] = "over"]
      /\ at \in [Calls -> {"idle", "sent", "adrift", "open", "backoff", "over"}]
  BY DEF Answer, L!Answer, Returns, client, history, ClientInv, TypeOK
<1>2. Range(queue) \subseteq Calls
  BY QueuedCalls DEF ClientInv
<1>3. Busy'
  BY <1>1 DEF ClientInv, Orderly, Busy
<1>4. QueueInv'
  BY <1>1, <1>2 DEF ClientInv, Orderly, QueueInv, Running
<1>5. RanInv'
  BY <1>1 DEF ClientInv, Orderly, RanInv, Running, InHand
<1>6. \A d \in Calls : Pending(d)' => Pending(d)
  BY <1>1 DEF Pending, Running
<1> QED
  BY <1>1, <1>3, <1>4, <1>5, <1>6, AloneStays DEF Orderly

LEMMA ProceedKeeps ==
  ASSUME ClientInv, Proceed
  PROVE  Orderly'
<1>1. /\ UNCHANGED <<queue, open, at, life, cache, ran, hasty>>
      /\ (stage' = "over") = (stage = "over") /\ effect' # "command"
      /\ effect # "command"
  BY DEF Proceed, L!Create, L!Created, L!CreationAborted, L!Tick, L!Ticked, L!BeginDeletion,
     L!Finalize, L!Starts, client, history, ClientInv, Orderly, Busy
<1>2. Busy'
  BY <1>1 DEF Busy
<1>3. QueueInv'
  BY <1>1 DEF ClientInv, Orderly, QueueInv, Running
<1>4. RanInv'
  BY <1>1 DEF ClientInv, Orderly, RanInv, Running, InHand
<1>5. \A d \in Calls : Pending(d)' => Pending(d)
  BY <1>1 DEF Pending, Running
<1> QED
  BY <1>1, <1>2, <1>3, <1>4, <1>5, AloneStays DEF Orderly

\* The head of the queue goes, and its outcome is recorded.
LEMMA RecordKeeps ==
  ASSUME ClientInv, Running, queue # <<>>, queue' = Tail(queue), stage' = stage,
         effect' # "command", UNCHANGED <<open, at, life, hasty>>,
         NEW what \in {"done", "refused"}, Record(what),
         \A r \in Requests :
            /\ r \notin hasty => IsInjective(ran'[r])
            /\ \A i \in DOMAIN ran'[r] : ran'[r][i] <= life
            /\ life \in Range(ran'[r]) => life \in Range(ran[r]) \/ r = Req[Head(queue)]
  PROVE  Orderly'
<1>1. queue \in Seq(Calls) /\ cache \in [Requests -> {"none", "done", "refused"}] /\ Running'
  BY DEF ClientInv, TypeOK, Running
<1>2. /\ Head(queue) \in Calls /\ Head(queue) \in Range(queue)
      /\ Range(queue') \subseteq Range(queue)
      /\ IsInjective(queue) => IsInjective(queue') /\ Head(queue) \notin Range(queue')
  BY <1>1, TailFacts
<1>3. Range(queue) \subseteq Calls /\ \A c \in Calls : Req[c] \in Requests
  BY QueuedCalls DEF ClientInv
<1>4. \A c \in Range(queue') : Req[c] \notin hasty => Req[c] # Req[Head(queue)]
  <2>1. \A c \in Range(queue) : c \in Calls /\ Pending(c)
    BY <1>3 DEF Pending
  <2> QED
    BY <1>2, <2>1 DEF ClientInv, Orderly, Alone, QueueInv
<1>5. Busy'
  BY DEF Busy
<1>6. QueueInv'
  BY <1>1, <1>2, <1>3, <1>4 DEF ClientInv, Orderly, QueueInv, Record
<1>7. RanInv'
  BY <1>1, <1>2, <1>3 DEF ClientInv, Orderly, RanInv, InHand, Record
<1>8. \A d \in Calls : Pending(d)' => Pending(d)
  BY <1>1, <1>2 DEF Pending
<1> QED
  BY <1>5, <1>6, <1>7, <1>8, AloneStays DEF Orderly

LEMMA ExecuteKeeps ==
  ASSUME ClientInv, Execute
  PROVE  Orderly'
<1> DEFINE r == Req[Head(queue)]
<1>1. /\ queue # <<>> /\ queue \in Seq(Calls) /\ Running /\ effect = "none" /\ life \in Nat
      /\ ran \in [Requests -> Seq(Nat)] /\ ran' = [ran EXCEPT ![r] = Append(@, life)]
      /\ UNCHANGED <<stage, open, at, life, hasty>>
  BY DEF Execute, L!Execute, L!Starts, L!Relabel, Running, client, ClientInv, TypeOK
<1>2. Head(queue) \in Range(queue) /\ Head(queue) \in Calls /\ r \in Requests
  BY <1>1, TailFacts, QueuedCalls DEF ClientInv
<1>3. r \notin hasty => life \notin Range(ran[r])
  BY <1>1, <1>2 DEF ClientInv, Orderly, QueueInv, RanInv, InHand
<1>4. /\ r \notin hasty => IsInjective(ran'[r])
      /\ \A i \in DOMAIN ran'[r] : ran'[r][i] = life \/ (i \in DOMAIN ran[r] /\ ran'[r][i] = ran[r][i])
  <2>1. ran'[r] = Append(ran[r], life) /\ ran[r] \in Seq(Nat) /\ (r \notin hasty => IsInjective(ran[r]))
    BY <1>1, <1>2 DEF ClientInv, Orderly, RanInv
  <2>2. r \notin hasty => IsInjective(ran'[r])
    BY <1>1, <1>3, <2>1, AppendFacts
  <2> HIDE DEF r
  <2>3. \A i \in DOMAIN Append(ran[r], life) :
           \/ Append(ran[r], life)[i] = life
           \/ i \in DOMAIN ran[r] /\ Append(ran[r], life)[i] = ran[r][i]
    BY <1>1, <2>1, AppendFacts
  <2> QED
    BY <2>1, <2>2, <2>3
<1>5. \A q \in Requests : q # r => ran'[q] = ran[q]
  BY <1>1
<1> HIDE DEF r
<1>6. \A q \in Requests :
         /\ q \notin hasty => IsInjective(ran'[q])
         /\ \A i \in DOMAIN ran'[q] : ran'[q][i] <= life
         /\ life \in Range(ran'[q]) => life \in Range(ran[q]) \/ q = r
  BY <1>1, <1>4, <1>5 DEF ClientInv, Orderly, RanInv
<1>7. CASE L!Relabel /\ Record("done")
  <2>1. queue' = Tail(queue) /\ effect' # "command"
    BY <1>1, <1>7 DEF L!Relabel
  <2> QED
    BY <1>1, <1>6, <1>7, <2>1, RecordKeeps DEF r
<1>8. CASE L!Execute /\ UNCHANGED cache
  <2>1. effect' = "command" /\ stage = "ready" /\ UNCHANGED queue
    BY <1>8 DEF L!Execute, L!Starts
  <2>2. Busy'
    BY <1>1, <2>1 DEF Busy
  <2>3. QueueInv'
    BY <1>1, <1>8, <2>1 DEF ClientInv, Orderly, QueueInv, Running
  <2>4. RanInv'
    BY <1>1, <1>6, <1>8, <2>1 DEF ClientInv, Orderly, RanInv, InHand, Running, r
  <2>5. \A d \in Calls : Pending(d)' => Pending(d)
    BY <1>1, <2>1 DEF Pending, Running
  <2> QED
    BY <1>1, <2>2, <2>3, <2>4, <2>5, AloneStays DEF Orderly
<1> QED
  BY <1>7, <1>8 DEF Execute

LEMMA OutcomeKeeps ==
  ASSUME ClientInv, Executed \/ Refuse
  PROVE  Orderly'
<1>1. /\ queue # <<>> /\ Running /\ queue' = Tail(queue)
      /\ UNCHANGED <<stage, open, at, life, ran, hasty>>
      /\ effect' # "command"
  BY DEF Executed, Refuse, L!Executed, L!Refuse, Running, client, history, ClientInv, Orderly, Busy
<1>2. \A r \in Requests :
         /\ r \notin hasty => IsInjective(ran'[r])
         /\ \A i \in DOMAIN ran'[r] : ran'[r][i] <= life
         /\ life \in Range(ran'[r]) => life \in Range(ran[r])
  BY <1>1 DEF ClientInv, Orderly, RanInv
<1>3. Record("done") \/ Record("refused")
  BY DEF Executed, Refuse
<1> QED
  BY <1>1, <1>2, <1>3, RecordKeeps

-----------------------------------------------------------------------------
LEMMA ClientStarts == Init => ClientInv
<1> SUFFICES ASSUME Init PROVE ClientInv
  OBVIOUS
<1>1. TypeOK
  <2>1. queue \in Seq(Calls) /\ ran \in [Requests -> Seq(Nat)]
    <3>1. <<>> \in Seq(Calls) /\ <<>> \in Seq(Nat)
      OBVIOUS
    <3> QED
      BY <3>1 DEF Init
  <2>2. life \in Nat /\ creates \in 0 .. Creations /\ tries \in [Calls -> 0 .. MaxAttempts]
    BY ClientAssumption DEF Init
  <2>3. /\ cache \in [Requests -> {"none", "done", "refused"}]
        /\ at \in [Calls -> {"idle", "sent", "adrift", "open", "backoff", "over"}]
        /\ out \in [Calls -> Outcomes]
    BY DEF Init, Outcomes
  <2>4. /\ stage \in {"new", "creating", "ready", "deleting", "over"}
        /\ effect \in {"none", "init", "command", "tick", "finalize"}
        /\ open \subseteq Calls /\ asked \in BOOLEAN /\ hasty \subseteq Requests
    BY DEF Init
  <2> QED
    BY <2>1, <2>2, <2>3, <2>4 DEF TypeOK
<1>2. Untried /\ Busy
  BY DEF Init, Untried, Busy
<1>3. QueueInv /\ Alone
  BY DEF Init, QueueInv, Running, Alone, Pending
<1>4. RanInv
  BY DEF Init, RanInv, Running, Range, IsInjective
<1> QED
  BY <1>1, <1>2, <1>3, <1>4 DEF ClientInv, Orderly

LEMMA ClientKeeps == ClientInv /\ [Next]_vars => ClientInv'
<1> SUFFICES ASSUME ClientInv, [Next]_vars PROVE ClientInv'
  OBVIOUS
<1>1. TypeOK' /\ Untried'
  BY TypeKept DEF ClientInv, Orderly
<1>2. ASSUME CreateOrAttach PROVE Orderly'
  <2>1. UNCHANGED <<ran, hasty, at>> /\ StartOrAttach
    BY <1>2 DEF CreateOrAttach, client, history
  <2> QED
    BY <2>1, StartKeeps
<1>3. ASSUME UNCHANGED <<stage, effect, queue, life, cache, ran, hasty, at, open>> PROVE Orderly'
  <2>1. Busy'
    BY <1>3 DEF ClientInv, Orderly, Busy
  <2>2. QueueInv'
    BY <1>3 DEF ClientInv, Orderly, QueueInv, Running
  <2>3. RanInv'
    BY <1>3 DEF ClientInv, Orderly, RanInv, Running, InHand
  <2>4. Alone'
    BY <1>3 DEF ClientInv, Orderly, Alone, Pending, Running
  <2> QED
    BY <2>1, <2>2, <2>3, <2>4 DEF Orderly
<1>4. ASSUME Delete \/ ContinueAsNew \/ UNCHANGED vars PROVE Orderly'
  BY <1>3, <1>4 DEF Delete, ContinueAsNew, vars, entity, client, history
<1>5. ASSUME NEW c \in Calls, Call(c) \/ Deliver(c) \/ Answer(c) \/ Raced(c) \/ Retry(c) \/ Timeout(c)
      PROVE  Orderly'
  <2>1. ASSUME NEW what, Returns(c, what), UNCHANGED <<entity, life, cache, history>> PROVE Orderly'
    <3>1. at' = [at EXCEPT ![c] = "over"]
      BY <2>1 DEF Returns
    <3> QED
      BY <2>1, <3>1, HaltKeeps
  <2>2. CASE Call(c)
    <3>1. /\ Send(c) /\ hasty \subseteq hasty' /\ at[c] = "idle"
          /\ Req[c] \notin hasty' => \A d \in Calls : Req[d] = Req[c] => ~Pending(d)
      BY <2>2, CallCases DEF ClientInv
    <3> QED
      BY <3>1, SendKeeps
  <2>3. CASE Deliver(c)
    <3>1. at[c] \in {"sent", "adrift"} /\ UNCHANGED <<life, cache, history>>
      BY <2>3, DeliverCases DEF ClientInv
    <3>2. CASE /\ cache[Req[c]] = "none" /\ L!Accept(c)
               /\ \E s \in {"open", "over"} : at' = [at EXCEPT ![c] = s]
      BY <3>1, <3>2, AcceptKeeps
    <3>3. CASE \E what \in Outcomes : Settles(c, what)
      BY <3>1, <3>3, <2>1, HaltKeeps DEF Settles
    <3> QED
      BY <2>3, <3>2, <3>3, DeliverCases DEF ClientInv
  <2>4. CASE Answer(c)
    BY <2>4, AnswerKeeps
  <2>5. CASE Raced(c)
    <3>1. UNCHANGED <<entity, life, cache, history>>
      BY <2>5 DEF Raced
    <3> QED
      BY <2>5, <3>1, HaltKeeps
  <2>6. CASE Retry(c)
    <3>1. CASE Send(c) /\ UNCHANGED hasty
      BY <2>6, <3>1, SendKeeps DEF Retry
    <3>2. CASE Returns(c, "race") /\ UNCHANGED <<entity, life, creates, asked, cache, history>>
      BY <2>1, <3>2
    <3> QED
      BY <2>6, <3>1, <3>2 DEF Retry
  <2>7. CASE Timeout(c)
    <3>1. UNCHANGED <<entity, life, cache, history>>
      BY <2>7 DEF Timeout
    <3>2. at' = [at EXCEPT ![c] = "over"] \/ (at[c] = "sent" /\ at' = [at EXCEPT ![c] = "adrift"])
      BY <2>7 DEF Timeout, Returns
    <3> QED
      BY <3>1, <3>2, HaltKeeps
  <2> QED
    BY <1>5, <2>2, <2>3, <2>4, <2>5, <2>6, <2>7
<1>6. ASSUME End PROVE Orderly'
  <2>1. stage' = "over" /\ effect' = "none" /\ UNCHANGED <<queue, at, ran, hasty, life>>
    BY <1>6 DEF End, L!End, client, history
  <2>2. Busy' /\ QueueInv'
    BY <2>1 DEF Busy, QueueInv, Running
  <2>3. RanInv'
    BY <2>1 DEF ClientInv, Orderly, RanInv, Running
  <2>4. \A d \in Calls : Pending(d)' => Pending(d)
    BY <2>1 DEF Pending, Running
  <2> QED
    BY <2>1, <2>2, <2>3, <2>4, AloneStays DEF Orderly
<1>7. Orderly'
  BY <1>2, <1>4, <1>5, <1>6, ProceedKeeps, ExecuteKeeps, OutcomeKeeps DEF Next
<1> QED
  BY <1>1, <1>7 DEF ClientInv

\* The caller's side stays well formed and in order: what waits in the queue
\* was accepted once, for a caller that waits or gave up, and every life holds
\* the outcome of what it has executed of a request that was never sent again
\* while an update of it was under way.  An update whose caller gave up may
\* land at any later time.
THEOREM ClientCorrect == Spec => []ClientInv
<1>1. Init => ClientInv
  BY ClientStarts
<1>2. ClientInv /\ [Next]_vars => ClientInv'
  BY ClientKeeps
<1> QED
  BY <1>1, <1>2, PTL DEF Spec

\* The variables keep their types; withCANRetry stays within its attempts.
THEOREM ClientTypeCorrect == Spec => []TypeOK
<1>1. ClientInv => TypeOK
  BY DEF ClientInv
<1> QED
  BY <1>1, ClientCorrect, PTL

\* One life of an entity executes a request at most once, however many
\* attempts and calls carry its id, and whenever what was given up lands, if
\* no call was made while the update of an earlier one was under way.
THEOREM ExecutesOncePerLife == Spec => []OncePerLife
<1>1. ClientInv => OncePerLife
  BY DEF ClientInv, Orderly, RanInv, OncePerLife
<1> QED
  BY <1>1, ClientCorrect, PTL

-----------------------------------------------------------------------------
(* What callers are told *)

\* A request that was sent again too soon stays hasty.
LEMMA HastyGrows == [Next]_vars => hasty \subseteq hasty'
BY DEF Next, vars, CreateOrAttach, Delete, Call, Deliver, Answer, Raced, Retry, Timeout,
   Proceed, Execute, Executed, Refuse, ContinueAsNew, End, history

\* Whether a life begins or not, nobody in the queue notices.
LEMMA ReportStart ==
  ASSUME ClientInv, ReportInv, StartOrAttach \/ UNCHANGED <<entity, life, asked, cache>>,
         hasty \subseteq hasty',
         \A d \in Calls : Running /\ d \in Range(queue) => at'[d] = at[d] /\ out'[d] = out[d]
  PROVE  ReportInv'
<1>1. Range(queue) \subseteq Calls /\ Range(<<>>) = {}
  BY QueuedCalls DEF ClientInv, Range
<1>2. CASE UNCHANGED <<entity, cache>>
  BY <1>1, <1>2 DEF ReportInv, Running, entity
<1>3. CASE /\ ~Running /\ stage' = "new" /\ queue' = <<>> /\ open' = {}
           /\ cache' = [r \in Requests |-> "none"]
  BY <1>1, <1>3 DEF ReportInv, Running
<1> QED
  BY <1>2, <1>3 DEF StartOrAttach

\* A call that is queued returns only when its caller gives up.
LEMMA ReportCaller ==
  ASSUME ClientInv, ReportInv, UNCHANGED <<stage, queue, cache>>, open' \subseteq open,
         hasty \subseteq hasty',
         \A d \in Calls : Running /\ d \in Range(queue) =>
            \/ at'[d] = at[d] /\ out'[d] = out[d]
            \/ at'[d] = "over" /\ out'[d] = "timeout"
            \/ Req[d] \in hasty
  PROVE  ReportInv'
<1>1. Range(queue) \subseteq Calls
  BY QueuedCalls DEF ClientInv
<1> QED
  BY <1>1 DEF ReportInv, Running

LEMMA ReportAccept ==
  ASSUME ClientInv, ReportInv, NEW c \in Calls, L!Accept(c), UNCHANGED <<cache, hasty, out>>,
         NEW s \in {"open", "over"}, at' = [at EXCEPT ![c] = s],
         s = "over" => out[c] = "timeout"
  PROVE  ReportInv'
<1>1. /\ Running /\ Running' /\ UNCHANGED stage
      /\ queue \in Seq(Calls) /\ queue' = Append(queue, c) /\ open' = open \cup {c}
      /\ at \in [Calls -> {"idle", "sent", "adrift", "open", "backoff", "over"}]
  BY DEF L!Accept, Running, ClientInv, TypeOK
<1>2. Range(queue') = Range(queue) \cup {c} /\ Range(queue) \subseteq Calls
  BY <1>1, AppendFacts, QueuedCalls DEF ClientInv
<1> QED
  BY <1>1, <1>2 DEF ReportInv

\* A call of the queue is served: its outcome is recorded.
LEMMA ReportRecord ==
  ASSUME ClientInv, ReportInv, Running, queue # <<>>, queue' = Tail(queue),
         stage' = stage, stage \in {"ready", "deleting"}, UNCHANGED <<open, at, out, hasty>>,
         NEW what \in {"done", "refused"}, Record(what)
  PROVE  ReportInv'
<1>1. /\ queue \in Seq(Calls) /\ open \subseteq Calls
      /\ cache \in [Requests -> {"none", "done", "refused"}] /\ Running'
  BY DEF ClientInv, TypeOK, Running
<1>2. /\ Head(queue) \in Calls /\ Range(queue') \subseteq Range(queue)
      /\ Range(queue) \subseteq {Head(queue)} \cup Range(queue')
  <2>1. \A x \in Range(queue) : x = Head(queue) \/ x \in Range(Tail(queue))
    <3> SUFFICES ASSUME NEW i \in DOMAIN queue, i # 1
                 PROVE  queue[i] \in Range(Tail(queue))
      BY <1>1 DEF Range
    <3>1. i - 1 \in DOMAIN Tail(queue) /\ Tail(queue)[i - 1] = queue[i]
      BY <1>1
    <3> QED
      BY <3>1 DEF Range
  <2> QED
    BY <1>1, <2>1, TailFacts
<1>3. \A c \in Calls : Req[c] \in Requests
  BY ClientAssumption
<1>4. \A r \in Requests : cache'[r] = IF r = Req[Head(queue)] THEN what ELSE cache[r]
  BY <1>1, <1>2, <1>3 DEF Record
<1> QED
  BY <1>1, <1>2, <1>3, <1>4 DEF ReportInv

LEMMA ReportKeeps ==
  ASSUME ClientInv, ReportInv, [Next]_vars
  PROVE  ReportInv'
<1>a. hasty \subseteq hasty'
  BY HastyGrows
<1>0. /\ at \in [Calls -> {"idle", "sent", "adrift", "open", "backoff", "over"}]
      /\ out \in [Calls -> Outcomes]
      /\ Running => \A d \in Range(queue) :
           /\ at[d] \in {"open", "over"} /\ (at[d] = "open" => d \in open)
           /\ Req[d] \notin hasty => d \in open /\ cache[Req[d]] = "none"
  BY DEF ClientInv, TypeOK, Orderly, QueueInv
<1>1. CASE CreateOrAttach
  BY <1>1, ReportStart DEF CreateOrAttach, client, history
<1>2. ASSUME NEW c \in Calls, Call(c) \/ Deliver(c) \/ Answer(c) \/ Raced(c) \/ Retry(c) \/ Timeout(c)
      PROVE  ReportInv'
  <2>1. CASE Call(c) \/ (at[c] = "backoff" /\ Send(c))
    <3>1. /\ at[c] \in {"idle", "backoff"} /\ Send(c)
          /\ StartOrAttach \/ UNCHANGED <<entity, life, asked, cache>>
      BY <2>1, CallCases DEF ClientInv, Send
    <3>2. at' = [at EXCEPT ![c] = "sent"] /\ out' = out
      BY <3>1 DEF Send
    <3>3. Running => c \notin Range(queue)
      BY <3>1, <1>0
    <3>4. \A d \in Calls : Running /\ d \in Range(queue) => at'[d] = at[d] /\ out'[d] = out[d]
      BY <3>2, <3>3, <1>0
    <3> QED
      BY <3>1, <3>4, <1>a, ReportStart
  <2>2. CASE Deliver(c)
    <3>1. at[c] \in {"sent", "adrift"} /\ UNCHANGED <<life, creates, asked, cache, history>>
      BY <2>2, DeliverCases DEF ClientInv
    <3>2. Running => c \notin Range(queue)
      BY <3>1, <1>0
    <3>3. ASSUME L!Accept(c), UNCHANGED <<tries, out>>,
                 NEW s \in {"open", "over"}, at' = [at EXCEPT ![c] = s], s = "over" => at[c] = "adrift"
          PROVE  ReportInv'
      <4>1. s = "over" => out[c] = "timeout"
        BY <3>3 DEF ClientInv, Untried
      <4> QED
        BY <3>1, <3>3, <4>1, ReportAccept DEF history
    <3>4. ASSUME NEW what, Settles(c, what)
          PROVE  ReportInv'
      <4>1. \A d \in Calls : d # c => at'[d] = at[d] /\ out'[d] = out[d]
        BY <3>4, <1>0 DEF Settles, Returns
      <4>2. UNCHANGED <<stage, queue, cache, open>>
        BY <3>1, <3>4 DEF Settles, entity
      <4> QED
        BY <3>2, <4>1, <4>2, <1>a, ReportCaller
    <3> QED
      BY <2>2, <3>3, <3>4, DeliverCases DEF ClientInv
  <2>3. CASE Answer(c)
    <3>1. Running /\ c \in Range(queue) => Req[c] \in hasty
      BY <2>3, <1>0 DEF Answer
    <3>2. UNCHANGED <<stage, queue, cache>> /\ open' \subseteq open
      BY <2>3 DEF Answer, L!Answer
    <3>3. \A d \in Calls : d # c => at'[d] = at[d] /\ out'[d] = out[d]
      BY <2>3, <1>0 DEF Answer, Returns, client
    <3> QED
      BY <3>1, <3>2, <3>3, <1>a, ReportCaller
  <2>4. CASE Raced(c)
    <3>1. Running => c \notin Range(queue)
      BY <2>4, <1>0 DEF Raced
    <3>2. UNCHANGED <<stage, queue, cache, open>>
      BY <2>4 DEF Raced, entity
    <3>3. \A d \in Calls : d # c => at'[d] = at[d] /\ out'[d] = out[d]
      BY <2>4, <1>0 DEF Raced, Returns
    <3> QED
      BY <3>1, <3>2, <3>3, <1>a, ReportCaller
  <2>5. CASE at[c] = "backoff" /\ Returns(c, "race") /\ UNCHANGED <<entity, cache>>
    <3>1. Running => c \notin Range(queue)
      BY <2>5, <1>0
    <3> QED
      BY <2>5, <3>1, <1>0, <1>a, ReportCaller DEF Returns, entity
  <2>6. CASE Timeout(c)
    <3>1. UNCHANGED <<stage, queue, cache, open>>
      BY <2>6 DEF Timeout, entity
    <3>2. \A d \in Calls : d # c => at'[d] = at[d] /\ out'[d] = out[d]
      BY <2>6, <1>0 DEF Timeout, Returns
    <3>3. at[c] = "sent" \/ (at'[c] = "over" /\ out'[c] = "timeout")
      BY <2>6, <1>0 DEF Timeout, Returns
    <3> QED
      BY <3>1, <3>2, <3>3, <1>0, <1>a, ReportCaller
  <2> QED
    BY <1>2, <2>1, <2>2, <2>3, <2>4, <2>5, <2>6 DEF Retry
<1>3. CASE Proceed
  <2>1. /\ UNCHANGED <<queue, open, cache, at, out>>
        /\ (stage' = "over") = (stage = "over")
        /\ stage' \in {"new", "creating"} => stage \in {"new", "creating"}
    BY <1>3 DEF Proceed, L!Create, L!Created, L!CreationAborted, L!Tick, L!Ticked,
       L!BeginDeletion, L!Finalize, L!Starts, client
  <2> QED
    BY <2>1, <1>a DEF ReportInv, Running
<1>4. CASE Execute
  <2>1. queue # <<>> /\ stage = "ready" /\ stage' = stage /\ UNCHANGED <<open, at, out, hasty>> /\ Running
    BY <1>4 DEF Execute, L!Execute, L!Starts, L!Relabel, client, Running
  <2>2. CASE L!Execute /\ UNCHANGED cache
    BY <2>1, <2>2 DEF L!Execute, L!Starts, ReportInv, Running
  <2>3. CASE L!Relabel /\ Record("done")
    BY <2>1, <2>3, ReportRecord DEF L!Relabel
  <2> QED
    BY <1>4, <2>2, <2>3 DEF Execute
<1>5. CASE Executed \/ Refuse
  <2>1. /\ queue # <<>> /\ Running /\ queue' = Tail(queue) /\ stage' = stage
        /\ stage \in {"ready", "deleting"} /\ UNCHANGED <<open, at, out, hasty>>
    BY <1>5 DEF Executed, Refuse, L!Executed, L!Refuse, Running, client, history, ClientInv, Orderly, Busy
  <2> QED
    BY <1>5, <2>1, ReportRecord DEF Executed, Refuse
<1>6. CASE Delete \/ ContinueAsNew \/ UNCHANGED vars
  BY <1>6 DEF Delete, ContinueAsNew, vars, entity, client, history, ReportInv, Running
<1>7. CASE End
  BY <1>7 DEF End, L!End, history, ReportInv, Running
<1> QED
  BY <1>1, <1>2, <1>3, <1>4, <1>5, <1>6, <1>7 DEF Next, Retry

\* What was recorded or told as done was executed, in this life or before.
LEMMA DoneKeeps ==
  ASSUME ClientInv, DoneInv, [Next]_vars
  PROVE  DoneInv'
<1>0. /\ \A c \in Calls : Req[c] \in Requests
      /\ cache \in [Requests -> {"none", "done", "refused"}]
      /\ out \in [Calls -> Outcomes] /\ queue \in Seq(Calls)
      /\ effect = "command" => stage = "ready" /\ queue # <<>>
  BY QueuedCalls DEF ClientInv, TypeOK, Orderly, Busy
<1>1. ASSUME UNCHANGED <<effect, queue, cache, ran>>,
             \A c \in Calls : out'[c] = "done" => out[c] = "done" \/ cache[Req[c]] = "done"
      PROVE  DoneInv'
  BY <1>0, <1>1 DEF DoneInv, InHand
<1>2. ASSUME StartOrAttach \/ UNCHANGED <<entity, life, asked, cache>>, UNCHANGED <<ran, out>>
      PROVE  DoneInv'
  <2>1. CASE UNCHANGED <<entity, cache>>
    BY <1>1, <1>2, <2>1 DEF entity
  <2>2. CASE effect' = "none" /\ cache' = [r \in Requests |-> "none"]
    BY <1>2, <2>2 DEF DoneInv, InHand
  <2> QED
    BY <1>2, <2>1, <2>2 DEF StartOrAttach
<1>3. ASSUME NEW c \in Calls, Call(c) \/ Deliver(c) \/ Answer(c) \/ Raced(c) \/ Retry(c) \/ Timeout(c)
      PROVE  DoneInv'
  <2>1. CASE Call(c) \/ (at[c] = "backoff" /\ Send(c))
    <3>1. Send(c)
      BY <2>1, CallCases DEF ClientInv
    <3> QED
      BY <1>2, <3>1 DEF Send
  <2>2. ASSUME L!Accept(c), UNCHANGED <<cache, ran, out>>
        PROVE  DoneInv'
    <3>1. effect' = effect /\ queue' = Append(queue, c) /\ (effect = "command" => Head(queue') = Head(queue) /\ queue # <<>>)
      BY <1>0, <2>2, AppendFacts DEF L!Accept
    <3> QED
      BY <2>2, <3>1, <1>0 DEF DoneInv, InHand
  <2>3. ASSUME NEW what, Returns(c, what), what = "done" => cache[Req[c]] = "done",
               UNCHANGED <<effect, queue, cache, ran>>
        PROVE  DoneInv'
    <3>1. \A d \in Calls : out'[d] = IF d = c THEN what ELSE out[d]
      BY <1>0, <2>3 DEF Returns
    <3> QED
      BY <1>1, <2>3, <3>1
  <2>4. CASE Deliver(c)
    <3>1. UNCHANGED <<life, creates, asked, cache, history>>
      BY <2>4, DeliverCases DEF ClientInv
    <3>2. ASSUME NEW what, Settles(c, what), what = "done" => cache[Req[c]] = "done"
          PROVE  DoneInv'
      <4>1. UNCHANGED <<effect, queue, cache, ran>>
        BY <3>1, <3>2 DEF Settles, entity, history
      <4> QED
        BY <1>1, <2>3, <3>2, <4>1 DEF Settles
    <3> QED
      BY <2>2, <2>4, <3>1, <3>2, DeliverCases DEF ClientInv, history
  <2>5. CASE Answer(c)
    <3>1. UNCHANGED <<effect, queue, cache, ran>>
      BY <2>5 DEF Answer, L!Answer, history
    <3> QED
      BY <1>1, <2>3, <2>5, <3>1 DEF Answer, client
  <2>6. CASE Raced(c)
    <3>1. UNCHANGED <<effect, queue, cache, ran>>
      BY <2>6 DEF Raced, entity, history
    <3> QED
      BY <1>1, <2>3, <2>6, <3>1 DEF Raced
  <2>7. CASE Returns(c, "race") /\ UNCHANGED <<entity, cache, ran>>
    BY <2>3, <2>7 DEF entity
  <2>8. CASE Timeout(c)
    <3>1. UNCHANGED <<effect, queue, cache, ran>> /\ \A d \in Calls : out'[d] = "done" => out[d] = "done"
      BY <2>8, <1>0 DEF Timeout, Returns, entity, history
    <3> QED
      BY <1>1, <3>1
  <2> QED
    BY <1>3, <2>1, <2>4, <2>5, <2>6, <2>7, <2>8 DEF Retry, history
<1>4. CASE CreateOrAttach
  BY <1>2, <1>4 DEF CreateOrAttach, client, history
<1>5. CASE Proceed
  <2>1. UNCHANGED <<queue, cache, ran, out>> /\ effect' # "command"
    BY <1>5, <1>0 DEF Proceed, L!Create, L!Created, L!CreationAborted, L!Tick, L!Ticked,
       L!BeginDeletion, L!Finalize, L!Starts, client, history
  <2> QED
    BY <2>1 DEF DoneInv, InHand
<1>6. ASSUME queue # <<>>, NEW what \in {"done", "refused"}, Record(what), UNCHANGED out,
             effect' # "command", \A r \in Requests : ran[r] # <<>> => ran'[r] # <<>>,
             what = "done" => ran'[Req[Head(queue)]] # <<>>
      PROVE  DoneInv'
  <2>1. Head(queue) \in Calls
    BY <1>0, <1>6, TailFacts
  <2>2. \A r \in Requests : cache'[r] = IF r = Req[Head(queue)] THEN what ELSE cache[r]
    BY <1>0, <1>6, <2>1 DEF Record
  <2> QED
    BY <1>0, <1>6, <2>1, <2>2 DEF DoneInv, InHand
<1>7. CASE Execute
  <2> DEFINE q == Req[Head(queue)]
  <2>1. queue # <<>> /\ out' = out /\ q \in Requests /\ effect = "none"
    BY <1>7, <1>0, TailFacts DEF Execute, L!Execute, L!Starts, L!Relabel, client
  <2>2. /\ ran'[q] # <<>> /\ \A r \in Requests : r # q => ran'[r] = ran[r]
    <3>1. ran \in [Requests -> Seq(Nat)] /\ life \in Nat
      BY DEF ClientInv, TypeOK
    <3>2. ran'[q] = Append(ran[q], life) /\ ran[q] \in Seq(Nat)
      BY <1>7, <2>1, <3>1 DEF Execute
    <3>3. ran'[q] # <<>>
      BY <3>1, <3>2, AppendFacts
    <3> QED
      BY <1>7, <2>1, <3>1, <3>3 DEF Execute
  <2> HIDE DEF q
  <2>3. \A r \in Requests : ran[r] # <<>> => ran'[r] # <<>>
    BY <2>2
  <2>4. CASE L!Execute /\ UNCHANGED cache
    <3>1. queue' = queue
      BY <2>4 DEF L!Execute, L!Starts
    <3> QED
      BY <2>1, <2>2, <2>3, <2>4, <3>1, <1>0 DEF DoneInv, InHand, q
  <2>5. CASE L!Relabel /\ Record("done")
    BY <1>6, <2>1, <2>2, <2>3, <2>5 DEF L!Relabel, q
  <2> QED
    BY <1>7, <2>4, <2>5 DEF Execute
<1>8. CASE Executed
  <2>1. /\ queue # <<>> /\ Record("done") /\ UNCHANGED <<out, ran>> /\ effect' = "none"
        /\ effect = "command"
    BY <1>8, <1>0 DEF Executed, L!Executed, client, history
  <2>2. Head(queue) \in Calls
    BY <1>0, <2>1, TailFacts
  <2>3. ran[Req[Head(queue)]] # <<>>
    BY <1>0, <2>1, <2>2 DEF DoneInv, InHand
  <2> QED
    BY <1>6, <2>1, <2>3
<1>9. CASE Refuse
  <2>1. queue # <<>> /\ Record("refused") /\ UNCHANGED <<out, ran>> /\ effect' # "command"
    BY <1>9, <1>0 DEF Refuse, L!Refuse, client, history
  <2> QED
    BY <1>6, <2>1
<1>10. CASE Delete \/ ContinueAsNew \/ UNCHANGED vars
  BY <1>1, <1>10 DEF Delete, ContinueAsNew, vars, entity, client, history
<1>11. CASE End
  <2>1. UNCHANGED <<queue, cache, ran, out>> /\ effect' = "none"
    BY <1>11 DEF End, L!End, client, history
  <2> QED
    BY <2>1 DEF DoneInv, InHand
<1> QED
  BY <1>3, <1>4, <1>5, <1>7, <1>8, <1>9, <1>10, <1>11 DEF Next

-----------------------------------------------------------------------------
(* Each execution uses up a call *)

\* A used call is not used again: if its caller waits, the entity still has its
\* outcome to tell, and if it is queued, it is the one that executes.
LEMMA UsedFacts ==
  ASSUME NEW d \in Calls, Used(d)
  PROVE  /\ at[d] \notin {"sent", "adrift", "backoff"}
         /\ at[d] = "open" => d \in open /\ cache[Req[d]] # "refused"
         /\ Running /\ d \in Range(queue) => effect = "command" /\ d = Head(queue)
         /\ at[d] = "open" \/ (Running /\ d \in Range(queue)) \/ out[d] \in {"done", "timeout"}
BY DEF Used, Fresh

\* A step that leaves d and the entity alone.
LEMMA UsedFrame ==
  ASSUME NEW d \in Calls, Used(d), at'[d] = at[d], out'[d] = out[d],
         UNCHANGED <<stage, queue, cache>>, effect' = "command" <=> effect = "command",
         d \in open => d \in open'
  PROVE  Used(d)'
BY DEF Used, Fresh, Running

\* A life begins only when nobody waits in the one before.
LEMMA UsedStart ==
  ASSUME ReportInv, StartOrAttach \/ UNCHANGED <<entity, life, asked, cache>>,
         NEW d \in Calls, Used(d), at'[d] = at[d], out'[d] = out[d]
  PROVE  Used(d)'
<1>1. CASE UNCHANGED <<entity, cache>>
  BY <1>1, UsedFrame DEF entity
<1>2. CASE ~Running /\ queue' = <<>>
  <2>1. at[d] # "open" /\ out[d] \in {"done", "timeout"} /\ at[d] \notin {"sent", "adrift", "backoff"}
    BY <1>2, UsedFacts DEF ReportInv
  <2>2. d \notin Range(queue')
    BY <1>2 DEF Range
  <2> QED
    BY <2>1, <2>2 DEF Used, Fresh
<1> QED
  BY <1>1, <1>2 DEF StartOrAttach

\* Recording the outcome of the head of the queue.
LEMMA UsedRecord ==
  ASSUME ClientInv, Running, queue # <<>>, queue' = Tail(queue), stage' = stage,
         effect' # "command", UNCHANGED <<open, at, out>>,
         NEW what \in {"done", "refused"}, Record(what),
         what = "refused" => effect # "command",
         NEW h, h = Head(queue)
  PROVE  /\ \A d \in Calls : Used(d) /\ Req[d] \notin hasty => Used(d)' \/ (d = h /\ what = "done")
         /\ ReportInv /\ what = "done" /\ Req[h] \notin hasty => Used(h)'
<1>1. /\ queue \in Seq(Calls) /\ cache \in [Requests -> {"none", "done", "refused"}] /\ Running'
  BY DEF ClientInv, TypeOK, Running
<1>2. /\ h \in Calls /\ h \in Range(queue)
      /\ Range(queue') \subseteq Range(queue) /\ h \notin Range(queue')
  BY <1>1, TailFacts DEF ClientInv, Orderly, QueueInv
<1>3. /\ \A c \in Calls : Req[c] \in Requests
      /\ \A r \in Requests : cache'[r] = IF r = Req[h] THEN what ELSE cache[r]
  BY <1>1, <1>2, ClientAssumption DEF Record
<1>4. ASSUME NEW d \in Calls, Used(d), d # h, Req[d] \notin hasty
      PROVE  Used(d)'
  <2>1. d \notin Range(queue)
    BY <1>4, UsedFacts
  <2>2. at[d] = "open" => Req[d] # Req[h]
    BY <1>2, <1>4 DEF ClientInv, Orderly, Alone, Pending
  <2> QED
    BY <1>2, <1>3, <1>4, <2>1, <2>2 DEF Used, Fresh
<1>5. what = "refused" => ~Used(h)
  BY <1>2, UsedFacts
<1>6. ASSUME ReportInv, what = "done", Req[h] \notin hasty
      PROVE  Used(h)'
  <2>1. /\ h \in open
        /\ at[h] = "open" \/ (at[h] = "over" /\ out[h] = "timeout")
    BY <1>2, <1>6 DEF ReportInv, ClientInv, Orderly, QueueInv
  <2> QED
    BY <1>2, <1>3, <1>6, <2>1 DEF Used, Fresh
<1> QED
  BY <1>4, <1>5, <1>6

\* A call that was used up stays so.
LEMMA UsedStays ==
  ASSUME ClientInv, ReportInv, [Next]_vars, NEW d \in Calls, Used(d), Req[d] \notin hasty
  PROVE  Used(d)'
<1>0. /\ at \in [Calls -> {"idle", "sent", "adrift", "open", "backoff", "over"}]
      /\ out \in [Calls -> Outcomes] /\ queue \in Seq(Calls)
      /\ cache \in [Requests -> {"none", "done", "refused"}]
      /\ \A c \in Calls : Req[c] \in Requests
      /\ effect = "command" => stage = "ready" /\ queue # <<>>
      /\ Running => \A c \in Range(queue) :
           /\ at[c] \in {"open", "over"} /\ (at[c] = "open" => c \in open)
           /\ Req[c] \notin hasty => c \in open /\ cache[Req[c]] = "none"
  BY QueuedCalls DEF ClientInv, TypeOK, Orderly, Busy, QueueInv
<1>1. CASE CreateOrAttach
  BY <1>1, UsedStart DEF CreateOrAttach, client
<1>2. ASSUME NEW c \in Calls, Call(c) \/ Deliver(c) \/ Answer(c) \/ Raced(c) \/ Retry(c) \/ Timeout(c)
      PROVE  Used(d)'
  <2>1. CASE Call(c) \/ (at[c] = "backoff" /\ Send(c))
    <3>1. ASSUME Call(c) PROVE c # d
      <4>1. at[c] = "idle" /\ out[c] = "none" /\ ~(Running /\ c \in Range(queue))
        BY <3>1, <1>0, CallCases DEF ClientInv, Untried
      <4> QED
        BY <4>1, UsedFacts
    <3>2. ASSUME at[c] = "backoff" PROVE c # d
      BY <3>2, UsedFacts
    <3>3. c # d
      BY <2>1, <3>1, <3>2
    <3>4. Send(c)
      BY <2>1, CallCases DEF ClientInv
    <3>5. at'[d] = at[d] /\ out'[d] = out[d]
      BY <3>3, <3>4, <1>0 DEF Send
    <3> QED
      BY <3>4, <3>5, UsedStart DEF Send
  <2>2. CASE Deliver(c)
    <3>0. at[c] \in {"sent", "adrift"} /\ UNCHANGED cache
      BY <2>2, DeliverCases DEF ClientInv
    <3>1. c # d
      BY <3>0, UsedFacts
    <3>2. at'[d] = at[d] /\ out'[d] = out[d] /\ (UNCHANGED entity \/ L!Accept(c))
      BY <2>2, <3>1, <1>0, DeliverCases DEF ClientInv, Settles, Returns
    <3>3. CASE UNCHANGED entity
      BY <3>0, <3>2, <3>3, UsedFrame DEF entity
    <3>4. CASE L!Accept(c)
      <4>1. /\ UNCHANGED <<stage, effect, cache>> /\ open \subseteq open'
            /\ Range(queue') = Range(queue) \cup {c}
            /\ effect = "command" => Head(queue') = Head(queue)
        BY <3>0, <3>4, <1>0, AppendFacts DEF L!Accept
      <4>2. (Running /\ d \in Range(queue))' <=> (Running /\ d \in Range(queue))
        BY <3>1, <4>1 DEF Running
      <4>3. ~Fresh(d)'
        BY <3>2, <4>1, <4>2 DEF Used, Fresh
      <4> QED
        BY <3>2, <4>2, <4>3 DEF Used
    <3> QED
      BY <3>2, <3>3, <3>4
  <2>3. CASE Answer(c)
    <3>1. UNCHANGED <<stage, effect, queue, cache>> /\ open' = open \ {c} /\ cache[Req[c]] # "none"
      BY <2>3 DEF Answer, L!Answer
    <3>2. CASE d # c
      <4>1. at'[d] = at[d] /\ out'[d] = out[d]
        BY <2>3, <3>2, <1>0 DEF Answer, Returns, client
      <4> QED
        BY <3>1, <3>2, <4>1, UsedFrame
    <3>3. CASE d = c /\ at[c] = "open"
      <4>1. cache[Req[c]] = "done"
        BY <3>1, <3>3, <1>0, UsedFacts
      <4>2. at'[c] = "over" /\ out'[c] = "done"
        BY <2>3, <3>3, <4>1, <1>0 DEF Answer, Returns
      <4> QED
        BY <3>1, <3>3, <4>2, <1>0 DEF Used, Fresh, Running
    <3>4. CASE d = c /\ at[c] # "open"
      <4>1. UNCHANGED <<at, out>>
        BY <2>3, <3>4 DEF Answer, client
      <4> QED
        BY <3>1, <3>4, <4>1 DEF Used, Fresh, Running
    <3> QED
      BY <3>2, <3>3, <3>4
  <2>4. CASE Raced(c) \/ (at[c] = "backoff" /\ Returns(c, "race") /\ UNCHANGED <<entity, cache>>)
    <3>1. c # d /\ UNCHANGED <<entity, cache>>
      BY <2>4, UsedFacts DEF Raced
    <3>2. at'[d] = at[d] /\ out'[d] = out[d]
      BY <2>4, <3>1, <1>0 DEF Raced, Returns
    <3> QED
      BY <3>1, <3>2, UsedFrame DEF entity
  <2>5. CASE Timeout(c)
    <3>1. UNCHANGED <<stage, effect, queue, cache, open>>
      BY <2>5 DEF Timeout, entity
    <3>2. CASE d # c
      <4>1. at'[d] = at[d] /\ out'[d] = out[d]
        BY <2>5, <3>2, <1>0 DEF Timeout, Returns
      <4> QED
        BY <3>1, <4>1, UsedFrame
    <3>3. CASE d = c
      <4>1. at'[d] = "over" /\ out'[d] = "timeout"
        BY <2>5, <3>3, <1>0, UsedFacts DEF Timeout, Returns
      <4> QED
        BY <3>1, <4>1 DEF Used, Fresh, Running
    <3> QED
      BY <3>2, <3>3
  <2> QED
    BY <1>2, <2>1, <2>2, <2>3, <2>4, <2>5 DEF Retry
<1>3. CASE Proceed
  <2>1. /\ UNCHANGED <<queue, open, cache, at, out>> /\ (stage' = "over") = (stage = "over")
        /\ effect # "command" /\ effect' # "command"
    BY <1>3, <1>0 DEF Proceed, L!Create, L!Created, L!CreationAborted, L!Tick, L!Ticked,
       L!BeginDeletion, L!Finalize, L!Starts, client
  <2> QED
    BY <2>1 DEF Used, Fresh, Running
<1>4. CASE Execute
  <2>1. /\ queue # <<>> /\ effect = "none" /\ Running /\ stage' = stage /\ UNCHANGED <<open, at, out>>
        /\ d \notin Range(queue)
    BY <1>4, UsedFacts DEF Execute, L!Execute, L!Starts, L!Relabel, client, Running
  <2>2. CASE L!Execute /\ UNCHANGED cache
    <3>1. queue' = queue
      BY <2>2 DEF L!Execute, L!Starts
    <3> QED
      BY <2>1, <2>2, <3>1 DEF Used, Fresh, Running
  <2>3. CASE L!Relabel /\ Record("done")
    <3>1. queue' = Tail(queue) /\ effect' # "command" /\ d # Head(queue)
      BY <2>1, <2>3, <1>0, TailFacts DEF L!Relabel
    <3> QED
      BY <2>1, <2>3, <3>1, UsedRecord
  <2> QED
    BY <1>4, <2>2, <2>3 DEF Execute
<1>5. CASE Executed
  <2>1. /\ queue # <<>> /\ Running /\ queue' = Tail(queue) /\ stage' = stage
        /\ UNCHANGED <<open, at, out>> /\ effect' # "command" /\ Record("done")
    BY <1>5, <1>0 DEF Executed, L!Executed, client, Running
  <2>2. PICK h : h = Head(queue)
    OBVIOUS
  <2>3. (d # h => Used(d)') /\ (d = h => Used(h)')
    BY <2>1, <2>2, UsedRecord
  <2> QED
    BY <2>3
<1>6. CASE Refuse
  <2>1. /\ queue # <<>> /\ Running /\ queue' = Tail(queue) /\ stage' = stage
        /\ UNCHANGED <<open, at, out>> /\ effect' # "command" /\ effect # "command" /\ Record("refused")
    BY <1>6, <1>0 DEF Refuse, L!Refuse, client, Running
  <2> QED
    BY <2>1, UsedRecord
<1>7. CASE Delete \/ ContinueAsNew \/ UNCHANGED vars
  BY <1>7, UsedFrame DEF Delete, ContinueAsNew, vars, entity, client
<1>8. CASE End
  <2>1. /\ UNCHANGED <<queue, cache, at, out>> /\ ~Running' /\ Running
        /\ \/ open = {} /\ effect # "command"
           \/ stage = "creating" /\ effect = "init"
    BY <1>8 DEF End, L!End, client, Running
  <2>2. d \notin Range(queue)
    BY <2>1, UsedFacts
  <2>3. at[d] # "open"
    BY <2>1, <2>2, <1>0, UsedFacts DEF ReportInv
  <2> QED
    BY <2>1, <2>2, <2>3 DEF Used, Fresh
<1> QED
  BY <1>1, <1>2, <1>3, <1>4, <1>5, <1>6, <1>7, <1>8 DEF Next

\* An execution uses up the call at the head of the queue.
LEMMA ExecuteUses ==
  ASSUME ClientInv, ReportInv, Execute, NEW h, h = Head(queue)
  PROVE  /\ h \in Calls /\ Req[h] \in Requests
         /\ Req[h] \notin hasty => ~Used(h) /\ Used(h)'
         /\ Len(ran'[Req[h]]) = Len(ran[Req[h]]) + 1
         /\ \A r \in Requests : r # Req[h] => ran'[r] = ran[r]
<1>1. /\ queue # <<>> /\ queue \in Seq(Calls) /\ Running /\ effect = "none"
      /\ stage' = stage /\ UNCHANGED <<open, at, out>>
      /\ ran \in [Requests -> Seq(Nat)] /\ life \in Nat
      /\ ran' = [ran EXCEPT ![Req[h]] = Append(@, life)]
  BY DEF Execute, L!Execute, L!Starts, L!Relabel, client, Running, ClientInv, TypeOK
<1>2. h \in Range(queue) /\ h \in Calls /\ Req[h] \in Requests
  BY <1>1, TailFacts, ClientAssumption
<1>3. ~Used(h)
  BY <1>1, <1>2, UsedFacts
<1>4. Req[h] \notin hasty =>
        /\ h \in open /\ cache[Req[h]] = "none"
        /\ (at[h] = "open" \/ (at[h] = "over" /\ out[h] = "timeout"))
  BY <1>1, <1>2 DEF ReportInv, ClientInv, Orderly, QueueInv
<1>5. CASE L!Execute /\ UNCHANGED cache
  <2>1. queue' = queue /\ effect' = "command"
    BY <1>5 DEF L!Execute, L!Starts
  <2> QED
    BY <1>1, <1>2, <1>3, <1>4, <1>5, <2>1 DEF Used, Fresh, Running
<1>6. CASE L!Relabel /\ Record("done")
  <2>1. queue' = Tail(queue) /\ effect' # "command"
    BY <1>1, <1>6 DEF L!Relabel
  <2>2. Req[h] \notin hasty => Used(h)'
    BY <1>1, <1>6, <2>1, UsedRecord
  <2> QED
    BY <1>1, <1>2, <1>3, <2>2
<1> QED
  BY <1>5, <1>6 DEF Execute

\* Nothing else executes.
LEMMA RanFrame == [Next]_vars /\ ~Execute => ran' = ran
BY DEF Next, vars, CreateOrAttach, Delete, Call, Send, Deliver, Answer, Raced, Retry, Timeout,
   Proceed, Executed, Refuse, ContinueAsNew, End, history

LEMMA SpentKeeps ==
  ASSUME IsFiniteSet(Calls), ClientInv, ReportInv, SpentInv, [Next]_vars
  PROVE  SpentInv'
<1> SUFFICES ASSUME NEW r \in Requests, r \notin hasty
             PROVE  Len(ran'[r]) <= Cardinality(Spent(r)')
  BY HastyGrows DEF SpentInv
<1>1. /\ IsFiniteSet(Spent(r)) /\ IsFiniteSet(Spent(r)')
      /\ Spent(r) \subseteq Spent(r)'
      /\ Len(ran[r]) <= Cardinality(Spent(r))
  <2>1. Spent(r) \subseteq Calls /\ Spent(r)' \subseteq Calls
    BY DEF Spent
  <2>2. Spent(r) \subseteq Spent(r)'
    BY UsedStays DEF Spent
  <2> QED
    BY <2>1, <2>2, FS_Subset DEF SpentInv
<1>2. /\ Cardinality(Spent(r)) \in Nat /\ Cardinality(Spent(r)') \in Nat
      /\ Cardinality(Spent(r)) <= Cardinality(Spent(r)') /\ Len(ran[r]) \in Nat
  BY <1>1, FS_Subset, FS_CardinalityType DEF ClientInv, TypeOK
<1>0. PICK c : c = Head(queue)
  OBVIOUS
<1>3. CASE Execute /\ r = Req[c]
  <2>1. c \notin Spent(r) /\ c \in Spent(r)' /\ Len(ran'[r]) = Len(ran[r]) + 1
    BY <1>0, <1>3, ExecuteUses DEF Spent
  <2>2. Cardinality(Spent(r) \cup {c}) = Cardinality(Spent(r)) + 1
    BY <1>1, <2>1, FS_AddElement
  <2>3. Cardinality(Spent(r) \cup {c}) <= Cardinality(Spent(r)')
    <3>1. Spent(r) \cup {c} \subseteq Spent(r)'
      BY <1>1, <2>1
    <3> QED
      BY <1>1, <3>1, FS_Subset
  <2> QED
    BY <1>1, <1>2, <2>1, <2>2, <2>3
<1>4. CASE ~(Execute /\ r = Req[c])
  <2>1. ran'[r] = ran[r]
    BY <1>0, <1>4, RanFrame, ExecuteUses
  <2> QED
    BY <1>1, <1>2, <2>1
<1> QED
  BY <1>3, <1>4

\* What calls return is true: a success was executed, and no execution is
\* hidden behind a refusal, an unknown entity or a race (on the condition of
\* ExecutesOncePerLife), for any number of calls, attempts and lives.
THEOREM ReturnsAreTruthful == IsFiniteSet(Calls) => (Spec => []ReturnsTruthful)
<1> SUFFICES ASSUME IsFiniteSet(Calls) PROVE Spec => []ReturnsTruthful
  OBVIOUS
<1>1. Init => ReportInv /\ DoneInv /\ SpentInv
  <2> SUFFICES ASSUME Init PROVE ReportInv /\ DoneInv /\ SpentInv
    OBVIOUS
  <2>1. ReportInv /\ DoneInv
    BY DEF Init, ReportInv, DoneInv, Running, InHand
  <2>2. ASSUME NEW r \in Requests PROVE Len(ran[r]) <= Cardinality(Spent(r))
    <3>1. Len(ran[r]) = 0
      BY DEF Init
    <3>2. IsFiniteSet(Spent(r))
      BY FS_Subset DEF Spent
    <3> QED
      BY <3>1, <3>2, FS_CardinalityType
  <2> QED
    BY <2>1, <2>2 DEF SpentInv
<1>2. ClientInv /\ ReportInv /\ [Next]_vars => ReportInv'
  BY ReportKeeps
<1>3. ClientInv /\ DoneInv /\ [Next]_vars => DoneInv'
  BY DoneKeeps
<1>4. ClientInv /\ ReportInv /\ SpentInv /\ [Next]_vars => SpentInv'
  BY SpentKeeps
<1>5. ClientInv /\ DoneInv /\ SpentInv => ReturnsTruthful
  <2> SUFFICES ASSUME ClientInv, DoneInv, SpentInv, NEW r \in Requests \ hasty
               PROVE  Len(ran[r]) <= Cardinality(Credited(r))
    BY DEF ReturnsTruthful, DoneInv
  <2>1. Spent(r) \subseteq Credited(r)
    BY DEF Spent, Credited, Used, Pending
  <2>2. IsFiniteSet(Credited(r))
    BY FS_Subset DEF Credited
  <2>3. Len(ran[r]) <= Cardinality(Spent(r)) /\ Len(ran[r]) \in Nat
    BY DEF SpentInv, ClientInv, TypeOK
  <2> QED
    BY <2>1, <2>2, <2>3, FS_Subset, FS_CardinalityType
<1> QED
  BY <1>1, <1>2, <1>3, <1>4, <1>5, ClientCorrect, PTL DEF Spec

==============================================================================
