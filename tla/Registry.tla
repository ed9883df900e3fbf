------------------------------- MODULE Registry -------------------------------
(***************************************************************************)
(* The registry of an entity kind (pkg/entdefine/definition.go): handlers  *)
(* are declared and validators chained to them, problems accumulate, and   *)
(* Register either reports them all or gives the kind to a worker.  What   *)
(* a run of the workflow installs is read from the registry when it starts.*)
(***************************************************************************)
EXTENDS Sequences, Naturals, Functions

CONSTANTS Names,            \* command and query names
          ReservedCommands, \* the empty name and those of chassis operations
          ReservedQueries,
          OwnCommands,      \* of these, what the chassis has a handler for
          OwnQueries,
          MaxDeclarations, MaxValidators  \* bounds

ASSUME RegistryAssumption ==
  /\ ReservedCommands \subseteq Names /\ ReservedQueries \subseteq Names
  /\ OwnCommands \subseteq ReservedCommands /\ OwnQueries \subseteq ReservedQueries
  /\ MaxDeclarations \in Nat /\ MaxValidators \in Nat

VARIABLES declared,   \* the calls of Handle and HandleQuery so far, in order
          commands,   \* by name: the declaration that handles it, or 0
          queries,
          live,       \* declarations whose registration is not dead
          checks,     \* the chain of validators of each declaration
          attached,   \* the declaration each call of Validate went to, in order
          errs,       \* rejected declarations, 0 for a malformed kind
          reported,   \* what the last failed Register returned
          accepted,   \* declarations made when Register first succeeded; NotYet
          run         \* the handlers a run of the workflow installed

vars == <<declared, commands, queries, live, checks, attached, errs, reported,
          accepted, run>>

NotYet == MaxDeclarations + 1
Chassis == MaxDeclarations + 1      \* stands for the handlers of the loop
Base == 0                           \* the validator of the command's own type
Tables == [Names -> 0..Chassis]
Reserved == [command |-> ReservedCommands, query |-> ReservedQueries]
Own == [command |-> OwnCommands, query |-> OwnQueries]
Table == [command |-> commands, query |-> queries]
Blank == [n \in Names |-> 0]

\* New: only a malformed kind name is a problem yet.
Init ==
  /\ declared = <<>> /\ commands = Blank /\ queries = Blank
  /\ live = {} /\ checks = <<>> /\ attached = <<>>
  /\ errs \in {<<>>, <<0>>} /\ reported = <<>> /\ accepted = NotYet
  /\ run = [command |-> Blank, query |-> Blank]

-----------------------------------------------------------------------------
This == Len(declared) + 1

Declares(sort, n) ==
  /\ Len(declared) < MaxDeclarations
  /\ declared' = Append(declared, [sort |-> sort, name |-> n])
  /\ checks' = Append(checks, IF sort = "command" THEN <<Base>> ELSE <<>>)
  /\ UNCHANGED <<attached, reported, accepted, run>>

Reject == errs' = Append(errs, This) /\ UNCHANGED <<commands, queries, live>>

\* A slip: the name of the label patch is free for the taking.
HandleUnreserved(n) ==
  /\ Declares("command", n)
  /\ \/ commands[n] # 0 /\ Reject
     \/ /\ commands[n] = 0 /\ commands' = [commands EXCEPT ![n] = This]
        /\ live' = live \cup {This} /\ UNCHANGED <<queries, errs>>

\* A slip: a second declaration of a name replaces the first.
HandleAgain(n) ==
  /\ Declares("command", n)
  /\ \/ n \in ReservedCommands /\ Reject
     \/ /\ n \notin ReservedCommands /\ commands' = [commands EXCEPT ![n] = This]
        /\ live' = live \cup {This} /\ UNCHANGED <<queries, errs>>

Handle(n) ==
  /\ Declares("command", n)
  /\ \/ (n \in ReservedCommands \/ commands[n] # 0) /\ Reject
     \/ /\ n \notin ReservedCommands /\ commands[n] = 0
        /\ commands' = [commands EXCEPT ![n] = This]
        /\ live' = live \cup {This} /\ UNCHANGED <<queries, errs>>

\* A slip: the first declaration of a query wins and nobody is told.
HandleQuerySilently(n) ==
  /\ Declares("query", n)
  /\ \/ n \in ReservedQueries /\ Reject
     \/ queries[n] # 0 /\ UNCHANGED <<commands, queries, live, errs>>
     \/ /\ n \notin ReservedQueries /\ queries[n] = 0
        /\ queries' = [queries EXCEPT ![n] = This]
        /\ UNCHANGED <<commands, live, errs>>

HandleQuery(n) ==
  /\ Declares("query", n)
  /\ \/ (n \in ReservedQueries \/ queries[n] # 0) /\ Reject
     \/ /\ n \notin ReservedQueries /\ queries[n] = 0
        /\ queries' = [queries EXCEPT ![n] = This]
        /\ UNCHANGED <<commands, live, errs>>

Attaches(i) ==
  /\ Len(attached) < MaxValidators /\ attached' = Append(attached, i)
  /\ UNCHANGED <<declared, commands, queries, live, errs, reported, accepted, run>>

\* A slip: the new validator replaces the others.
ValidateInstead(i) ==
  /\ Attaches(i)
  /\ \/ i \in live /\ checks' = [checks EXCEPT ![i] = <<Len(attached) + 1>>]
     \/ i \notin live /\ UNCHANGED checks

\* The new validator runs after the others; a dead registration takes none.
Validate(i) ==
  /\ Attaches(i)
  /\ \/ i \in live /\ checks' = [checks EXCEPT ![i] = Append(@, Len(attached) + 1)]
     \/ i \notin live /\ UNCHANGED checks

Register ==
  /\ \/ errs # <<>> /\ reported' = errs /\ UNCHANGED accepted
     \/ /\ errs = <<>> /\ accepted = NotYet
        /\ accepted' = Len(declared) /\ UNCHANGED reported
  /\ UNCHANGED <<declared, commands, queries, live, checks, attached, errs, run>>

\* The chassis installs its own handlers, then one for each declared name.
Installed(sort) ==
  [n \in Names |-> IF Table[sort][n] # 0 THEN Table[sort][n]
                   ELSE IF n \in Own[sort] THEN Chassis ELSE 0]

WorkflowFn ==
  /\ accepted # NotYet
  /\ run' = [command |-> Installed("command"), query |-> Installed("query")]
  /\ UNCHANGED <<declared, commands, queries, live, checks, attached, errs,
                 reported, accepted>>

Next ==
  \/ \E n \in Names : Handle(n) \/ HandleQuery(n)
  \/ \E i \in 1..Len(declared) : declared[i].sort = "command" /\ Validate(i)
  \/ Register \/ WorkflowFn

Spec == Init /\ [][Next]_vars

-----------------------------------------------------------------------------
(* Properties *)

\* Types; and a registration is live exactly when it handles its name.
TypeOK ==
  /\ declared \in Seq([sort : {"command", "query"}, name : Names])
  /\ commands \in Tables /\ queries \in Tables
  /\ live \subseteq 1..Len(declared) /\ live = Range(commands) \ {0}
  /\ checks \in Seq(Seq(Nat)) /\ Len(checks) = Len(declared)
  /\ attached \in Seq(1..Len(declared))
  /\ errs \in Seq(Nat) /\ reported \in Seq(Nat) /\ accepted \in 0..NotYet
  /\ run \in [command : Tables, query : Tables]

\* By what was asked for alone: is declaration i one the kind cannot have?
Bad(i) ==
  \/ declared[i].name \in Reserved[declared[i].sort]
  \/ \E j \in 1..(i - 1) : declared[j] = declared[i]

\* The calls of Validate that went to declaration i.
ValidatorsOf(i) == {k \in 1..Len(attached) : attached[k] = i}

Ascends(s) == \A j, k \in DOMAIN s : j < k => s[j] < s[k]

\* Nothing that was declared before a successful Register is dropped: every
\* run serves each of those handlers under its own name, with the validator
\* of its type first, then all of those attached to it, in the order of the
\* calls and each once.
ServesDeclared ==
  run.query # Blank \/ run.command # Blank =>
    \A i \in 1..accepted :
      /\ run[declared[i].sort][declared[i].name] = i
      /\ declared[i].sort = "command" =>
           Ascends(checks[i]) /\ Range(checks[i]) = {Base} \cup ValidatorsOf(i)

\* No declaration, in time or late, takes a name of the chassis: describe and
\* label patches are its own for every entity, and no handler of the kind
\* answers to the name of another of its operations, or to none.
ChassisServes ==
  run.query # Blank \/ run.command # Blank =>
    \A sort \in {"command", "query"} : \A n \in Reserved[sort] :
      run[sort][n] = IF n \in Own[sort] THEN Chassis ELSE 0

\* A failed Register tells of every declaration the kind could not take, and
\* of no other, each once; one that succeeds had nothing to tell.
ProblemsReported ==
  [][/\ reported' # reported =>
          /\ IsInjective(reported')
          /\ \A i \in 1..Len(declared) : Bad(i) <=> i \in Range(reported')
     /\ accepted' # accepted => \A i \in 1..Len(declared) : ~Bad(i)]_vars

=============================================================================
