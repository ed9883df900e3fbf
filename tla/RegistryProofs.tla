---------------------------- MODULE RegistryProofs ----------------------------
(***************************************************************************)
(* Proofs about Registry, for any names, reserved or not, and any number   *)
(* of declarations and validators.                                         *)
(***************************************************************************)
EXTENDS Registry, TLAPS

Sorts == {"command", "query"}
Declaration == [sort : Sorts, name : Names]

Declared(sort, n) == \E j \in 1..Len(declared) : declared[j] = [sort |-> sort, name |-> n]

\* A handler is there for exactly the free names that were declared.
Tabled ==
  /\ Len(declared) <= MaxDeclarations
  /\ \A n \in Names :
       /\ commands[n] # 0 <=> (n \notin ReservedCommands /\ Declared("command", n))
       /\ queries[n] # 0 <=> (n \notin ReservedQueries /\ Declared("query", n))

\* The problems so far are the bad declarations, each once.
Told ==
  /\ IsInjective(errs)
  /\ \A k \in DOMAIN errs : errs[k] <= Len(declared)
  /\ \A i \in 1..Len(declared) : Bad(i) <=> i \in Range(errs)

RegistryInv == TypeOK /\ Tabled /\ Told /\ ChassisServes

-----------------------------------------------------------------------------
(* Sequences and tables *)

LEMMA AppendFacts ==
  ASSUME NEW T, NEW s \in Seq(T), NEW x \in T
  PROVE  /\ Append(s, x) \in Seq(T) /\ Len(Append(s, x)) = Len(s) + 1
         /\ \A i \in 1..Len(s) : Append(s, x)[i] = s[i]
         /\ Append(s, x)[Len(s) + 1] = x
         /\ DOMAIN Append(s, x) = 1..Len(s) + 1
<1>1. Len(s) \in Nat
  OBVIOUS
<1> QED
  BY <1>1

LEMMA AppendSet ==
  ASSUME NEW T, NEW s \in Seq(T), NEW x \in T
  PROVE  /\ Range(Append(s, x)) = Range(s) \cup {x}
         /\ IsInjective(s) /\ x \notin Range(s) => IsInjective(Append(s, x))
<1>1. /\ Len(s) \in Nat /\ DOMAIN s = 1..Len(s) /\ DOMAIN Append(s, x) = 1..Len(s) + 1
      /\ \A i \in 1..Len(s) + 1 : Append(s, x)[i] = IF i <= Len(s) THEN s[i] ELSE x
  OBVIOUS
<1> QED
  BY <1>1 DEF Range, IsInjective

LEMMA TableGains ==
  ASSUME NEW t \in Tables, NEW u \in Tables, NEW n \in Names, t[n] = 0, NEW x, x # 0,
         \A m \in Names : u[m] = IF m = n THEN x ELSE t[m]
  PROVE  Range(u) \ {0} = (Range(t) \ {0}) \cup {x}
BY DEF Tables, Range

-----------------------------------------------------------------------------
(* A declaration *)

\* Whatever becomes of it, a declaration joins the record.
LEMMA DeclaresTypes ==
  ASSUME TypeOK, Tabled, NEW sort \in Sorts, NEW n \in Names, Declares(sort, n)
  PROVE  /\ declared' \in Seq(Declaration) /\ Len(declared') = Len(declared) + 1
         /\ Len(declared) \in Nat /\ Len(declared') <= MaxDeclarations
         /\ \A i \in 1..Len(declared) : declared'[i] = declared[i]
         /\ declared'[Len(declared')] = [sort |-> sort, name |-> n]
         /\ checks' \in Seq(Seq(Nat)) /\ Len(checks') = Len(declared')
         /\ attached' \in Seq(1..Len(declared'))
         /\ This = Len(declared') /\ This \in 1..Chassis
<1>1. declared \in Seq(Declaration) /\ checks \in Seq(Seq(Nat)) /\ Len(checks) = Len(declared)
  BY DEF TypeOK, Declaration, Sorts
<1>2. [sort |-> sort, name |-> n] \in Declaration
  BY DEF Declaration
<1>3. declared' = Append(declared, [sort |-> sort, name |-> n]) /\ Len(declared) < MaxDeclarations
  BY DEF Declares
<1>4. /\ declared' \in Seq(Declaration) /\ Len(declared') = Len(declared) + 1
      /\ Len(declared) \in Nat
      /\ \A i \in 1..Len(declared) : declared'[i] = declared[i]
      /\ declared'[Len(declared')] = [sort |-> sort, name |-> n]
  BY <1>1, <1>2, <1>3, AppendFacts
<1>5. checks' \in Seq(Seq(Nat)) /\ Len(checks') = Len(declared')
  <2>1. PICK c : checks' = Append(checks, c) /\ c \in {<<0>>, <<>>}
    BY DEF Declares, Base
  <2>2. c \in Seq(Nat)
    <3>1. <<0>> \in Seq(Nat) /\ <<>> \in Seq(Nat)
      OBVIOUS
    <3> QED
      BY <2>1, <3>1
  <2> QED
    BY <1>1, <1>4, <2>1, <2>2, AppendFacts
<1>6. attached' \in Seq(1..Len(declared'))
  BY <1>4 DEF Declares, TypeOK
<1>7. Len(declared') <= MaxDeclarations
  BY <1>3, <1>4, RegistryAssumption
<1>8. This = Len(declared') /\ This \in 1..Chassis
  BY <1>4, <1>7, RegistryAssumption DEF This, Chassis
<1> QED
  BY <1>4, <1>5, <1>6, <1>7, <1>8

\* The earlier ones are as bad as they were.
LEMMA BadStays ==
  ASSUME TypeOK, Len(declared) \in Nat, Len(declared') = Len(declared) + 1,
         \A i \in 1..Len(declared) : declared'[i] = declared[i]
  PROVE  \A i \in 1..Len(declared) : Bad(i)' <=> Bad(i)
<1> TAKE i \in 1..Len(declared)
<1>1. \A j \in 1..(i - 1) : j \in 1..Len(declared)
  OBVIOUS
<1> QED
  BY <1>1 DEF Bad

\* The new one is bad if its name is reserved or taken.
LEMMA BadNow ==
  ASSUME TypeOK, Tabled, NEW sort \in Sorts, NEW n \in Names, Declares(sort, n),
         NEW CONSTANT i, i = This
  PROVE  Bad(i)' <=> (n \in Reserved[sort] \/ Declared(sort, n))
<1>1. /\ Len(declared) \in Nat /\ i = Len(declared) + 1
      /\ \A j \in 1..Len(declared) : declared'[j] = declared[j]
      /\ declared'[i] = [sort |-> sort, name |-> n]
  BY DeclaresTypes
<1>2. declared'[i].sort = sort /\ declared'[i].name = n /\ 1..(i - 1) = 1..Len(declared)
  BY <1>1
<1>3. (\E j \in 1..(i - 1) : declared'[j] = declared'[i]) <=> Declared(sort, n)
  BY <1>1, <1>2 DEF Declared
<1> QED
  BY <1>2, <1>3 DEF Bad

\* A bad declaration is told of, once, and no other is.
LEMMA ToldStays ==
  ASSUME TypeOK, Tabled, Told, NEW sort \in Sorts, NEW n \in Names, Declares(sort, n),
         NEW CONSTANT i, i = This,
         \/ Bad(i)' /\ errs' = Append(errs, i)
         \/ ~Bad(i)' /\ UNCHANGED errs
  PROVE  Told'
<1>1. /\ Len(declared) \in Nat /\ Len(declared') = Len(declared) + 1 /\ i = Len(declared')
      /\ \A j \in 1..Len(declared) : declared'[j] = declared[j]
  BY DeclaresTypes
<1>2. \A j \in 1..Len(declared) : Bad(j)' <=> j \in Range(errs)
  BY <1>1, BadStays DEF Told
<1>3. errs \in Seq(Nat) /\ i \in Nat /\ \A k \in Range(errs) : k \in Nat /\ k < i
  BY <1>1 DEF TypeOK, Told, Range
<1>4. i \notin Range(errs)
  BY <1>3
<1>5. CASE Bad(i)' /\ errs' = Append(errs, i)
  <2>1. IsInjective(errs') /\ Range(errs') = Range(errs) \cup {i}
    BY <1>3, <1>4, <1>5, AppendSet DEF Told
  <2>2. \A k \in Range(errs') : k <= Len(declared')
    BY <1>1, <1>3, <2>1
  <2>3. \A j \in 1..Len(declared') : Bad(j)' <=> j \in Range(errs')
    BY <1>1, <1>2, <1>4, <1>5, <2>1
  <2> QED
    BY <2>1, <2>2, <2>3 DEF Told, Range
<1>6. CASE ~Bad(i)' /\ UNCHANGED errs
  <2>1. \A j \in 1..Len(declared') : Bad(j)' <=> j \in Range(errs')
    BY <1>1, <1>2, <1>4, <1>6
  <2> QED
    BY <1>1, <1>6, <2>1, <1>3 DEF Told, Range
<1> QED
  BY <1>5, <1>6

LEMMA DeclaredGrows ==
  ASSUME TypeOK, Tabled, NEW sort \in Sorts, NEW n \in Names, Declares(sort, n),
         NEW other \in Sorts, NEW m \in Names
  PROVE  Declared(other, m)' <=> (Declared(other, m) \/ (other = sort /\ m = n))
<1>1. /\ Len(declared) \in Nat /\ Len(declared') = Len(declared) + 1
      /\ \A j \in 1..Len(declared) : declared'[j] = declared[j]
      /\ declared'[Len(declared')] = [sort |-> sort, name |-> n]
  BY DeclaresTypes
<1>2. 1..Len(declared') = (1..Len(declared)) \cup {Len(declared')}
  BY <1>1
<1>3. [sort |-> sort, name |-> n] = [sort |-> other, name |-> m] <=> (other = sort /\ m = n)
  OBVIOUS
<1> QED
  BY <1>1, <1>2, <1>3 DEF Declared

-----------------------------------------------------------------------------
(* The steps *)

\* What a declaration leaves alone.
LEMMA RestKept ==
  ASSUME RegistryInv, NEW sort \in Sorts, NEW n \in Names, Declares(sort, n)
  PROVE  /\ reported' \in Seq(Nat) /\ accepted' \in 0..NotYet
         /\ run' \in [command : Tables, query : Tables] /\ ChassisServes'
BY DEF RegistryInv, TypeOK, Declares, ChassisServes

LEMMA HandleKeeps ==
  ASSUME RegistryInv, NEW n \in Names, Handle(n)
  PROVE  RegistryInv'
<1> PICK i : i = This
  OBVIOUS
<1>0. /\ TypeOK /\ Tabled /\ Told /\ Declares("command", n) /\ "command" \in Sorts
      /\ Reserved["command"] = ReservedCommands
  BY DEF RegistryInv, Handle, Sorts, Reserved
<1>1. /\ Len(declared') <= MaxDeclarations /\ i = Len(declared') /\ i \in 1..Chassis
      /\ Len(declared') = Len(declared) + 1 /\ Len(declared) \in Nat
      /\ declared' \in Seq([sort : {"command", "query"}, name : Names])
      /\ checks' \in Seq(Seq(Nat)) /\ Len(checks') = Len(declared')
      /\ attached' \in Seq(1..Len(declared'))
  BY <1>0, DeclaresTypes DEF Declaration, Sorts
<1>2. Bad(i)' <=> (n \in ReservedCommands \/ Declared("command", n))
  BY <1>0, BadNow
<1>3. Bad(i)' <=> (n \in ReservedCommands \/ commands[n] # 0)
  BY <1>0, <1>2 DEF Tabled
<1>4. \A m \in Names : /\ Declared("command", m)' <=> (Declared("command", m) \/ m = n)
                       /\ Declared("query", m)' <=> Declared("query", m)
  BY <1>0, DeclaredGrows DEF Sorts
<1>5. /\ reported' \in Seq(Nat) /\ accepted' \in 0..NotYet
      /\ run' \in [command : Tables, query : Tables] /\ ChassisServes'
  BY <1>0, RestKept
<1>6. commands \in Tables /\ queries \in Tables /\ live \subseteq 1..Len(declared)
      /\ live = Range(commands) \ {0} /\ errs \in Seq(Nat) /\ i \in Nat
  BY <1>0, <1>1 DEF TypeOK
<1>7. CASE Bad(i)' /\ Reject
  <2>1. errs' = Append(errs, i) /\ UNCHANGED <<commands, queries, live>>
    BY <1>7 DEF Reject
  <2>2. errs' \in Seq(Nat)
    BY <1>6, <2>1, AppendFacts
  <2>3. TypeOK'
    BY <1>1, <1>5, <1>6, <2>1, <2>2 DEF TypeOK
  <2>4. Tabled'
    BY <1>0, <1>1, <1>3, <1>4, <1>7, <2>1 DEF Tabled
  <2>5. Told'
    BY <1>0, <1>7, <2>1, ToldStays
  <2> QED
    BY <1>5, <2>3, <2>4, <2>5 DEF RegistryInv
<1>8. CASE /\ ~Bad(i)' /\ commands[n] = 0 /\ n \notin ReservedCommands
           /\ commands' = [commands EXCEPT ![n] = i] /\ live' = live \cup {i}
           /\ UNCHANGED <<queries, errs>>
  <2>1. /\ commands' \in Tables
        /\ Range(commands') \ {0} = (Range(commands) \ {0}) \cup {i}
    <3>1. commands \in Tables /\ commands[n] = 0 /\ i \in 0..Chassis /\ i # 0
      BY <1>1, <1>6, <1>8
    <3>2. commands' \in Tables /\ \A m \in Names : commands'[m] = IF m = n THEN i ELSE commands[m]
      BY <1>8, <3>1 DEF Tables
    <3> QED
      BY <3>1, <3>2, TableGains
  <2>2. live' \subseteq 1..Len(declared') /\ live' = Range(commands') \ {0}
    <3>1. live' = live \cup {i} /\ live' = Range(commands') \ {0}
      BY <1>6, <1>8, <2>1
    <3>2. i \in 1..Len(declared') /\ 1..Len(declared) \subseteq 1..Len(declared')
      BY <1>1
    <3> QED
      BY <1>6, <3>1, <3>2
  <2>3. TypeOK'
    BY <1>1, <1>5, <1>6, <1>8, <2>1, <2>2 DEF TypeOK
  <2>4. \A m \in Names : commands'[m] # 0 <=> (commands[m] # 0 \/ m = n)
    BY <1>1, <1>6, <1>8 DEF Tables
  <2>5. Tabled'
    BY <1>0, <1>1, <1>4, <1>8, <2>4 DEF Tabled
  <2>6. Told'
    BY <1>0, <1>8, ToldStays
  <2> QED
    BY <1>5, <2>3, <2>5, <2>6 DEF RegistryInv
<1> QED
  BY <1>3, <1>7, <1>8 DEF Handle

LEMMA HandleQueryKeeps ==
  ASSUME RegistryInv, NEW n \in Names, HandleQuery(n)
  PROVE  RegistryInv'
<1> PICK i : i = This
  OBVIOUS
<1>0. /\ TypeOK /\ Tabled /\ Told /\ Declares("query", n) /\ "query" \in Sorts
      /\ Reserved["query"] = ReservedQueries
  BY DEF RegistryInv, HandleQuery, Sorts, Reserved
<1>1. /\ Len(declared') <= MaxDeclarations /\ i = Len(declared') /\ i \in 1..Chassis
      /\ Len(declared') = Len(declared) + 1 /\ Len(declared) \in Nat
      /\ declared' \in Seq([sort : {"command", "query"}, name : Names])
      /\ checks' \in Seq(Seq(Nat)) /\ Len(checks') = Len(declared')
      /\ attached' \in Seq(1..Len(declared'))
  BY <1>0, DeclaresTypes DEF Declaration, Sorts
<1>2. Bad(i)' <=> (n \in ReservedQueries \/ Declared("query", n))
  BY <1>0, BadNow
<1>3. Bad(i)' <=> (n \in ReservedQueries \/ queries[n] # 0)
  BY <1>0, <1>2 DEF Tabled
<1>4. \A m \in Names : /\ Declared("query", m)' <=> (Declared("query", m) \/ m = n)
                       /\ Declared("command", m)' <=> Declared("command", m)
  BY <1>0, DeclaredGrows DEF Sorts
<1>5. /\ reported' \in Seq(Nat) /\ accepted' \in 0..NotYet
      /\ run' \in [command : Tables, query : Tables] /\ ChassisServes'
  BY <1>0, RestKept
<1>6. queries \in Tables /\ commands \in Tables /\ live \subseteq 1..Len(declared)
      /\ live = Range(commands) \ {0} /\ errs \in Seq(Nat) /\ i \in Nat
  BY <1>0, <1>1 DEF TypeOK
<1>7. CASE Bad(i)' /\ Reject
  <2>1. errs' = Append(errs, i) /\ UNCHANGED <<commands, queries, live>>
    BY <1>7 DEF Reject
  <2>2. errs' \in Seq(Nat)
    BY <1>6, <2>1, AppendFacts
  <2>3. TypeOK'
    BY <1>1, <1>5, <1>6, <2>1, <2>2 DEF TypeOK
  <2>4. Tabled'
    BY <1>0, <1>1, <1>3, <1>4, <1>7, <2>1 DEF Tabled
  <2>5. Told'
    BY <1>0, <1>7, <2>1, ToldStays
  <2> QED
    BY <1>5, <2>3, <2>4, <2>5 DEF RegistryInv
<1>8. CASE /\ ~Bad(i)' /\ queries[n] = 0 /\ n \notin ReservedQueries
           /\ queries' = [queries EXCEPT ![n] = i] /\ live' = live
           /\ UNCHANGED <<commands, errs>>
  <2>1. /\ queries' \in Tables
        /\ Range(queries') \ {0} = (Range(queries) \ {0}) \cup {i}
    <3>1. queries \in Tables /\ queries[n] = 0 /\ i \in 0..Chassis /\ i # 0
      BY <1>1, <1>6, <1>8
    <3>2. queries' \in Tables /\ \A m \in Names : queries'[m] = IF m = n THEN i ELSE queries[m]
      BY <1>8, <3>1 DEF Tables
    <3> QED
      BY <3>1, <3>2, TableGains
  <2>2. live' \subseteq 1..Len(declared') /\ live' = Range(commands') \ {0}
    BY <1>1, <1>6, <1>8, <2>1
  <2>3. TypeOK'
    BY <1>1, <1>5, <1>6, <1>8, <2>1, <2>2 DEF TypeOK
  <2>4. \A m \in Names : queries'[m] # 0 <=> (queries[m] # 0 \/ m = n)
    BY <1>1, <1>6, <1>8 DEF Tables
  <2>5. Tabled'
    BY <1>0, <1>1, <1>4, <1>8, <2>4 DEF Tabled
  <2>6. Told'
    BY <1>0, <1>8, ToldStays
  <2> QED
    BY <1>5, <2>3, <2>5, <2>6 DEF RegistryInv
<1> QED
  BY <1>3, <1>7, <1>8 DEF HandleQuery

\* The other operations declare nothing.
LEMMA DeclaredKept ==
  ASSUME Tabled, Told, UNCHANGED <<declared, commands, queries, errs>>
  PROVE  Tabled' /\ Told'
BY DEF Tabled, Declared, Told, Bad

LEMMA ValidateKeeps ==
  ASSUME RegistryInv, NEW i \in 1..Len(declared), Validate(i)
  PROVE  RegistryInv'
<1>1. /\ UNCHANGED <<declared, commands, queries, live, errs, reported, accepted, run>>
      /\ attached' = Append(attached, i) /\ attached \in Seq(1..Len(declared))
      /\ checks \in Seq(Seq(Nat)) /\ Len(checks) = Len(declared)
  BY DEF Validate, Attaches, RegistryInv, TypeOK
<1>2. attached' \in Seq(1..Len(declared))
  BY <1>1, AppendFacts
<1>3. checks' \in Seq(Seq(Nat)) /\ Len(checks') = Len(declared)
  <2>1. CASE checks' = [checks EXCEPT ![i] = Append(@, Len(attached) + 1)]
    <3>1. checks[i] \in Seq(Nat) /\ Len(attached) + 1 \in Nat
      BY <1>1
    <3>2. Append(checks[i], Len(attached) + 1) \in Seq(Nat)
      BY <3>1, AppendFacts
    <3> QED
      BY <1>1, <2>1, <3>2
  <2>2. CASE UNCHANGED checks
    BY <1>1, <2>2
  <2> QED
    BY <2>1, <2>2 DEF Validate
<1>4. TypeOK'
  BY <1>1, <1>2, <1>3 DEF RegistryInv, TypeOK
<1>5. ChassisServes'
  BY <1>1 DEF RegistryInv, ChassisServes
<1> QED
  BY <1>1, <1>4, <1>5, DeclaredKept DEF RegistryInv

LEMMA RegisterKeeps ==
  ASSUME RegistryInv, Register
  PROVE  RegistryInv'
<1>1. UNCHANGED <<declared, commands, queries, live, checks, attached, errs, run>>
  BY DEF Register
<1>2. reported' \in Seq(Nat)
  BY DEF Register, RegistryInv, TypeOK
<1>3. accepted' \in 0..NotYet
  <2>1. Len(declared) \in Nat /\ Len(declared) <= MaxDeclarations
    BY DEF RegistryInv, TypeOK, Tabled
  <2> QED
    BY <2>1, RegistryAssumption DEF Register, RegistryInv, TypeOK, NotYet
<1>4. TypeOK'
  BY <1>1, <1>2, <1>3 DEF RegistryInv, TypeOK
<1>5. ChassisServes'
  BY <1>1 DEF RegistryInv, ChassisServes
<1> QED
  BY <1>1, <1>4, <1>5, DeclaredKept DEF RegistryInv

LEMMA WorkflowFnKeeps ==
  ASSUME RegistryInv, WorkflowFn
  PROVE  RegistryInv'
<1>1. /\ UNCHANGED <<declared, commands, queries, live, checks, attached, errs, reported, accepted>>
      /\ run' = [command |-> Installed("command"), query |-> Installed("query")]
  BY DEF WorkflowFn
<1>2. Table["command"] = commands /\ Table["query"] = queries
  BY DEF Table
<1>3. /\ Reserved["command"] = ReservedCommands /\ Reserved["query"] = ReservedQueries
      /\ Own["command"] = OwnCommands /\ Own["query"] = OwnQueries
  BY DEF Reserved, Own
<1>4. commands \in Tables /\ queries \in Tables /\ Chassis \in 0..Chassis /\ 0 \in 0..Chassis
  BY RegistryAssumption DEF RegistryInv, TypeOK, Chassis
<1>5. Installed("command") \in Tables /\ Installed("query") \in Tables
  BY <1>2, <1>4 DEF Installed, Tables
<1>6. TypeOK'
  BY <1>1, <1>5 DEF RegistryInv, TypeOK
<1>7. /\ \A n \in ReservedCommands :
           Installed("command")[n] = IF n \in OwnCommands THEN Chassis ELSE 0
      /\ \A n \in ReservedQueries :
           Installed("query")[n] = IF n \in OwnQueries THEN Chassis ELSE 0
  BY <1>2, <1>3, RegistryAssumption DEF RegistryInv, Tabled, Installed
<1>8. ChassisServes'
  BY <1>1, <1>3, <1>7 DEF ChassisServes, Reserved, Own
<1> QED
  BY <1>1, <1>6, <1>8, DeclaredKept DEF RegistryInv

-----------------------------------------------------------------------------
LEMMA RegistryStarts == Init => RegistryInv
<1> SUFFICES ASSUME Init PROVE RegistryInv
  OBVIOUS
<1>1. declared = <<>> /\ Len(declared) = 0 /\ errs \in {<<>>, <<0>>}
  BY DEF Init
<1>2. Blank \in Tables /\ \A n \in Names : Blank[n] = 0
  BY RegistryAssumption DEF Blank, Tables, Chassis
<1>3. TypeOK
  <2>1. /\ declared \in Seq([sort : {"command", "query"}, name : Names])
        /\ checks \in Seq(Seq(Nat)) /\ Len(checks) = Len(declared)
        /\ attached \in Seq(1..Len(declared)) /\ reported \in Seq(Nat)
    BY DEF Init
  <2>2. errs \in Seq(Nat)
    <3>1. <<>> \in Seq(Nat) /\ <<0>> \in Seq(Nat)
      OBVIOUS
    <3> QED
      BY <1>1, <3>1
  <2>3. /\ commands \in Tables /\ queries \in Tables
        /\ run \in [command : Tables, query : Tables]
    BY <1>2 DEF Init
  <2>4. live \subseteq 1..Len(declared) /\ live = Range(commands) \ {0}
    BY <1>2 DEF Init, Range, Tables
  <2>5. accepted \in 0..NotYet
    BY RegistryAssumption DEF Init, NotYet
  <2> QED
    BY <2>1, <2>2, <2>3, <2>4, <2>5 DEF TypeOK
<1>4. Tabled
  BY <1>1, <1>2, RegistryAssumption DEF Init, Tabled, Declared
<1>5. Told
  BY <1>1 DEF Told, IsInjective, Range
<1>6. ChassisServes
  BY DEF Init, ChassisServes
<1> QED
  BY <1>3, <1>4, <1>5, <1>6 DEF RegistryInv

LEMMA RegistryKeeps == RegistryInv /\ [Next]_vars => RegistryInv'
<1> SUFFICES ASSUME RegistryInv, [Next]_vars PROVE RegistryInv'
  OBVIOUS
<1>1. CASE UNCHANGED vars
  <2>1. Tabled' /\ Told'
    BY <1>1, DeclaredKept DEF RegistryInv, vars
  <2>2. TypeOK'
    BY <1>1 DEF RegistryInv, TypeOK, vars
  <2>3. ChassisServes'
    BY <1>1 DEF RegistryInv, ChassisServes, vars
  <2> QED
    BY <2>1, <2>2, <2>3 DEF RegistryInv
<1> QED
  BY <1>1, HandleKeeps, HandleQueryKeeps, ValidateKeeps, RegisterKeeps, WorkflowFnKeeps DEF Next

\* The registry stays well formed; its problems are the bad declarations.
THEOREM RegistryCorrect == Spec => []RegistryInv
<1> QED
  BY RegistryStarts, RegistryKeeps, PTL DEF Spec

\* The variables keep their types, and the live registrations are those
\* that handle a name.
THEOREM RegistryTypeCorrect == Spec => []TypeOK
<1>1. RegistryInv => TypeOK
  BY DEF RegistryInv
<1> QED
  BY <1>1, RegistryCorrect, PTL

\* Whatever is declared, and whenever, every run serves the operations of
\* the chassis with the chassis's own handlers.
THEOREM ChassisAlwaysServes == Spec => []ChassisServes
<1>1. RegistryInv => ChassisServes
  BY DEF RegistryInv
<1> QED
  BY <1>1, RegistryCorrect, PTL

\* Register tells of the declarations the kind could not take, of all of
\* them and once, and succeeds only when there are none.
THEOREM RegisterReportsAll == Spec => ProblemsReported
<1> DEFINE Reports ==
      /\ reported' # reported =>
           /\ IsInjective(reported')
           /\ \A i \in 1..Len(declared) : Bad(i) <=> i \in Range(reported')
      /\ accepted' # accepted => \A i \in 1..Len(declared) : ~Bad(i)
<1>1. RegistryInv /\ [Next]_vars => [Reports]_vars
  <2> SUFFICES ASSUME RegistryInv, Next PROVE Reports
    BY DEF vars
  <2>1. CASE Register
    <3>1. CASE errs # <<>> /\ reported' = errs /\ UNCHANGED accepted
      BY <3>1 DEF RegistryInv, Told
    <3>2. CASE errs = <<>> /\ UNCHANGED reported
      <4>1. Range(errs) = {}
        BY <3>2 DEF Range
      <4> QED
        BY <3>2, <4>1 DEF RegistryInv, Told
    <3> QED
      BY <2>1, <3>1, <3>2 DEF Register
  <2>2. CASE ~Register
    <3>1. UNCHANGED <<reported, accepted>>
      BY <2>2 DEF Next, Handle, HandleQuery, Declares, Validate, Attaches, WorkflowFn
    <3> QED
      BY <3>1
  <2> QED
    BY <2>1, <2>2
<1> QED
  BY <1>1, RegistryCorrect, PTL DEF Spec, ProblemsReported

-----------------------------------------------------------------------------
(* What a run serves *)

\* A good declaration handles its name, and its chain is complete and in order.
GoodInv ==
  \A i \in 1..Len(declared) : ~Bad(i) =>
    /\ Table[declared[i].sort][declared[i].name] = i
    /\ declared[i].sort = "command" =>
         Ascends(checks[i]) /\ Range(checks[i]) = {Base} \cup ValidatorsOf(i)

\* What Register let pass was good, and a run installed it.
AcceptedInv ==
  accepted # NotYet =>
    accepted <= Len(declared) /\ \A i \in 1..accepted : ~Bad(i)

InstalledInv ==
  run.query # Blank \/ run.command # Blank =>
    /\ accepted # NotYet
    /\ \A i \in 1..accepted : run[declared[i].sort][declared[i].name] = i

DeclaredInv == GoodInv /\ AcceptedInv /\ InstalledInv

\* A chain grows at its end.
LEMMA ChainGrows ==
  ASSUME NEW s \in Seq(Nat), NEW k \in Nat, \A x \in Range(s) : x < k, Ascends(s)
  PROVE  Ascends(Append(s, k)) /\ Range(Append(s, k)) = Range(s) \cup {k}
<1>1. /\ Len(s) \in Nat /\ DOMAIN s = 1..Len(s) /\ DOMAIN Append(s, k) = 1..Len(s) + 1
      /\ \A i \in 1..Len(s) + 1 : Append(s, k)[i] = IF i <= Len(s) THEN s[i] ELSE k
  OBVIOUS
<1>2. \A i \in 1..Len(s) : s[i] \in Range(s)
  BY <1>1 DEF Range
<1>3. Range(Append(s, k)) = Range(s) \cup {k}
  BY AppendSet
<1> QED
  BY <1>1, <1>2, <1>3 DEF Ascends

LEMMA DeclarationTyped ==
  TypeOK => /\ Len(declared) \in Nat
            /\ \A j \in 1..Len(declared) : declared[j].sort \in Sorts /\ declared[j].name \in Names
<1> SUFFICES ASSUME TypeOK
             PROVE  /\ Len(declared) \in Nat
                    /\ \A j \in 1..Len(declared) :
                         declared[j].sort \in Sorts /\ declared[j].name \in Names
  OBVIOUS
<1>1. declared \in Seq(Declaration)
  BY DEF TypeOK, Declaration, Sorts
<1>2. Len(declared) \in Nat /\ \A j \in 1..Len(declared) : declared[j] \in Declaration
  BY <1>1
<1> QED
  BY <1>2 DEF Declaration

LEMMA DeclareServes ==
  ASSUME RegistryInv, DeclaredInv, NEW n \in Names, NEW sort \in Sorts,
         Declares(sort, n), NEW CONSTANT i, i = This,
         \/ Bad(i)' /\ UNCHANGED <<commands, queries>>
         \/ /\ ~Bad(i)' /\ sort = "command" /\ commands[n] = 0 /\ UNCHANGED queries
            /\ commands' = [commands EXCEPT ![n] = i]
         \/ /\ ~Bad(i)' /\ sort = "query" /\ queries[n] = 0 /\ UNCHANGED commands
            /\ queries' = [queries EXCEPT ![n] = i]
  PROVE  DeclaredInv'
<1>1. /\ TypeOK /\ Tabled
      /\ Len(declared) \in Nat /\ Len(declared') = Len(declared) + 1 /\ i = Len(declared')
      /\ \A j \in 1..Len(declared) : declared'[j] = declared[j]
      /\ declared'[i] = [sort |-> sort, name |-> n] /\ i \in 1..Chassis
  BY DeclaresTypes DEF RegistryInv
<1>2. \A j \in 1..Len(declared) : Bad(j)' <=> Bad(j)
  BY <1>1, BadStays
<1>3. /\ UNCHANGED <<attached, accepted, run>>
      /\ checks' = Append(checks, IF sort = "command" THEN <<Base>> ELSE <<>>)
  BY DEF Declares
<1>4. /\ checks \in Seq(Seq(Nat)) /\ Len(checks) = Len(declared)
      /\ commands \in Tables /\ queries \in Tables /\ attached \in Seq(1..Len(declared))
      /\ \A j \in 1..Len(declared) : declared[j].sort \in Sorts /\ declared[j].name \in Names
  BY <1>1, DeclarationTyped DEF TypeOK
<1>5. /\ \A j \in 1..Len(declared) : checks'[j] = checks[j]
      /\ sort = "command" => checks'[i] = <<Base>>
  BY <1>1, <1>3, <1>4
<1>6. \A j \in 1..Len(declared) : ValidatorsOf(j)' = ValidatorsOf(j)
  BY <1>3 DEF ValidatorsOf
<1>7. ValidatorsOf(i)' = {}
  BY <1>1, <1>3, <1>4 DEF ValidatorsOf
<1>8. Ascends(<<Base>>) /\ Range(<<Base>>) = {Base}
  BY DEF Ascends, Range
<1>9. \A j \in 1..Len(declared) : ~Bad(j) =>
         Table'[declared[j].sort][declared[j].name] = j
  <2> TAKE j \in 1..Len(declared)
  <2> SUFFICES ASSUME ~Bad(j) PROVE Table'[declared[j].sort][declared[j].name] = j
    OBVIOUS
  <2>1. Table[declared[j].sort][declared[j].name] = j /\ j # 0
    BY <1>1 DEF DeclaredInv, GoodInv
  <2>2. CASE declared[j].sort = "command"
    <3>1. commands[declared[j].name] = j
      BY <2>1, <2>2 DEF Table
    <3>2. commands'[declared[j].name] = j
      BY <1>4, <2>1, <3>1 DEF Tables
    <3> QED
      BY <2>2, <3>2 DEF Table
  <2>3. CASE declared[j].sort = "query"
    <3>1. queries[declared[j].name] = j
      BY <2>1, <2>3 DEF Table
    <3>2. queries'[declared[j].name] = j
      BY <1>4, <2>1, <3>1 DEF Tables
    <3> QED
      BY <2>3, <3>2 DEF Table
  <2> QED
    BY <1>4, <2>2, <2>3 DEF Sorts
<1>10. ~Bad(i)' => Table'[sort][n] = i
  BY <1>4 DEF Table, Tables
<1>11. GoodInv'
  <2>1. \A j \in 1..Len(declared) : ~Bad(j)' =>
          /\ Table'[declared'[j].sort][declared'[j].name] = j
          /\ declared'[j].sort = "command" =>
               Ascends(checks'[j]) /\ Range(checks'[j]) = {Base} \cup ValidatorsOf(j)'
    BY <1>1, <1>2, <1>5, <1>6, <1>9 DEF DeclaredInv, GoodInv
  <2>2. ~Bad(i)' =>
          /\ Table'[declared'[i].sort][declared'[i].name] = i
          /\ declared'[i].sort = "command" =>
               Ascends(checks'[i]) /\ Range(checks'[i]) = {Base} \cup ValidatorsOf(i)'
    <3>1. declared'[i].sort = sort /\ declared'[i].name = n
      BY <1>1
    <3>2. sort = "command" => Ascends(checks'[i]) /\ Range(checks'[i]) = {Base}
      BY <1>5, <1>8
    <3> QED
      BY <3>1, <3>2, <1>7, <1>10
  <2>3. 1..Len(declared') = 1..Len(declared) \cup {i}
    BY <1>1
  <2> QED
    BY <2>1, <2>2, <2>3 DEF GoodInv
<1>12. AcceptedInv'
  BY <1>1, <1>2, <1>3 DEF DeclaredInv, AcceptedInv, TypeOK
<1>13. InstalledInv'
  BY <1>1, <1>3 DEF DeclaredInv, AcceptedInv, InstalledInv, TypeOK
<1> QED
  BY <1>11, <1>12, <1>13 DEF DeclaredInv

LEMMA ValidateServes ==
  ASSUME RegistryInv, DeclaredInv, NEW i \in 1..Len(declared),
         declared[i].sort = "command", Validate(i)
  PROVE  DeclaredInv'
<1>1. /\ UNCHANGED <<declared, commands, queries, live, accepted, run>>
      /\ attached' = Append(attached, i) /\ attached \in Seq(1..Len(declared))
      /\ checks \in Seq(Seq(Nat)) /\ Len(checks) = Len(declared)
      /\ commands \in Tables /\ live = Range(commands) \ {0}
      /\ declared[i].name \in Names /\ Len(declared) \in Nat
  BY DeclarationTyped DEF Validate, Attaches, RegistryInv, TypeOK
<1> DEFINE new == Len(attached) + 1
<1>2. /\ new \in Nat /\ Len(attached') = new /\ attached'[new] = i
      /\ \A k \in 1..Len(attached) : attached'[k] = attached[k] /\ k < new
      /\ 1..Len(attached') = (1..Len(attached)) \cup {new}
  BY <1>1, AppendFacts
<1>3. \A j \in 1..Len(declared) : Bad(j)' <=> Bad(j)
  BY <1>1 DEF Bad
<1>4. \A j \in 1..Len(declared) :
         ValidatorsOf(j)' = ValidatorsOf(j) \cup (IF j = i THEN {new} ELSE {})
  BY <1>2 DEF ValidatorsOf
<1>5. \A j \in 1..Len(declared) : j # i => checks'[j] = checks[j]
  BY <1>1 DEF Validate
<1>6. ASSUME ~Bad(i)
      PROVE  Ascends(checks'[i]) /\ Range(checks'[i]) = Range(checks[i]) \cup {new}
  <2>1. commands[declared[i].name] = i /\ i # 0
    BY <1>6 DEF DeclaredInv, GoodInv, Table
  <2>2. i \in live
    BY <1>1, <2>1 DEF Range, Tables
  <2>3. checks'[i] = Append(checks[i], new) /\ checks[i] \in Seq(Nat)
    BY <1>1, <2>2 DEF Validate
  <2>4. Ascends(checks[i]) /\ \A x \in Range(checks[i]) : x < new
    BY <1>2, <1>6 DEF DeclaredInv, GoodInv, ValidatorsOf, Base
  <2> QED
    BY <1>2, <2>3, <2>4, ChainGrows
<1> HIDE DEF new
<1>7. GoodInv'
  <2>1. declared' = declared /\ Table' = Table
    BY <1>1 DEF Table
  <2>2. ASSUME NEW j \in 1..Len(declared), ~Bad(j)
        PROVE  /\ Table[declared[j].sort][declared[j].name] = j
               /\ declared[j].sort = "command" =>
                    Ascends(checks'[j]) /\ Range(checks'[j]) = {Base} \cup ValidatorsOf(j)'
    <3>1. /\ Table[declared[j].sort][declared[j].name] = j
          /\ declared[j].sort = "command" =>
               Ascends(checks[j]) /\ Range(checks[j]) = {Base} \cup ValidatorsOf(j)
      BY <2>2 DEF DeclaredInv, GoodInv
    <3>2. CASE j = i
      BY <3>1, <3>2, <2>2, <1>4, <1>6
    <3>3. CASE j # i
      BY <3>1, <3>3, <1>4, <1>5
    <3> QED
      BY <3>2, <3>3
  <2> QED
    BY <2>1, <2>2, <1>3 DEF GoodInv
<1>8. AcceptedInv'
  BY <1>1 DEF DeclaredInv, AcceptedInv, Bad
<1>9. InstalledInv'
  BY <1>1 DEF DeclaredInv, InstalledInv
<1> QED
  BY <1>7, <1>8, <1>9 DEF DeclaredInv

LEMMA DeclaredKeeps == RegistryInv /\ DeclaredInv /\ [Next]_vars => DeclaredInv'
<1> SUFFICES ASSUME RegistryInv, DeclaredInv, [Next]_vars PROVE DeclaredInv'
  OBVIOUS
<1>1. ASSUME NEW n \in Names, Handle(n) PROVE DeclaredInv'
  <2> PICK i : i = This
    OBVIOUS
  <2>1. Declares("command", n) /\ "command" \in Sorts /\ TypeOK /\ Tabled
        /\ Reserved["command"] = ReservedCommands
    BY <1>1 DEF Handle, Sorts, Reserved, RegistryInv
  <2>2. Bad(i)' <=> (n \in ReservedCommands \/ commands[n] # 0)
    BY <2>1, BadNow DEF Tabled
  <2> QED
    BY <1>1, <2>1, <2>2, DeclareServes DEF Handle, Reject
<1>2. ASSUME NEW n \in Names, HandleQuery(n) PROVE DeclaredInv'
  <2> PICK i : i = This
    OBVIOUS
  <2>1. Declares("query", n) /\ "query" \in Sorts /\ TypeOK /\ Tabled
        /\ Reserved["query"] = ReservedQueries
    BY <1>2 DEF HandleQuery, Sorts, Reserved, RegistryInv
  <2>2. Bad(i)' <=> (n \in ReservedQueries \/ queries[n] # 0)
    BY <2>1, BadNow DEF Tabled
  <2> QED
    BY <1>2, <2>1, <2>2, DeclareServes DEF HandleQuery, Reject
<1>3. ASSUME UNCHANGED <<declared, commands, queries, checks, attached>>
      PROVE  GoodInv' /\ \A i \in 1..Len(declared) : Bad(i)' <=> Bad(i)
  BY <1>3 DEF DeclaredInv, GoodInv, Table, ValidatorsOf, Bad
<1>4. CASE Register
  <2>1. /\ UNCHANGED <<declared, commands, queries, checks, attached, run>>
        /\ Len(declared) \in Nat
    BY <1>4 DEF Register, RegistryInv, TypeOK
  <2>2. CASE UNCHANGED accepted
    BY <1>3, <2>1, <2>2 DEF DeclaredInv, AcceptedInv, InstalledInv, Bad
  <2>3. CASE errs = <<>> /\ accepted = NotYet /\ accepted' = Len(declared)
    <3>1. \A i \in 1..Len(declared) : ~Bad(i)
      BY <2>3 DEF RegistryInv, Told, Range
    <3>2. AcceptedInv'
      BY <1>3, <2>1, <2>3, <3>1 DEF AcceptedInv
    <3> QED
      BY <1>3, <2>1, <2>3, <3>2 DEF DeclaredInv, InstalledInv
  <2> QED
    BY <1>4, <2>2, <2>3 DEF Register
<1>5. CASE WorkflowFn
  <2>1. /\ UNCHANGED <<declared, commands, queries, checks, attached, accepted>>
        /\ accepted # NotYet
        /\ run'["command"] = Installed("command") /\ run'["query"] = Installed("query")
    BY <1>5 DEF WorkflowFn
  <2>2. AcceptedInv'
    BY <2>1 DEF DeclaredInv, AcceptedInv, Bad
  <2>3. ASSUME NEW i \in 1..accepted PROVE run'[declared[i].sort][declared[i].name] = i
    <3>1. i \in 1..Len(declared) /\ ~Bad(i) /\ i # 0
      BY <2>1, <2>3 DEF DeclaredInv, AcceptedInv, RegistryInv, TypeOK
    <3>2. Table[declared[i].sort][declared[i].name] = i
      BY <3>1 DEF DeclaredInv, GoodInv
    <3>3. declared[i].sort \in {"command", "query"} /\ declared[i].name \in Names
      BY <3>1, DeclarationTyped DEF RegistryInv, Sorts
    <3>4. Installed(declared[i].sort)[declared[i].name] = i
      BY <3>1, <3>2, <3>3 DEF Installed
    <3> QED
      BY <2>1, <3>3, <3>4
  <2>4. InstalledInv'
    BY <2>1, <2>3 DEF InstalledInv
  <2> QED
    BY <1>3, <2>1, <2>2, <2>4 DEF DeclaredInv
<1>6. CASE UNCHANGED vars
  BY <1>3, <1>6 DEF vars, DeclaredInv, AcceptedInv, InstalledInv, Bad
<1> QED
  BY <1>1, <1>2, <1>4, <1>5, <1>6, ValidateServes DEF Next

\* Nothing a successful Register accepted is dropped or shadowed by what is
\* declared later: every run serves each of those declarations, with every
\* validator attached to it, in order.
THEOREM RunsServeDeclared == Spec => []ServesDeclared
<1>1. Init => DeclaredInv
  <2> SUFFICES ASSUME Init PROVE DeclaredInv
    OBVIOUS
  <2>1. Len(declared) = 0 /\ accepted = NotYet /\ run.command = Blank /\ run.query = Blank
    BY DEF Init
  <2> QED
    BY <2>1 DEF DeclaredInv, GoodInv, AcceptedInv, InstalledInv
<1>2. RegistryInv /\ DeclaredInv => ServesDeclared
  <2> SUFFICES ASSUME RegistryInv, DeclaredInv, run.query # Blank \/ run.command # Blank,
                      NEW i \in 1..accepted
               PROVE  /\ run[declared[i].sort][declared[i].name] = i
                      /\ declared[i].sort = "command" =>
                           Ascends(checks[i]) /\ Range(checks[i]) = {Base} \cup ValidatorsOf(i)
    BY DEF ServesDeclared
  <2>1. i \in 1..Len(declared) /\ ~Bad(i)
    BY DEF DeclaredInv, AcceptedInv, InstalledInv, RegistryInv, TypeOK
  <2> QED
    BY <2>1 DEF DeclaredInv, GoodInv, InstalledInv
<1> QED
  BY <1>1, <1>2, DeclaredKeeps, RegistryCorrect, PTL DEF Spec

=============================================================================
