------------------------ MODULE StreamingManager_proofs ------------------------
(***************************************************************************)
(* What TLAPS proves of the session manager and its route for any sockets, *)
(* names, limits and faults.                                               *)
(***************************************************************************)
EXTENDS StreamingManager, FiniteSetTheorems, TLAPS

USE NamesAssumption, FiniteNames, LimitAssumption, BoundAssumption

(***************************************************************************)
(* The inductive invariant: besides the types and NoLeak, the registry is  *)
(* within its limit, and the gauge shows at least what is registered.      *)
(***************************************************************************)
WithinLimit == ActiveCount(registry) <= MaximumSessions
GaugeCovers == ActiveCount(registry) <= gauge

Inv == TypeOK /\ WithinLimit /\ GaugeCovers /\ NoLeak

(***************************************************************************)
(* Counting registered names.                                              *)
(***************************************************************************)

\* A count is a natural number, and a registry with fewer names has a lower one.
LEMMA CountType ==
  ASSUME NEW sessions
  PROVE  /\ IsFiniteSet(Registered(sessions))
         /\ ActiveCount(sessions) \in Nat
<1>1. Registered(sessions) \subseteq Names
  BY DEF Registered
<1>2. IsFiniteSet(Registered(sessions))
  BY <1>1, FS_Subset
<1> QED
  BY <1>2, FS_CardinalityType DEF ActiveCount

LEMMA CountMonotone ==
  ASSUME NEW some, NEW more, Registered(some) \subseteq Registered(more)
  PROVE  ActiveCount(some) <= ActiveCount(more)
BY CountType, FS_Subset DEF ActiveCount

\* One name more raises the count by at most one.
LEMMA CountAdded ==
  ASSUME NEW some, NEW more, NEW name,
         Registered(more) \subseteq Registered(some) \union {name}
  PROVE  ActiveCount(more) <= ActiveCount(some) + 1
<1>1. IsFiniteSet(Registered(some)) /\ ActiveCount(some) \in Nat
  BY CountType
<1>2. /\ IsFiniteSet(Registered(some) \union {name})
      /\ Cardinality(Registered(some) \union {name}) \in {ActiveCount(some), ActiveCount(some) + 1}
  BY <1>1, FS_AddElement DEF ActiveCount
<1>3. ActiveCount(more) <= Cardinality(Registered(some) \union {name})
  BY <1>2, FS_Subset DEF ActiveCount
<1>4. ActiveCount(more) \in Nat
  BY CountType
<1> QED
  BY <1>1, <1>2, <1>3, <1>4

(***************************************************************************)
(* Cleaning and removing.                                                  *)
(***************************************************************************)

\* cleanup_inactive takes names away and changes nothing else of the registry.
LEMMA CleanedSound ==
  ASSUME TypeOK
  PROVE  /\ Cleaned \in [Names -> Objects \union {NoSession}]
         /\ Registered(Cleaned) \subseteq Registered(registry)
         /\ \A name \in Registered(Cleaned) : Cleaned[name] = registry[name]
         /\ ActiveCount(Cleaned) <= ActiveCount(registry)
<1>1. /\ Cleaned \in [Names -> Objects \union {NoSession}]
      /\ Registered(Cleaned) \subseteq Registered(registry)
      /\ \A name \in Registered(Cleaned) : Cleaned[name] = registry[name]
  BY DEF TypeOK, Cleaned, Registered
<1> QED
  BY <1>1, CountMonotone

LEMMA RemovedSound ==
  ASSUME TypeOK, NEW name \in Names
  PROVE  /\ Removed(name) \in [Names -> Objects \union {NoSession}]
         /\ Registered(Removed(name)) = Registered(registry) \ {name}
         /\ \A other \in Names \ {name} : Removed(name)[other] = registry[other]
         /\ ActiveCount(Removed(name)) <= ActiveCount(registry)
<1>1. /\ Removed(name) \in [Names -> Objects \union {NoSession}]
      /\ Registered(Removed(name)) = Registered(registry) \ {name}
      /\ \A other \in Names \ {name} : Removed(name)[other] = registry[other]
  BY DEF TypeOK, Removed, Registered
<1> QED
  BY <1>1, CountMonotone

\* What a socket in each of its states is.
LEMMA SocketKinds ==
  ASSUME TypeOK, NEW s \in Sockets
  PROVE  /\ socket[s].state = "serving" =>
              socket[s].name \in Names /\ socket[s].session \in Objects
         /\ socket[s].state \in {"closed", "refusing", "serving"}
BY DEF TypeOK, Closed, Refusing, Serving

(***************************************************************************)
(* The invariant holds at first and is kept by every action.               *)
(***************************************************************************)
LEMMA InitInv == Init => Inv
<1> SUFFICES ASSUME Init
             PROVE  Inv
  OBVIOUS
<1>1. Registered(registry) = {}
  BY DEF Init, Registered
<1>2. ActiveCount(registry) = 0
  BY <1>1, FS_EmptySet DEF ActiveCount
<1>3. TypeOK
  BY DEF Init, TypeOK, Objects, NoSession
<1> QED
  BY <1>1, <1>2, <1>3 DEF Inv, Init, WithinLimit, GaugeCovers, NoLeak

LEMMA OpenExistingInv ==
  ASSUME Inv, NEW s \in Sockets, NEW name \in Names, OpenExisting(s, name)
  PROVE  Inv'
<1> USE DEF OpenExisting
<1>1. ActiveCount(registry) \in Nat
  BY CountType
<1>2. registry[name] \in Objects
  BY DEF Inv, TypeOK
<1>3. TypeOK'
  BY <1>1, <1>2 DEF Inv, TypeOK, WithinLimit
<1>4. WithinLimit' /\ GaugeCovers'
  BY <1>1 DEF Inv, WithinLimit, GaugeCovers
<1>5. NoLeak'
  BY DEF Inv, NoLeak, ServingSockets, TypeOK, Registered
<1> QED
  BY <1>3, <1>4, <1>5 DEF Inv

LEMMA OpenNewInv ==
  ASSUME Inv, NEW s \in Sockets, NEW name \in Names, OpenNew(s, name)
  PROVE  Inv'
<1> USE DEF OpenNew
<1>1. /\ created \in Nat /\ created + 1 \in Objects
      /\ registry' \in [Names -> Objects \union {NoSession}]
      /\ registry'[name] = created + 1
      /\ \A other \in Names \ {name} : registry'[other] = Cleaned[other]
  <2>1. created \in Nat /\ created + 1 \in Objects
    BY DEF Inv, TypeOK, Objects
  <2>2. Cleaned \in [Names -> Objects \union {NoSession}]
    BY CleanedSound DEF Inv
  <2> QED
    BY <2>1, <2>2
<1>2. Registered(registry') \subseteq Registered(Cleaned) \union {name}
  BY <1>1 DEF Registered
<1>3. ActiveCount(registry') <= ActiveCount(Cleaned) + 1
  BY <1>2, CountAdded
<1>4. /\ ActiveCount(Cleaned) \in Nat /\ ActiveCount(registry') \in Nat
      /\ ActiveCount(Cleaned) < MaximumSessions
  BY CountType DEF Admits
<1>5. ActiveCount(registry') <= MaximumSessions
  BY <1>3, <1>4
<1>6. TypeOK'
  BY <1>1, <1>4, <1>5 DEF Inv, TypeOK
<1>7. WithinLimit' /\ GaugeCovers'
  <2>1. ActiveCount(registry)' = ActiveCount(registry')
    BY DEF ActiveCount, Registered
  <2> QED
    BY <2>1, <1>4, <1>5 DEF WithinLimit, GaugeCovers
<1>8. NoLeak'
  <2> SUFFICES ASSUME NEW other \in Registered(registry')
               PROVE  \E t \in ServingSockets' :
                        socket'[t].name = other /\ socket'[t].session = registry'[other]
    BY DEF NoLeak, Registered
  <2>1. CASE other = name
    BY <1>1, <2>1 DEF Inv, TypeOK, ServingSockets, Serving
  <2>2. CASE other # name
    <3>1. other \in Registered(registry) /\ registry'[other] = registry[other]
      BY <1>1, <1>2, <2>2, CleanedSound DEF Inv, Registered
    <3>2. PICK t \in ServingSockets :
            socket[t].name = other /\ socket[t].session = registry[other]
      BY <3>1 DEF Inv, NoLeak
    <3>3. t # s
      BY DEF ServingSockets
    <3> QED
      BY <3>1, <3>2, <3>3 DEF Inv, TypeOK, ServingSockets
  <2> QED
    BY <2>1, <2>2
<1> QED
  BY <1>6, <1>7, <1>8 DEF Inv

LEMMA OpenRefusedInv ==
  ASSUME Inv, NEW s \in Sockets, NEW name \in Names, OpenRefused(s, name)
  PROVE  Inv'
<1> USE DEF OpenRefused
<1>1. ActiveCount(registry') \in Nat /\ ActiveCount(registry) \in Nat
  BY CountType
<1>2. ActiveCount(registry') <= ActiveCount(registry)
  BY CleanedSound DEF Inv
<1>3. TypeOK'
  BY CleanedSound DEF Inv, TypeOK
<1>4. WithinLimit' /\ GaugeCovers'
  <2>1. ActiveCount(registry)' = ActiveCount(registry')
    BY DEF ActiveCount, Registered
  <2>2. gauge \in Nat
    BY DEF Inv, TypeOK
  <2> QED
    BY <2>1, <2>2, <1>1, <1>2 DEF Inv, WithinLimit, GaugeCovers
<1>5. NoLeak'
  <2> SUFFICES ASSUME NEW other \in Registered(registry')
               PROVE  \E t \in ServingSockets' :
                        socket'[t].name = other /\ socket'[t].session = registry'[other]
    BY DEF NoLeak, Registered
  <2>1. other \in Registered(registry) /\ registry'[other] = registry[other]
    BY CleanedSound DEF Inv
  <2>2. PICK t \in ServingSockets :
          socket[t].name = other /\ socket[t].session = registry[other]
    BY <2>1 DEF Inv, NoLeak
  <2>3. t # s
    BY DEF ServingSockets
  <2> QED
    BY <2>1, <2>2, <2>3 DEF Inv, TypeOK, ServingSockets
<1> QED
  BY <1>3, <1>4, <1>5 DEF Inv

LEMMA RefusalSentInv ==
  ASSUME Inv, NEW s \in Sockets, RefusalSent(s)
  PROVE  Inv'
<1> USE DEF RefusalSent
<1>1. TypeOK'
  BY DEF Inv, TypeOK
<1>2. WithinLimit' /\ GaugeCovers'
  BY DEF Inv, WithinLimit, GaugeCovers
<1>3. NoLeak'
  BY DEF Inv, NoLeak, ServingSockets, TypeOK, Registered
<1> QED
  BY <1>1, <1>2, <1>3 DEF Inv

LEMMA ChunkInv ==
  ASSUME Inv, NEW s \in Sockets, Chunk(s)
  PROVE  Inv'
<1> USE DEF Chunk
<1>1. TypeOK'
  <2>1. lastActive \in [Objects -> 0..MaximumTime] /\ now \in 0..MaximumTime
    BY DEF Inv, TypeOK
  <2>2. lastActive' \in [Objects -> 0..MaximumTime]
    BY <2>1
  <2> QED
    BY <2>2 DEF Inv, TypeOK
<1>2. WithinLimit' /\ GaugeCovers' /\ NoLeak'
  BY DEF Inv, WithinLimit, GaugeCovers, NoLeak, ServingSockets, Registered
<1> QED
  BY <1>1, <1>2 DEF Inv

LEMMA LeaveInv ==
  ASSUME Inv, NEW s \in Sockets, Leave(s)
  PROVE  Inv'
<1> USE DEF Leave
<1> DEFINE name == socket[s].name
<1>1. name \in Names
  BY SocketKinds DEF Inv
<1>2. ActiveCount(registry') \in Nat /\ ActiveCount(registry) \in Nat
  BY CountType
<1>3. ActiveCount(registry') <= ActiveCount(registry)
  BY <1>1, RemovedSound DEF Inv
<1>4. TypeOK'
  BY <1>1, <1>2, <1>3, RemovedSound DEF Inv, TypeOK, WithinLimit
<1>5. WithinLimit' /\ GaugeCovers'
  <2>1. ActiveCount(registry)' = ActiveCount(registry')
    BY DEF ActiveCount, Registered
  <2> QED
    BY <2>1, <1>2, <1>3 DEF Inv, WithinLimit, GaugeCovers
<1>6. NoLeak'
  <2> SUFFICES ASSUME NEW other \in Registered(registry')
               PROVE  \E t \in ServingSockets' :
                        socket'[t].name = other /\ socket'[t].session = registry'[other]
    BY DEF NoLeak, Registered
  <2>1. /\ other \in Registered(registry) /\ other # name
        /\ registry'[other] = registry[other]
    BY <1>1, RemovedSound DEF Inv, Registered
  <2>2. PICK t \in ServingSockets :
          socket[t].name = other /\ socket[t].session = registry[other]
    BY <2>1 DEF Inv, NoLeak
  <2>3. t # s
    BY <2>1, <2>2
  <2> QED
    BY <2>1, <2>2, <2>3 DEF Inv, TypeOK, ServingSockets
<1> QED
  BY <1>4, <1>5, <1>6 DEF Inv

LEMMA TickInv ==
  ASSUME Inv, Tick
  PROVE  Inv'
<1> USE DEF Tick
<1>1. TypeOK'
  BY DEF Inv, TypeOK
<1>2. WithinLimit' /\ GaugeCovers' /\ NoLeak'
  BY DEF Inv, WithinLimit, GaugeCovers, NoLeak, ServingSockets, Registered
<1> QED
  BY <1>1, <1>2 DEF Inv

LEMMA NextInv == Inv /\ [Next]_vars => Inv'
<1> SUFFICES ASSUME Inv, [Next]_vars
             PROVE  Inv'
  OBVIOUS
<1>1. CASE Next
  BY <1>1, OpenExistingInv, OpenNewInv, OpenRefusedInv, RefusalSentInv, ChunkInv,
     LeaveInv, TickInv DEF Next
<1>2. CASE UNCHANGED vars
  BY <1>2 DEF vars, Inv, TypeOK, WithinLimit, GaugeCovers, NoLeak, ServingSockets,
              ActiveCount, Registered
<1> QED
  BY <1>1, <1>2

LEMMA AlwaysInv == Spec => []Inv
BY InitInv, NextInv, PTL DEF Spec

(***************************************************************************)
(* The theorems.                                                           *)
(***************************************************************************)

\* Every variable has its type: in particular the gauge never exceeds the limit.
THEOREM TypeCorrect == Spec => []TypeOK
<1>1. Inv => TypeOK
  BY DEF Inv
<1> QED
  BY <1>1, AlwaysInv, PTL

\* No session stays registered that no socket of its name is being served from.
THEOREM NothingLeaks == Spec => []NoLeak
<1>1. Inv => NoLeak
  BY DEF Inv
<1> QED
  BY <1>1, AlwaysInv, PTL

\* The registry never holds more sessions than the limit.
THEOREM AdmitsWithinLimit == Spec => [](ActiveCount(registry) <= MaximumSessions)
<1>1. Inv => ActiveCount(registry) <= MaximumSessions
  BY DEF Inv, WithinLimit
<1> QED
  BY <1>1, AlwaysInv, PTL

\* What RemovalJustified says of a step.
JustifiedStep ==
  \A name \in Registered(registry) :
    registry'[name] # registry[name] =>
      \/ now - lastActive[registry[name]] >= Inactive
      \/ \E s \in ServingSockets :
           socket[s].name = name /\ socket'[s].state = "closed"

\* A name loses its session only to inactivity or to the end of one of its sockets.
THEOREM RemovalsAreJustified == Spec => RemovalJustified
<1>1. Inv /\ [Next]_vars => [JustifiedStep]_vars
  <2> SUFFICES ASSUME Inv, Next, NEW name \in Registered(registry),
                      registry'[name] # registry[name]
               PROVE  \/ now - lastActive[registry[name]] >= Inactive
                      \/ \E s \in ServingSockets :
                           socket[s].name = name /\ socket'[s].state = "closed"
    BY DEF JustifiedStep
  <2>1. name \in Names
    BY DEF Registered
  <2>2. CASE \E s \in Sockets, n \in Names : OpenNew(s, n) \/ OpenRefused(s, n)
    <3>1. registry[name] # NoSession
      BY DEF Registered
    <3>2. Cleaned[name] # registry[name]
      BY <2>1, <2>2, <3>1 DEF OpenNew, OpenRefused, Cleaned
    <3> QED
      BY <2>1, <3>2 DEF Cleaned, Expired
  <2>3. CASE \E s \in Sockets : Leave(s)
    <3>1. PICK s \in Sockets : Leave(s)
      BY <2>3
    <3>2. socket[s].name = name
      BY <2>1, <3>1 DEF Leave, Removed, Inv, TypeOK
    <3>3. s \in ServingSockets /\ socket'[s].state = "closed"
      BY <3>1 DEF Leave, ServingSockets, Inv, TypeOK, Closed
    <3> QED
      BY <3>2, <3>3
  <2> QED
    BY <2>2, <2>3 DEF Next, OpenExisting, RefusalSent, Chunk, Tick
<1>2. RemovalJustified <=> [][JustifiedStep]_vars
  BY PTL DEF RemovalJustified, JustifiedStep
<1> QED
  BY <1>1, <1>2, AlwaysInv, PTL DEF Spec

\* What GaugeFollows says of a step.
GaugeStep ==
  /\ gauge' >= ActiveCount(registry')
  /\ registry' # registry =>
       \/ gauge' = ActiveCount(registry')
       \/ \E s \in Sockets :
            socket[s].state = "closed" /\ socket'[s].state = "refusing"

\* The gauge hides no session, and falls behind only at a refusal.
THEOREM GaugeIsKept == Spec => GaugeFollows
<1>1. Inv /\ Inv' /\ [Next]_vars => [GaugeStep]_vars
  <2> SUFFICES ASSUME Inv, Inv', Next
               PROVE  GaugeStep
    OBVIOUS
  <2>1. gauge' >= ActiveCount(registry')
    <3>1. ActiveCount(registry)' = ActiveCount(registry')
      BY DEF ActiveCount, Registered
    <3>2. ActiveCount(registry') \in Nat /\ gauge' \in Nat
      BY CountType DEF Inv, TypeOK
    <3> QED
      BY <3>1, <3>2 DEF Inv, GaugeCovers
  <2>2. CASE gauge' = ActiveCount(registry')
    BY <2>1, <2>2 DEF GaugeStep
  <2>3. CASE registry' = registry
    BY <2>1, <2>3 DEF GaugeStep
  <2>4. CASE \E s \in Sockets, n \in Names : OpenRefused(s, n)
    <3>1. PICK s \in Sockets, n \in Names : OpenRefused(s, n)
      BY <2>4
    <3>2. socket[s].state = "closed" /\ socket'[s].state = "refusing"
      BY <3>1 DEF OpenRefused, Refusing, Inv, TypeOK
    <3> QED
      BY <2>1, <3>2 DEF GaugeStep
  <2> QED
    BY <2>2, <2>3, <2>4 DEF Next, OpenExisting, OpenNew, RefusalSent, Chunk, Leave, Tick
<1>2. GaugeFollows <=> [][GaugeStep]_vars
  BY PTL DEF GaugeFollows, GaugeStep
<1> QED
  BY <1>1, <1>2, AlwaysInv, PTL DEF Spec
================================================================================
