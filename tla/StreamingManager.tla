--------------------------- MODULE StreamingManager ---------------------------
(***************************************************************************)
(* The process's StreamingSessionManager (streaming/session.py) and the    *)
(* WebSocket route that is its one client (api/streaming.py): sockets open *)
(* sessions by name, keep the object they were given, and remove the name  *)
(* when they end.                                                          *)
(*                                                                         *)
(* All of it runs on one event loop; a step is what happens between two    *)
(* awaits of one socket's coroutine. Of a session the manager looks only   *)
(* at last_activity_at, so a chunk is whether it refreshes that: an        *)
(* accepted chunk or a duplicate does, a refused one and a bad message do  *)
(* not (StreamingSession says which is which).                             *)
(***************************************************************************)
EXTENDS Integers, FiniteSets

CONSTANTS
  Sockets,          \* connection slots of clients; reused after a close
  Names,            \* the session identifiers in the URL
  NoName,           \* no identifier: a closed slot's
  MaximumSessions,  \* maximum_sessions
  Inactive,         \* inactive_session_ms, in ticks
  MaximumTime,      \* bound on the clock
  MaximumCreated,   \* bound on the session objects created
  Faults            \* "factory": building a transcription provider may raise

ASSUME NamesAssumption == NoName \notin Names
ASSUME FiniteNames == IsFiniteSet(Names)
ASSUME LimitAssumption == MaximumSessions \in Nat \ {0} /\ Inactive \in Nat \ {0}
ASSUME BoundAssumption == MaximumTime \in Nat /\ MaximumCreated \in Nat
ASSUME FaultAssumption == Faults \subseteq {"factory"}

VARIABLES
  registry,   \* _sessions: the object registered under a name, or NoSession
  created,    \* session objects created so far: object n is the n-th
  lastActive, \* last_activity_at of each object
  now,        \* the monotonic clock
  gauge,      \* finvoice_streaming_active_sessions
  socket      \* per slot: state, the name it serves, the object it holds

vars == <<registry, created, lastActive, now, gauge, socket>>

NoSession == 0
Objects == 1..MaximumCreated

Closed == [state |-> "closed", name |-> NoName, session |-> NoSession]
Refusing(name) == [state |-> "refusing", name |-> name, session |-> NoSession]
Serving(name, object) == [state |-> "serving", name |-> name, session |-> object]

Init ==
  /\ registry = [name \in Names |-> NoSession]
  /\ created = 0
  /\ lastActive = [object \in Objects |-> 0]
  /\ now = 0
  /\ gauge = 0
  /\ socket = [s \in Sockets |-> Closed]

----------------------------------------------------------------------------
(***************************************************************************)
(* The manager.                                                            *)
(***************************************************************************)

Registered(sessions) == {name \in Names : sessions[name] # NoSession}

\* active_count
ActiveCount(sessions) == Cardinality(Registered(sessions))

Expired ==
  {name \in Registered(registry) : now - lastActive[registry[name]] >= Inactive}

\* cleanup_inactive
Cleaned ==
  [name \in Names |-> IF name \in Expired THEN NoSession ELSE registry[name]]

\* Mutant of Removed: a session still active is kept for a reconnection.
RemovedWithGrace(name) ==
  IF name \in Registered(registry) \ Expired THEN registry
  ELSE [registry EXCEPT ![name] = NoSession]

\* remove
Removed(name) == [registry EXCEPT ![name] = NoSession]

\* Mutant of Admits: off by one.
AdmitsOneMore(sessions) == ActiveCount(sessions) <= MaximumSessions
Admits(sessions) == ActiveCount(sessions) < MaximumSessions

----------------------------------------------------------------------------
(***************************************************************************)
(* A socket opens: get_or_create, then the gauge.                          *)
(***************************************************************************)

OpenExisting(s, name) ==
  /\ socket[s].state = "closed"
  /\ registry[name] # NoSession
  /\ socket' = [socket EXCEPT ![s] = Serving(name, registry[name])]
  /\ gauge' = ActiveCount(registry)
  /\ UNCHANGED <<registry, created, lastActive, now>>

OpenNew(s, name) ==
  /\ socket[s].state = "closed"
  /\ registry[name] = NoSession
  /\ Admits(Cleaned)
  /\ created < MaximumCreated
  /\ created' = created + 1
  /\ lastActive' = [lastActive EXCEPT ![created + 1] = now]
  /\ registry' = [Cleaned EXCEPT ![name] = created + 1]
  /\ gauge' = ActiveCount(registry')
  /\ socket' = [socket EXCEPT ![s] = Serving(name, created + 1)]
  /\ UNCHANGED now

\* The limit is reached, or the provider cannot be built: session_rejected. What
\* cleanup removed stays removed, and the gauge is not set.
OpenRefused(s, name) ==
  /\ socket[s].state = "closed"
  /\ registry[name] = NoSession
  /\ ~Admits(Cleaned) \/ "factory" \in Faults
  /\ registry' = Cleaned
  /\ socket' = [socket EXCEPT ![s] = Refusing(name)]
  /\ UNCHANGED <<created, lastActive, now, gauge>>

\* Mutant of RefusalSent: a refused socket removes the name it asked for too.
RefusalSentRemoves(s) ==
  /\ socket[s].state = "refusing"
  /\ registry' = Removed(socket[s].name)
  /\ gauge' = ActiveCount(registry')
  /\ socket' = [socket EXCEPT ![s] = Closed]
  /\ UNCHANGED <<created, lastActive, now>>

\* The refusal is sent and the socket closed; the manager is not touched.
RefusalSent(s) ==
  /\ socket[s].state = "refusing"
  /\ socket' = [socket EXCEPT ![s] = Closed]
  /\ UNCHANGED <<registry, created, lastActive, now, gauge>>

----------------------------------------------------------------------------
(***************************************************************************)
(* A socket serves its client.                                             *)
(***************************************************************************)

\* A chunk the session takes, or acknowledges as a duplicate. One it refuses,
\* and a bad message, change nothing here.
Chunk(s) ==
  /\ socket[s].state = "serving"
  /\ lastActive' = [lastActive EXCEPT ![socket[s].session] = now]
  /\ UNCHANGED <<registry, created, now, gauge, socket>>

\* Mutant of Leave: the gauge is set before the name is removed.
LeaveGaugeFirst(s) ==
  /\ socket[s].state = "serving"
  /\ registry' = Removed(socket[s].name)
  /\ gauge' = ActiveCount(registry)
  /\ socket' = [socket EXCEPT ![s] = Closed]
  /\ UNCHANGED <<created, lastActive, now>>

\* The client disconnects, sends what is not JSON, or accept raises: the name
\* is removed in every case.
Leave(s) ==
  /\ socket[s].state = "serving"
  /\ registry' = Removed(socket[s].name)
  /\ gauge' = ActiveCount(registry')
  /\ socket' = [socket EXCEPT ![s] = Closed]
  /\ UNCHANGED <<created, lastActive, now>>

Tick ==
  /\ now < MaximumTime
  /\ now' = now + 1
  /\ UNCHANGED <<registry, created, lastActive, gauge, socket>>

Next ==
  \/ \E s \in Sockets, name \in Names :
       OpenExisting(s, name) \/ OpenNew(s, name) \/ OpenRefused(s, name)
  \/ \E s \in Sockets : RefusalSent(s) \/ Chunk(s) \/ Leave(s)
  \/ Tick

Spec == Init /\ [][Next]_vars

----------------------------------------------------------------------------
(***************************************************************************)
(* Properties.                                                             *)
(***************************************************************************)

ServingSockets == {s \in Sockets : socket[s].state = "serving"}

\* Every variable has its type.
TypeOK ==
  /\ registry \in [Names -> Objects \union {NoSession}]
  /\ created \in 0..MaximumCreated
  /\ lastActive \in [Objects -> 0..MaximumTime]
  /\ now \in 0..MaximumTime
  /\ gauge \in 0..MaximumSessions
  /\ socket \in [Sockets -> {Closed}
                   \union {Refusing(name) : name \in Names}
                   \union {Serving(name, object) : name \in Names, object \in Objects}]

\* No session outlives its sockets: a registered session is held by a serving
\* socket of its name, however sockets open, fail, evict and disconnect. So a
\* client that comes back after everyone left never finds old audio.
NoLeak ==
  \A name \in Registered(registry) :
    \E s \in ServingSockets :
      socket[s].name = name /\ socket[s].session = registry[name]

\* The gauge never hides a session, and only an open that is refused, because
\* its provider could not be built, leaves it behind what cleanup removed.
GaugeFollows ==
  [][/\ gauge' >= ActiveCount(registry')
     /\ registry' # registry =>
          \/ gauge' = ActiveCount(registry')
          \/ \E s \in Sockets :
               socket[s].state = "closed" /\ socket'[s].state = "refusing"]_vars

\* A name loses its session only because a socket of that name ended or because
\* the session had been inactive for the configured time; in particular a
\* refused socket takes nobody's session away.
RemovalJustified ==
  [][\A name \in Registered(registry) :
       registry'[name] # registry[name] =>
         \/ now - lastActive[registry[name]] >= Inactive
         \/ \E s \in ServingSockets :
              socket[s].name = name /\ socket'[s].state = "closed"]_vars

(***************************************************************************)
(* What the documentation says of the manager and the code does not do.    *)
(***************************************************************************)

Live == {socket[s].session : s \in ServingSockets}

\* README: "the process admits at most 100 sessions": the sessions that sockets
\* are being served from are no more than the maximum.
AtMostMaximumLive == Cardinality(Live) <= MaximumSessions
================================================================================
