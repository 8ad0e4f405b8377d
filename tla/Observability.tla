---------------------------- MODULE Observability -----------------------------
(***************************************************************************)
(* What a request leaves behind (observability.py, main.py's middleware):  *)
(* operation() times each nested piece of work, counts its errors in the   *)
(* metric registry and ends a span, which the exporter keeps in a bounded  *)
(* list; the middleware counts and times the request as a whole.           *)
(*                                                                         *)
(* The registry takes a lock around each of its operations, so a scrape of *)
(* /metrics reads all of it at one moment: what a scrape can see is what   *)
(* the variables are in some state. The exporter has no lock. Its append,  *)
(* its slice and its slice assignment are one step each under the          *)
(* interpreter's lock. Handlers run on the threads of a pool; the          *)
(* middleware of all requests runs on one event loop, and awaits nothing   *)
(* between the handler's end and the request's.                            *)
(*                                                                         *)
(* What raises is an Exception: that a request's task is cancelled, which  *)
(* the server does only as it goes down, is left out.                      *)
(***************************************************************************)
EXTENDS Integers, Sequences, FiniteSets

CONSTANTS
  Tasks,          \* requests that can be in progress at once
  Inner,          \* names of the operations inside a request
  MaximumSpans,   \* SanitizedSpanExporter.maximum_spans
  MaximumDepth,   \* bound: nested operations of one request
  MaximumEnded    \* bound: operations begun after so many spans ended

ASSUME LimitAssumption == MaximumSpans \in Nat \ {0}
ASSUME NameAssumption == "http.request" \notin Inner
ASSUME TaskAssumption == IsFiniteSet(Tasks)

VARIABLES
  pc,           \* where each task is
  open,         \* its open operations, outermost first
  raising,      \* an exception is on its way out of them
  held,         \* the slice its export has taken
  spans,        \* SPAN_EXPORTER.spans, as the numbers of the spans in order
  ended,        \* how many spans have been appended
  errors,       \* finvoice_operation_errors, by operation
  durations,    \* finvoice_operation_duration_seconds_count, by operation
  requests,     \* finvoice_http_requests, by status
  timed,        \* finvoice_http_request_duration_seconds_count
  overlapped    \* history: two exports were in progress at once

vars == <<pc, open, raising, held, spans, ended, errors, durations, requests, timed,
          overlapped>>
registry == <<errors, durations, requests, timed>>
exporter == <<held, spans, ended, overlapped>>

Names == Inner \union {"http.request"}
Statuses == {"answered", "500"}

Init ==
  /\ pc = [t \in Tasks |-> "idle"]
  /\ open = [t \in Tasks |-> <<>>]
  /\ raising = [t \in Tasks |-> FALSE]
  /\ held = [t \in Tasks |-> <<>>]
  /\ spans = <<>> /\ ended = 0 /\ overlapped = FALSE
  /\ errors = [n \in Names |-> 0] /\ durations = [n \in Names |-> 0]
  /\ requests = [s \in Statuses |-> 0] /\ timed = 0

Goto(t, place) == pc' = [pc EXCEPT ![t] = place]
Innermost(t) == open[t][Len(open[t])]
Exporting(t) == pc[t] \in {"slice", "store"}

\* The task is in a part of the middleware that the event loop does not leave.
Closing == {"error", "observe", "append", "slice", "store"}
OnLoop(t) ==
  \/ pc[t] \in Closing /\ Len(open[t]) = 1
  \/ pc[t] \in {"count", "time"}
LoopFree(t) == Len(open[t]) = 1 => \A u \in Tasks \ {t} : ~OnLoop(u)

----------------------------------------------------------------------------
\* The middleware begins a request, or work inside it begins an operation.
Begin(t) ==
  /\ ended < MaximumEnded
  /\ \/ /\ pc[t] = "idle"
        /\ open' = [open EXCEPT ![t] = <<"http.request">>]
     \/ /\ pc[t] = "body" /\ ~raising[t] /\ Len(open[t]) < MaximumDepth
        /\ \E name \in Inner : open' = [open EXCEPT ![t] = Append(@, name)]
  /\ Goto(t, "body")
  /\ raising' = [raising EXCEPT ![t] = FALSE]
  /\ UNCHANGED <<exporter, registry>>

\* The innermost operation's work is done; or raises, as it does when an exception
\* that left an operation inside it is not caught there.
Leave(t) ==
  /\ pc[t] = "body" /\ ~raising[t] /\ LoopFree(t)
  /\ Goto(t, "observe")
  /\ UNCHANGED <<open, raising, exporter, registry>>

Raise(t) ==
  /\ pc[t] = "body" /\ LoopFree(t)
  /\ Goto(t, "error")
  /\ raising' = [raising EXCEPT ![t] = TRUE]
  /\ UNCHANGED <<open, exporter, registry>>

Catch(t) ==
  /\ pc[t] = "body" /\ raising[t]
  /\ raising' = [raising EXCEPT ![t] = FALSE]
  /\ UNCHANGED <<pc, open, exporter, registry>>

CountError(t) ==
  /\ pc[t] = "error"
  /\ errors' = [errors EXCEPT ![Innermost(t)] = @ + 1]
  /\ Goto(t, "observe")
  /\ UNCHANGED <<open, raising, exporter, durations, requests, timed>>

Observe(t) ==
  /\ pc[t] = "observe"
  /\ durations' = [durations EXCEPT ![Innermost(t)] = @ + 1]
  /\ Goto(t, "append")
  /\ UNCHANGED <<open, raising, exporter, errors, requests, timed>>

\* The span ends and is exported: it is appended to the list ...
AppendSpan(t) ==
  /\ pc[t] = "append"
  /\ ended' = ended + 1
  /\ spans' = Append(spans, ended')
  /\ overlapped' = (overlapped \/ \E u \in Tasks : Exporting(u))
  /\ Goto(t, "slice")
  /\ UNCHANGED <<open, raising, held, registry>>

\* ... the last of the list are taken ...
\* Mutant of Latest: the first spans are kept.
LatestFirst(list) ==
  IF Len(list) <= MaximumSpans THEN list ELSE SubSeq(list, 1, MaximumSpans)
Latest(list) ==
  IF Len(list) <= MaximumSpans THEN list
  ELSE SubSeq(list, Len(list) - MaximumSpans + 1, Len(list))

Slice(t) ==
  /\ pc[t] = "slice"
  /\ held' = [held EXCEPT ![t] = Latest(spans)]
  /\ Goto(t, "store")
  /\ UNCHANGED <<open, raising, spans, ended, overlapped, registry>>

\* ... and become the list. With that the operation is left.
Store(t) ==
  /\ pc[t] = "store"
  /\ spans' = held[t]
  /\ held' = [held EXCEPT ![t] = <<>>]
  /\ open' = [open EXCEPT ![t] = SubSeq(@, 1, Len(@) - 1)]
  /\ Goto(t, IF Len(open[t]) = 1 THEN "count" ELSE "body")
  /\ UNCHANGED <<raising, ended, overlapped, registry>>

\* The middleware's finally: the status is 500 unless a response was made.
\* Mutant of Status: a request is counted as answered from the start.
StatusAssumed(t) == "answered"
Status(t) == IF raising[t] THEN "500" ELSE "answered"

CountRequest(t) ==
  /\ pc[t] = "count"
  /\ requests' = [requests EXCEPT ![Status(t)] = @ + 1]
  /\ Goto(t, "time")
  /\ UNCHANGED <<open, raising, exporter, errors, durations, timed>>

TimeRequest(t) ==
  /\ pc[t] = "time"
  /\ timed' = timed + 1
  /\ Goto(t, "idle")
  /\ raising' = [raising EXCEPT ![t] = FALSE]
  /\ UNCHANGED <<open, exporter, errors, durations, requests>>

Next ==
  \E t \in Tasks :
    \/ Begin(t) \/ Leave(t) \/ Raise(t) \/ Catch(t) \/ CountError(t) \/ Observe(t)
    \/ AppendSpan(t) \/ Slice(t) \/ Store(t) \/ CountRequest(t) \/ TimeRequest(t)

Spec == Init /\ [][Next]_vars

----------------------------------------------------------------------------
(***************************************************************************)
(* Properties.                                                             *)
(***************************************************************************)

\* Every variable has its type.
TypeOK ==
  /\ pc \in [Tasks -> Closing \union {"idle", "body", "count", "time"}]
  /\ open \in [Tasks -> Seq(Names)]
  /\ raising \in [Tasks -> BOOLEAN]
  /\ held \in [Tasks -> Seq(1..ended)]
  /\ spans \in Seq(1..ended)
  /\ ended \in Nat
  /\ errors \in [Names -> Nat] /\ durations \in [Names -> Nat]
  /\ requests \in [Statuses -> Nat] /\ timed \in Nat
  /\ overlapped \in BOOLEAN

\* However exports interleave, the list keeps spans in the order they ended and
\* none twice; it is over its limit only by spans of exports still in progress;
\* and an export that meets no other loses nothing but the oldest.
SpansSound ==
  /\ \A i, j \in DOMAIN spans : i < j => spans[i] < spans[j]
  /\ Len(spans) <= MaximumSpans + Cardinality({t \in Tasks : Exporting(t)})
  /\ (~overlapped /\ \A t \in Tasks : ~Exporting(t))
       => LET kept == IF ended < MaximumSpans THEN ended ELSE MaximumSpans
          IN spans = [i \in 1..kept |-> ended - kept + i]

\* Whenever the registry is scraped, its numbers agree up to the one request the
\* event loop is just finishing: every request counted was timed as an operation
\* first and is timed as a request next, and a 500 is an error of its operation.
ScrapeConsistent ==
  LET counted == requests["answered"] + requests["500"] IN
  /\ timed <= counted /\ counted <= durations["http.request"]
  /\ durations["http.request"] <= timed + 1
  /\ requests["500"] <= errors["http.request"]
  /\ errors["http.request"] <= requests["500"] + 1
================================================================================
