------------------------------ MODULE ToolGateway ------------------------------
(***************************************************************************)
(* The tool gateway (tools/gateway.py) over the synthetic repository       *)
(* (tools/demo_tools.py), as the HTTP inspector (api/demo_tools.py) runs   *)
(* it: a plain `def` route, so each request runs in a thread of a pool,    *)
(* all of them on one gateway and one repository.                          *)
(*                                                                         *)
(* A step is what one thread does between two places where another may see *)
(* or change shared state: the repository's list is read for the next      *)
(* ticket number and then appended to, a metric is counted and then an     *)
(* audit event is appended. Arguments are what a handler makes of them.    *)
(***************************************************************************)
EXTENDS Integers, Sequences, FiniteSets

CONSTANTS
  Threads,       \* the worker threads
  Requests,      \* the calls callers may make: tool, arguments, context
  UnknownTool,   \* a name that is not in the registry
  MaximumCalls   \* bound on the calls made

Scopes == {"accounts:read", "tickets:write"}
Context == [authenticated: BOOLEAN, scopes: SUBSET Scopes, confirmed: BOOLEAN]

StatusTool == "get_demo_account_status"
TicketTool == "create_demo_support_ticket"
Tools == {StatusTool, TicketTool}

\* What a handler finds its arguments to be: "unhashable" is a category that no
\* set can be asked for (a list, say), which raises TypeError.
Arguments == {"valid", "invalid", "unhashable"}

Request == [tool: Tools \union {UnknownTool}, arguments: Arguments, context: Context]

ASSUME ThreadAssumption == IsFiniteSet(Threads)
ASSUME RequestAssumption == Requests \subseteq Request
ASSUME UnknownAssumption == UnknownTool \notin Tools
ASSUME BoundAssumption == MaximumCalls \in Nat

VARIABLES
  calls,     \* the calls made, in order: a call is its place here
  thread,    \* per thread: where it is, its call, the number it read
  tickets,   \* the repository's list
  audit,     \* audit_events
  counted,   \* finvoice_mcp_calls, by outcome
  answers    \* per call: what the inspector answered, or "pending"

vars == <<calls, thread, tickets, audit, counted, answers>>

Outcomes == {"succeeded", "denied_or_failed"}
Doing(place, n, number, answer) ==
  [at |-> place, call |-> n, number |-> number, answer |-> answer]
Idle == Doing("idle", 0, 0, "pending")

Init ==
  /\ calls = <<>>
  /\ thread = [t \in Threads |-> Idle]
  /\ tickets = <<>>
  /\ audit = <<>>
  /\ counted = [o \in Outcomes |-> 0]
  /\ answers = <<>>

CallOf(t) == calls[thread[t].call]
At(t, place) == thread[t].at = place
Goto(t, place) == thread' = [thread EXCEPT ![t].at = place]
\* The work of the thread's call is over, with an answer; it is not yet audited.
Finish(t, answer) ==
  thread' = [thread EXCEPT ![t] = Doing("count", @.call, @.number, answer)]
Answered == {n \in DOMAIN answers : answers[n] # "pending"}

----------------------------------------------------------------------------
(***************************************************************************)
(* execute.                                                                *)
(***************************************************************************)

RequiredScopes(tool) ==
  IF tool = StatusTool THEN {"accounts:read"} ELSE {"tickets:write"}
SideEffect(tool) == tool = TicketTool

\* Mutant of Denied: confirmation is not asked for.
DeniedByScope(tool, context) ==
  \/ RequiredScopes(tool) # {} /\ ~context.authenticated
  \/ ~(RequiredScopes(tool) \subseteq context.scopes)

\* authorize: one of its three checks raises.
Denied(tool, context) ==
  \/ RequiredScopes(tool) # {} /\ ~context.authenticated
  \/ ~(RequiredScopes(tool) \subseteq context.scopes)
  \/ SideEffect(tool) /\ ~context.confirmed

\* A call, and for the properties the calls answered before it was made.
Call(request) ==
  [tool |-> request.tool, arguments |-> request.arguments,
   context |-> request.context, after |-> Answered]

Start(t, request) ==
  /\ At(t, "idle")
  /\ Len(calls) < MaximumCalls
  /\ request.tool \in Tools
  /\ calls' = Append(calls, Call(request))
  /\ answers' = Append(answers, "pending")
  /\ thread' = [thread EXCEPT ![t] =
                  Doing("authorize", Len(calls) + 1, 0, "pending")]
  /\ UNCHANGED <<tickets, audit, counted>>

\* A name that is not in the registry raises before the call is given an audit
\* identifier.
StartUnknown(t, request) ==
  /\ At(t, "idle")
  /\ Len(calls) < MaximumCalls
  /\ request.tool \notin Tools
  /\ calls' = Append(calls, Call(request))
  /\ answers' = Append(answers, "404")
  /\ UNCHANGED <<thread, tickets, audit, counted>>

\* Something in the try block raised: the answer is known, the audit is to do.
Raise(t, answer) ==
  /\ Finish(t, answer)
  /\ UNCHANGED <<calls, tickets, audit, counted, answers>>

\* Mutants of Deny: authorization raises outside the try block; a denial is
\* audited without being counted.
DenyUnaudited(t) ==
  /\ At(t, "authorize")
  /\ Denied(CallOf(t).tool, CallOf(t).context)
  /\ answers' = [answers EXCEPT ![thread[t].call] = "403"]
  /\ thread' = [thread EXCEPT ![t] = Idle]
  /\ UNCHANGED <<calls, tickets, audit, counted>>
DenyUncounted(t) ==
  /\ At(t, "authorize")
  /\ Denied(CallOf(t).tool, CallOf(t).context)
  /\ thread' = [thread EXCEPT ![t] = Doing("audit", @.call, @.number, "403")]
  /\ UNCHANGED <<calls, tickets, audit, counted, answers>>

Deny(t) ==
  /\ At(t, "authorize")
  /\ Denied(CallOf(t).tool, CallOf(t).context)
  /\ Raise(t, "403")

Authorize(t) ==
  /\ At(t, "authorize")
  /\ ~Denied(CallOf(t).tool, CallOf(t).context)
  /\ Goto(t, "handler")
  /\ UNCHANGED <<calls, tickets, audit, counted, answers>>

\* get_account_status: only reads what never changes.
ReadStatus(t) ==
  /\ At(t, "handler")
  /\ CallOf(t).tool = StatusTool
  /\ CallOf(t).arguments = "valid"
  /\ Finish(t, "200")
  /\ UNCHANGED <<calls, tickets, audit, counted, answers>>

\* Mutant of RefuseArguments: an exception that is no ValueError ends the thread.
RefuseInvalidOnly(t) ==
  /\ At(t, "handler")
  /\ CallOf(t).arguments = "invalid"
  /\ Raise(t, "422")

\* The handler refuses its arguments: ValueError is 422; the TypeError of an
\* unhashable category is nobody's, 500.
RefuseArguments(t) ==
  /\ At(t, "handler")
  /\ CallOf(t).arguments # "valid"
  /\ Raise(t, IF CallOf(t).tool = TicketTool /\ CallOf(t).arguments = "unhashable"
              THEN "500" ELSE "422")

\* Mutant of NumberTicket: tickets are numbered per caller.
NumberTicketPerCaller(t) ==
  /\ At(t, "handler")
  /\ CallOf(t).tool = TicketTool
  /\ CallOf(t).arguments = "valid"
  /\ thread' = [thread EXCEPT ![t].at = "append",
       ![t].number = 1 + Cardinality({i \in DOMAIN tickets :
                             calls[tickets[i].call].context = CallOf(t).context})]
  /\ UNCHANGED <<calls, tickets, audit, counted, answers>>

\* create_support_ticket: the next number is read...
NumberTicket(t) ==
  /\ At(t, "handler")
  /\ CallOf(t).tool = TicketTool
  /\ CallOf(t).arguments = "valid"
  /\ thread' = [thread EXCEPT ![t] =
                  Doing("append", @.call, Len(tickets) + 1, @.answer)]
  /\ UNCHANGED <<calls, tickets, audit, counted, answers>>

\* ...and the ticket appended, when other threads may have appended theirs.
AppendTicket(t) ==
  /\ At(t, "append")
  /\ tickets' = Append(tickets, [number |-> thread[t].number, call |-> thread[t].call])
  /\ Finish(t, "200")
  /\ UNCHANGED <<calls, audit, counted, answers>>

\* Mutant of OutcomeOf: the status is recorded in place of the outcome.
OutcomeIsAnswer(t) == thread[t].answer
OutcomeOf(t) == IF thread[t].answer = "200" THEN "succeeded" ELSE "denied_or_failed"

Count(t) ==
  /\ At(t, "count")
  /\ counted' = [counted EXCEPT ![OutcomeOf(t)] = @ + 1]
  /\ Goto(t, "audit")
  /\ UNCHANGED <<calls, tickets, audit, answers>>

\* The audit event is appended, and the call returns or raises.
Audit(t) ==
  /\ At(t, "audit")
  /\ audit' = Append(audit, [call |-> thread[t].call, outcome |-> OutcomeOf(t)])
  /\ answers' = [answers EXCEPT ![thread[t].call] = thread[t].answer]
  /\ thread' = [thread EXCEPT ![t] = Idle]
  /\ UNCHANGED <<calls, tickets, counted>>

Step(t) ==
  \/ Deny(t) \/ Authorize(t)
  \/ ReadStatus(t) \/ RefuseArguments(t)
  \/ NumberTicket(t) \/ AppendTicket(t)
  \/ Count(t) \/ Audit(t)

Next ==
  \E t \in Threads :
    \/ \E request \in Requests : Start(t, request) \/ StartUnknown(t, request)
    \/ Step(t)

\* A thread that serves a request keeps running.
Spec == Init /\ [][Next]_vars /\ \A t \in Threads : WF_vars(Step(t))

----------------------------------------------------------------------------
(***************************************************************************)
(* Properties.                                                             *)
(***************************************************************************)

AuditEvents == [call: 1..MaximumCalls, outcome: Outcomes]
EventsOf(n) == {i \in DOMAIN audit : audit[i].call = n}
TicketsOf(n) == {i \in DOMAIN tickets : tickets[i].call = n}

\* Every variable has its type.
TypeOK ==
  /\ calls \in Seq([tool: Tools \union {UnknownTool}, arguments: Arguments,
                    context: Context, after: SUBSET (1..MaximumCalls)])
  /\ thread \in [Threads -> [at: {"idle", "authorize", "handler", "append",
                                  "count", "audit"},
                             call: 0..MaximumCalls, number: 0..MaximumCalls,
                             answer: {"pending", "200", "403", "422", "500"}]]
  /\ tickets \in Seq([number: 1..MaximumCalls, call: 1..MaximumCalls])
  /\ audit \in Seq(AuditEvents)
  /\ counted \in [Outcomes -> 0..MaximumCalls]
  /\ answers \in Seq({"pending", "200", "403", "404", "422", "500"})

\* The audit tells what happened: a call of a known tool that was answered has
\* one event, of the outcome the caller saw; one not yet answered has none, nor has
\* one of a tool that is not in the registry; and a ticket is in the repository
\* exactly when its call is said to have succeeded.
AuditFaithful ==
  \A n \in DOMAIN calls :
    /\ Cardinality(EventsOf(n)) =
         IF n \in Answered /\ calls[n].tool \in Tools THEN 1 ELSE 0
    /\ \A i \in EventsOf(n) :
         audit[i].outcome = "succeeded" <=> answers[n] = "200"
    /\ n \in Answered /\ calls[n].tool = TicketTool =>
         Cardinality(TicketsOf(n)) = IF answers[n] = "200" THEN 1 ELSE 0

\* Whatever the threads interleave, every ticket written is one its caller was
\* allowed to write and confirmed, with arguments the handler accepts.
TicketsAuthorized ==
  \A i \in DOMAIN tickets :
    LET call == calls[tickets[i].call]
    IN /\ call.tool = TicketTool /\ call.arguments = "valid"
       /\ call.context.authenticated /\ call.context.confirmed
       /\ "tickets:write" \in call.context.scopes

\* Ticket numbers repeat only between calls that overlapped: a ticket asked for
\* after another was answered has the higher number, and none is numbered
\* beyond its place in the list.
NumbersFollowCalls ==
  /\ \A i \in DOMAIN tickets : tickets[i].number <= i
  /\ \A i, j \in DOMAIN tickets :
       tickets[i].call \in calls[tickets[j].call].after =>
         tickets[i].number < tickets[j].number

\* The metric agrees with the audit but for the calls between the two.
MetricMatchesAudit ==
  \A o \in Outcomes :
    counted[o] =
      Cardinality({i \in DOMAIN audit : audit[i].outcome = o})
        + Cardinality({t \in Threads : At(t, "audit") /\ OutcomeOf(t) = o})

\* Every call is answered in the end, whatever its arguments.
EveryCallAnswered ==
  \A n \in 1..MaximumCalls : n \in DOMAIN answers ~> n \in Answered
================================================================================
