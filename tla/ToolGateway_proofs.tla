-------------------------- MODULE ToolGateway_proofs --------------------------
(***************************************************************************)
(* What TLAPS proves of the tool gateway for any threads, requests and     *)
(* number of calls.                                                        *)
(***************************************************************************)
EXTENDS ToolGateway, FiniteSetTheorems, TLAPS

USE RequestAssumption, UnknownAssumption, BoundAssumption

(***************************************************************************)
(* The inductive invariant. The types are those of TypeOK without its      *)
(* bounds.                                                                 *)
(***************************************************************************)
Calls == [tool: Tools \union {UnknownTool}, arguments: Arguments, context: Context,
          after: SUBSET Nat]
Tickets == [number: Nat, call: Nat]
Events == [call: Nat, outcome: Outcomes]
Answers == {"pending", "200", "403", "404", "422", "500"}
Places == {"idle", "authorize", "handler", "append", "count", "audit"}
ThreadStates ==
  [at: Places, call: Nat, number: Nat, answer: {"pending", "200", "403", "422", "500"}]

Types ==
  /\ calls \in Seq(Calls)
  /\ thread \in [Threads -> ThreadStates]
  /\ tickets \in Seq(Tickets)
  /\ audit \in Seq(Events)
  /\ answers \in Seq(Answers)
  /\ Len(answers) = Len(calls)

MyCall(t) == thread[t].call
HasTicket(n) == \E i \in DOMAIN tickets : tickets[i].call = n

\* What is known of a thread by where it is.
ThreadOK(t) ==
  /\ ~At(t, "idle") =>
       /\ MyCall(t) \in DOMAIN calls /\ answers[MyCall(t)] = "pending"
       /\ CallOf(t).tool \in Tools
  /\ thread[t].at \in {"authorize", "handler", "append"} => ~HasTicket(MyCall(t))
  /\ thread[t].at \in {"handler", "append"} => ~Denied(CallOf(t).tool, CallOf(t).context)
  /\ At(t, "append") =>
       /\ CallOf(t).tool = TicketTool /\ CallOf(t).arguments = "valid"
       /\ thread[t].number <= Len(tickets) + 1
       /\ \A i \in DOMAIN tickets :
            tickets[i].call \in CallOf(t).after => tickets[i].number < thread[t].number
  /\ thread[t].at \in {"count", "audit"} =>
       /\ thread[t].answer # "pending"
       /\ CallOf(t).tool = TicketTool =>
            (thread[t].answer = "200" <=> HasTicket(MyCall(t)))

OneThreadPerCall ==
  \A t, u \in Threads :
    t # u /\ ~At(t, "idle") /\ ~At(u, "idle") => MyCall(t) # MyCall(u)

AuditOK ==
  /\ \A i \in DOMAIN audit :
       /\ audit[i].call \in Answered
       /\ calls[audit[i].call].tool \in Tools
       /\ audit[i].outcome = "succeeded" <=> answers[audit[i].call] = "200"
  /\ \A i, j \in DOMAIN audit : audit[i].call = audit[j].call => i = j
  /\ \A n \in Answered : calls[n].tool \in Tools => \E i \in DOMAIN audit : audit[i].call = n

TicketsOK ==
  /\ \A i \in DOMAIN tickets : tickets[i].call \in DOMAIN calls
  /\ TicketsAuthorized
  /\ NumbersFollowCalls
  /\ \A i, j \in DOMAIN tickets : tickets[i].call = tickets[j].call => i = j
  /\ \A n \in Answered :
       calls[n].tool = TicketTool => (answers[n] = "200" <=> HasTicket(n))

AfterOK == \A n \in DOMAIN calls : calls[n].after \subseteq Answered

Inv ==
  /\ Types
  /\ \A t \in Threads : ThreadOK(t)
  /\ OneThreadPerCall /\ AuditOK /\ TicketsOK /\ AfterOK

(***************************************************************************)
(* Facts about the state.                                                  *)
(***************************************************************************)

\* The lists are functions on their first numbers.
LEMMA Lists ==
  ASSUME Types
  PROVE  /\ Len(calls) \in Nat /\ DOMAIN calls = 1..Len(calls)
         /\ DOMAIN answers = 1..Len(calls)
         /\ Len(tickets) \in Nat /\ DOMAIN tickets = 1..Len(tickets)
         /\ Len(audit) \in Nat /\ DOMAIN audit = 1..Len(audit)
         /\ \A n \in DOMAIN calls : calls[n] \in Calls /\ answers[n] \in Answers
         /\ \A i \in DOMAIN tickets : tickets[i].number \in Nat /\ tickets[i].call \in Nat
         /\ Answered \subseteq DOMAIN calls
         /\ \A t \in Threads : thread[t] \in ThreadStates
<1>1. /\ Len(calls) \in Nat /\ DOMAIN calls = 1..Len(calls)
      /\ DOMAIN answers = 1..Len(calls)
      /\ Len(tickets) \in Nat /\ DOMAIN tickets = 1..Len(tickets)
      /\ Len(audit) \in Nat /\ DOMAIN audit = 1..Len(audit)
  BY DEF Types
<1>2. \A n \in DOMAIN calls : calls[n] \in Calls /\ answers[n] \in Answers
  BY <1>1 DEF Types
<1>3. \A i \in DOMAIN tickets : tickets[i] \in Tickets
  BY <1>1 DEF Types
<1>4. Answered \subseteq DOMAIN calls
  BY <1>1 DEF Answered
<1>5. \A t \in Threads : thread[t] \in ThreadStates
  BY DEF Types
<1> QED
  BY <1>1, <1>2, <1>3, <1>4, <1>5 DEF Tickets

\* A step of thread t that changes nothing but where t is, and its number and
\* answer, keeps everything but what is known of t.
LEMMA LocalStep ==
  ASSUME Inv, NEW t \in Threads, NEW state \in ThreadStates,
         thread' = [thread EXCEPT ![t] = state],
         calls' = calls, tickets' = tickets, audit' = audit, answers' = answers,
         ~At(t, "idle"), state.at # "idle", state.call = MyCall(t),
         ThreadOK(t)'
  PROVE  Inv'
<1>1. Types'
  BY DEF Inv, Types
<1>2. /\ thread'[t] = state
      /\ \A u \in Threads \ {t} : thread'[u] = thread[u]
  BY DEF Inv, Types
<1>3. \A u \in Threads \ {t} : ThreadOK(u)'
  BY <1>2 DEF Inv, ThreadOK, At, MyCall, CallOf, HasTicket
<1>4. OneThreadPerCall'
  BY <1>2 DEF Inv, OneThreadPerCall, At, MyCall
<1>5. AuditOK' /\ TicketsOK' /\ AfterOK'
  BY DEF Inv, AuditOK, TicketsOK, AfterOK, Answered, HasTicket, TicketsAuthorized,
         NumbersFollowCalls
<1> QED
  BY <1>1, <1>3, <1>4, <1>5 DEF Inv

(***************************************************************************)
(* The invariant holds at first and is kept by every action.               *)
(***************************************************************************)
LEMMA InitInv == Init => Inv
<1> SUFFICES ASSUME Init
             PROVE  Inv
  OBVIOUS
<1>1. Idle \in ThreadStates
  BY DEF Idle, Doing, ThreadStates, Places
<1>2. Types
  BY <1>1 DEF Init, Types
<1>3. Answered = {}
  BY DEF Init, Answered
<1>4. AuditOK /\ AfterOK
  BY <1>3 DEF Init, AuditOK, AfterOK
<1>5. TicketsOK
  BY <1>3 DEF Init, TicketsOK, TicketsAuthorized, NumbersFollowCalls
<1>6. \A t \in Threads : At(t, "idle")
  BY DEF Init, At, Idle, Doing
<1> QED
  BY <1>2, <1>4, <1>5, <1>6 DEF Inv, ThreadOK, OneThreadPerCall, At

\* A call is made: of a known tool, which a thread takes up, or of another, which
\* is answered at once. What was called and answered before stays as it was.
LEMMA CallMade ==
  ASSUME Inv, NEW request \in Requests, NEW answer \in {"pending", "404"},
         calls' = Append(calls, Call(request)),
         answers' = Append(answers, answer),
         answer = "404" => request.tool \notin Tools,
         tickets' = tickets, audit' = audit
  PROVE  /\ calls' \in Seq(Calls) /\ answers' \in Seq(Answers)
         /\ Len(answers') = Len(calls')
         /\ DOMAIN calls' = 1..(Len(calls) + 1)
         /\ calls'[Len(calls) + 1] = Call(request)
         /\ answers'[Len(calls) + 1] = answer
         /\ \A n \in DOMAIN calls : calls'[n] = calls[n] /\ answers'[n] = answers[n]
         /\ ~HasTicket(Len(calls) + 1)
         /\ AuditOK' /\ TicketsOK' /\ AfterOK'
<1>1. /\ Len(calls) \in Nat /\ DOMAIN calls = 1..Len(calls)
      /\ DOMAIN answers = 1..Len(calls) /\ Len(answers) = Len(calls)
      /\ Answered \subseteq DOMAIN calls
      /\ calls \in Seq(Calls) /\ answers \in Seq(Answers)
  BY Lists DEF Inv, Types
<1>2. Call(request) \in Calls
  <2>1. request \in Request
    BY DEF Inv
  <2>2. Answered \subseteq Nat
    BY <1>1
  <2> QED
    BY <2>1, <2>2 DEF Call, Calls, Request
<1>3. /\ calls' \in Seq(Calls) /\ answers' \in Seq(Answers)
      /\ Len(answers') = Len(calls')
      /\ DOMAIN calls' = 1..(Len(calls) + 1) /\ DOMAIN answers' = 1..(Len(calls) + 1)
      /\ calls'[Len(calls) + 1] = Call(request)
      /\ answers'[Len(calls) + 1] = answer
      /\ \A n \in DOMAIN calls : calls'[n] = calls[n] /\ answers'[n] = answers[n]
  <2>1. answer \in Answers
    BY DEF Answers
  <2> QED
    BY <1>1, <1>2, <2>1
<1>4. Len(calls) + 1 \notin DOMAIN calls
  BY <1>1
<1>5. /\ Answered \subseteq Answered'
      /\ Answered' \subseteq Answered \union {Len(calls) + 1}
      /\ Len(calls) + 1 \in Answered' => answer = "404"
  BY <1>1, <1>3 DEF Answered
<1>6. \A i \in DOMAIN tickets : tickets[i].call \in DOMAIN calls
  BY DEF Inv, TicketsOK
<1>7. ~HasTicket(Len(calls) + 1)
  BY <1>4, <1>6 DEF HasTicket
<1>8. Call(request).tool = request.tool /\ Call(request).after = Answered
  BY DEF Call
<1>9. AuditOK'
  <2>1. \A i \in DOMAIN audit : audit[i].call \in DOMAIN calls
    BY <1>1 DEF Inv, AuditOK
  <2>2. /\ \A i \in DOMAIN audit :
             /\ audit[i].call \in Answered'
             /\ calls'[audit[i].call].tool \in Tools
             /\ audit[i].outcome = "succeeded" <=> answers'[audit[i].call] = "200"
        /\ \A i, j \in DOMAIN audit : audit[i].call = audit[j].call => i = j
    BY <1>3, <1>5, <2>1 DEF Inv, AuditOK
  <2>3. ASSUME NEW n \in Answered', calls'[n].tool \in Tools
        PROVE  \E i \in DOMAIN audit : audit[i].call = n
    <3>1. n # Len(calls) + 1
      BY <1>3, <1>5, <1>8, <2>3
    <3>2. n \in Answered /\ calls[n].tool \in Tools
      BY <1>1, <1>3, <1>5, <2>3, <3>1
    <3> QED
      BY <3>2 DEF Inv, AuditOK
  <2> QED
    BY <2>2, <2>3 DEF AuditOK
<1>10. TicketsOK'
  <2>1. \A i \in DOMAIN tickets : calls'[tickets[i].call] = calls[tickets[i].call]
    BY <1>3, <1>6
  <2>2. TicketsAuthorized' /\ NumbersFollowCalls'
    BY <2>1 DEF Inv, TicketsOK, TicketsAuthorized, NumbersFollowCalls
  <2>3. ASSUME NEW n \in Answered', calls'[n].tool = TicketTool
        PROVE  answers'[n] = "200" <=> HasTicket(n)'
    <3>1. n # Len(calls) + 1
      BY <1>3, <1>5, <1>8, <2>3 DEF Tools
    <3>2. n \in Answered /\ calls[n].tool = TicketTool /\ answers'[n] = answers[n]
      BY <1>1, <1>3, <1>5, <2>3, <3>1
    <3> QED
      BY <3>2 DEF Inv, TicketsOK, HasTicket
  <2>4. \A i \in DOMAIN tickets : tickets[i].call \in DOMAIN calls'
    BY <1>1, <1>3, <1>6
  <2> QED
    BY <2>2, <2>3, <2>4 DEF Inv, TicketsOK
<1>11. AfterOK'
  BY <1>1, <1>3, <1>5, <1>8 DEF Inv, AfterOK
<1> QED
  BY <1>3, <1>7, <1>9, <1>10, <1>11

\* The threads are as they were, when calls were only added.
LEMMA ThreadKept ==
  ASSUME Inv, NEW u \in Threads, thread'[u] = thread[u], tickets' = tickets,
         DOMAIN calls \subseteq DOMAIN calls',
         \A n \in DOMAIN calls : calls'[n] = calls[n] /\ answers'[n] = answers[n]
  PROVE  ThreadOK(u)'
<1>1. ThreadOK(u)
  BY DEF Inv
<1>2. CASE At(u, "idle")
  BY <1>2 DEF ThreadOK, At
<1>3. CASE ~At(u, "idle")
  <2>1. MyCall(u) \in DOMAIN calls
    BY <1>1, <1>3 DEF ThreadOK
  <2> QED
    BY <1>1, <1>3, <2>1 DEF ThreadOK, At, MyCall, CallOf, HasTicket
<1> QED
  BY <1>2, <1>3

LEMMA StartInv ==
  ASSUME Inv, NEW t \in Threads, NEW request \in Requests, Start(t, request)
  PROVE  Inv'
<1> DEFINE state == Doing("authorize", Len(calls) + 1, 0, "pending")
<1>1. /\ calls' = Append(calls, Call(request)) /\ answers' = Append(answers, "pending")
      /\ tickets' = tickets /\ audit' = audit /\ request.tool \in Tools
      /\ thread' = [thread EXCEPT ![t] = state] /\ At(t, "idle")
  BY DEF Start
<1>2. /\ calls' \in Seq(Calls) /\ answers' \in Seq(Answers)
      /\ Len(answers') = Len(calls')
      /\ DOMAIN calls' = 1..(Len(calls) + 1)
      /\ calls'[Len(calls) + 1] = Call(request)
      /\ answers'[Len(calls) + 1] = "pending"
      /\ \A n \in DOMAIN calls : calls'[n] = calls[n] /\ answers'[n] = answers[n]
      /\ ~HasTicket(Len(calls) + 1)
      /\ AuditOK' /\ TicketsOK' /\ AfterOK'
  BY <1>1, CallMade
<1>3. Len(calls) \in Nat /\ DOMAIN calls = 1..Len(calls)
  BY Lists DEF Inv
<1>4. state.at = "authorize" /\ state.call = Len(calls) + 1
  BY DEF Doing
<1>5. state \in ThreadStates
  BY <1>3 DEF Doing, ThreadStates, Places
<1>6. thread'[t] = state /\ \A u \in Threads \ {t} : thread'[u] = thread[u]
  BY <1>1 DEF Inv, Types
<1>7. Types'
  BY <1>1, <1>2, <1>5 DEF Inv, Types
<1> HIDE DEF state
<1>9. ThreadOK(t)'
  <2>1. CallOf(t)'.tool \in Tools
    BY <1>1, <1>2, <1>4, <1>6 DEF CallOf, Call
  <2>2. ~HasTicket(MyCall(t))'
    BY <1>1, <1>2, <1>4, <1>6 DEF HasTicket, MyCall
  <2>3. MyCall(t)' \in DOMAIN calls' /\ answers'[MyCall(t)'] = "pending"
    BY <1>2, <1>3, <1>4, <1>6 DEF MyCall
  <2> QED
    BY <1>4, <1>6, <2>1, <2>2, <2>3 DEF ThreadOK, At
<1>10. \A u \in Threads \ {t} : ThreadOK(u)'
  BY <1>1, <1>2, <1>3, <1>6, ThreadKept
<1>11. OneThreadPerCall'
  <2>1. \A u \in Threads \ {t} : ~At(u, "idle")' => MyCall(u)' \in DOMAIN calls
    BY <1>6 DEF Inv, ThreadOK, At, MyCall
  <2>2. MyCall(t)' \notin DOMAIN calls
    BY <1>3, <1>4, <1>6 DEF MyCall
  <2> QED
    BY <1>6, <2>1, <2>2 DEF Inv, OneThreadPerCall, At, MyCall
<1> QED
  BY <1>2, <1>7, <1>9, <1>10, <1>11 DEF Inv

LEMMA StartUnknownInv ==
  ASSUME Inv, NEW t \in Threads, NEW request \in Requests, StartUnknown(t, request)
  PROVE  Inv'
<1>1. /\ calls' = Append(calls, Call(request)) /\ answers' = Append(answers, "404")
      /\ tickets' = tickets /\ audit' = audit /\ request.tool \notin Tools
      /\ thread' = thread
  BY DEF StartUnknown
<1>2. /\ calls' \in Seq(Calls) /\ answers' \in Seq(Answers)
      /\ Len(answers') = Len(calls')
      /\ DOMAIN calls' = 1..(Len(calls) + 1)
      /\ \A n \in DOMAIN calls : calls'[n] = calls[n] /\ answers'[n] = answers[n]
      /\ AuditOK' /\ TicketsOK' /\ AfterOK'
  BY <1>1, CallMade
<1>3. Len(calls) \in Nat /\ DOMAIN calls = 1..Len(calls)
  BY Lists DEF Inv
<1>4. Types'
  BY <1>1, <1>2 DEF Inv, Types
<1>5. \A u \in Threads : ThreadOK(u)'
  BY <1>1, <1>2, <1>3, ThreadKept
<1>6. OneThreadPerCall'
  BY <1>1 DEF Inv, OneThreadPerCall, At, MyCall
<1> QED
  BY <1>2, <1>4, <1>5, <1>6 DEF Inv

\* Authorization, the status handler, refusals, numbering and counting.
LEMMA DenyInv ==
  ASSUME Inv, NEW t \in Threads, Deny(t)
  PROVE  Inv'
<1> DEFINE state == Doing("count", thread[t].call, thread[t].number, "403")
<1>1. /\ thread' = [thread EXCEPT ![t] = state] /\ At(t, "authorize")
      /\ calls' = calls /\ tickets' = tickets /\ audit' = audit /\ answers' = answers
  BY DEF Deny, Raise, Finish
<1>2. thread[t] \in ThreadStates
  BY Lists DEF Inv
<1>3. state \in ThreadStates
  BY <1>2 DEF Doing, ThreadStates, Places
<1>4. state.at = "count" /\ state.call = MyCall(t) /\ state.answer = "403"
  BY DEF Doing, MyCall
<1> HIDE DEF state
<1>5. thread'[t] = state
  BY <1>1 DEF Inv, Types
<1>6. ThreadOK(t)'
  BY <1>1, <1>4, <1>5 DEF Inv, ThreadOK, At, MyCall, CallOf, HasTicket
<1> QED
  BY <1>1, <1>3, <1>4, <1>6, LocalStep DEF At

LEMMA AuthorizeInv ==
  ASSUME Inv, NEW t \in Threads, Authorize(t)
  PROVE  Inv'
<1> DEFINE state == [thread[t] EXCEPT !.at = "handler"]
<1>1. /\ thread' = [thread EXCEPT ![t] = state] /\ At(t, "authorize")
      /\ calls' = calls /\ tickets' = tickets /\ audit' = audit /\ answers' = answers
      /\ ~Denied(CallOf(t).tool, CallOf(t).context)
  BY DEF Authorize, Goto
<1>2. thread[t] \in ThreadStates
  BY Lists DEF Inv
<1>3. /\ state \in ThreadStates
      /\ state.at = "handler" /\ state.call = MyCall(t)
  BY <1>2 DEF ThreadStates, Places, MyCall
<1> HIDE DEF state
<1>4. thread'[t] = state
  BY <1>1 DEF Inv, Types
<1>5. ThreadOK(t)'
  BY <1>1, <1>3, <1>4 DEF Inv, ThreadOK, At, MyCall, CallOf, HasTicket
<1> QED
  BY <1>1, <1>3, <1>5, LocalStep DEF At

\* The status handler answers, for a tool that writes no ticket.
LEMMA ReadStatusInv ==
  ASSUME Inv, NEW t \in Threads, ReadStatus(t)
  PROVE  Inv'
<1> DEFINE state == Doing("count", thread[t].call, thread[t].number, "200")
<1>1. /\ thread' = [thread EXCEPT ![t] = state] /\ At(t, "handler")
      /\ calls' = calls /\ tickets' = tickets /\ audit' = audit /\ answers' = answers
      /\ CallOf(t).tool # TicketTool
  BY DEF ReadStatus, Finish, StatusTool, TicketTool
<1>2. thread[t] \in ThreadStates
  BY Lists DEF Inv
<1>3. state \in ThreadStates
  BY <1>2 DEF Doing, ThreadStates, Places
<1>4. state.at = "count" /\ state.call = MyCall(t) /\ state.answer = "200"
  BY DEF Doing, MyCall
<1> HIDE DEF state
<1>5. thread'[t] = state
  BY <1>1 DEF Inv, Types
<1>6. ThreadOK(t)'
  BY <1>1, <1>4, <1>5 DEF Inv, ThreadOK, At, MyCall, CallOf, HasTicket
<1> QED
  BY <1>1, <1>3, <1>4, <1>6, LocalStep DEF At

LEMMA RefuseArgumentsInv ==
  ASSUME Inv, NEW t \in Threads, RefuseArguments(t)
  PROVE  Inv'
<1>1. PICK answer \in {"422", "500"} : Raise(t, answer)
  BY DEF RefuseArguments
<1> DEFINE state == Doing("count", thread[t].call, thread[t].number, answer)
<1>2. /\ thread' = [thread EXCEPT ![t] = state] /\ At(t, "handler")
      /\ calls' = calls /\ tickets' = tickets /\ audit' = audit /\ answers' = answers
  BY <1>1 DEF RefuseArguments, Raise, Finish
<1>3. thread[t] \in ThreadStates
  BY Lists DEF Inv
<1>4. state \in ThreadStates
  BY <1>3 DEF Doing, ThreadStates, Places
<1>5. state.at = "count" /\ state.call = MyCall(t) /\ state.answer \in {"422", "500"}
  BY DEF Doing, MyCall
<1> HIDE DEF state
<1>6. thread'[t] = state
  BY <1>2 DEF Inv, Types
<1>7. ThreadOK(t)'
  BY <1>2, <1>5, <1>6 DEF Inv, ThreadOK, At, MyCall, CallOf, HasTicket
<1> QED
  BY <1>2, <1>4, <1>5, <1>7, LocalStep DEF At

\* The number read is above that of every ticket in the list, which are all that
\* calls answered before this one was made have written.
LEMMA NumberTicketInv ==
  ASSUME Inv, NEW t \in Threads, NumberTicket(t)
  PROVE  Inv'
<1> DEFINE state == Doing("append", thread[t].call, Len(tickets) + 1, thread[t].answer)
<1>1. /\ thread' = [thread EXCEPT ![t] = state] /\ At(t, "handler")
      /\ calls' = calls /\ tickets' = tickets /\ audit' = audit /\ answers' = answers
      /\ CallOf(t).tool = TicketTool /\ CallOf(t).arguments = "valid"
  BY DEF NumberTicket
<1>2. /\ thread[t] \in ThreadStates
      /\ Len(tickets) \in Nat /\ DOMAIN tickets = 1..Len(tickets)
      /\ \A i \in DOMAIN tickets : tickets[i].number \in Nat
  BY Lists DEF Inv
<1>3. state \in ThreadStates
  BY <1>2 DEF Doing, ThreadStates, Places
<1>4. state.at = "append" /\ state.call = MyCall(t) /\ state.number = Len(tickets) + 1
  BY DEF Doing, MyCall
<1> HIDE DEF state
<1>5. thread'[t] = state
  BY <1>1 DEF Inv, Types
<1>6. \A i \in DOMAIN tickets : tickets[i].number < Len(tickets) + 1
  BY <1>2 DEF Inv, TicketsOK, NumbersFollowCalls
<1>7. ThreadOK(t)'
  BY <1>1, <1>2, <1>4, <1>5, <1>6 DEF Inv, ThreadOK, At, MyCall, CallOf, HasTicket
<1> QED
  BY <1>1, <1>3, <1>4, <1>7, LocalStep DEF At

LEMMA CountInv ==
  ASSUME Inv, NEW t \in Threads, Count(t)
  PROVE  Inv'
<1> DEFINE state == [thread[t] EXCEPT !.at = "audit"]
<1>1. /\ thread' = [thread EXCEPT ![t] = state] /\ At(t, "count")
      /\ calls' = calls /\ tickets' = tickets /\ audit' = audit /\ answers' = answers
  BY DEF Count, Goto
<1>2. thread[t] \in ThreadStates
  BY Lists DEF Inv
<1>3. /\ state \in ThreadStates /\ state.at = "audit" /\ state.call = MyCall(t)
      /\ state.answer = thread[t].answer
  BY <1>2 DEF ThreadStates, Places, MyCall
<1> HIDE DEF state
<1>4. thread'[t] = state
  BY <1>1 DEF Inv, Types
<1>5. ThreadOK(t)'
  BY <1>1, <1>3, <1>4 DEF Inv, ThreadOK, At, MyCall, CallOf, HasTicket
<1> QED
  BY <1>1, <1>3, <1>5, LocalStep DEF At

\* The ticket is appended under the number read before, and the call succeeds.
LEMMA AppendTicketInv ==
  ASSUME Inv, NEW t \in Threads, AppendTicket(t)
  PROVE  Inv'
<1> DEFINE state == Doing("count", thread[t].call, thread[t].number, "200")
<1> DEFINE ticket == [number |-> thread[t].number, call |-> thread[t].call]
<1>1. /\ thread' = [thread EXCEPT ![t] = state] /\ At(t, "append")
      /\ tickets' = Append(tickets, ticket)
      /\ calls' = calls /\ audit' = audit /\ answers' = answers
  BY DEF AppendTicket, Finish
<1>2. /\ thread[t] \in ThreadStates
      /\ Len(tickets) \in Nat /\ DOMAIN tickets = 1..Len(tickets)
      /\ tickets \in Seq(Tickets)
      /\ Answered \subseteq DOMAIN calls
  BY Lists DEF Inv, Types
<1>3. state \in ThreadStates /\ ticket \in Tickets
  BY <1>2 DEF Doing, ThreadStates, Places, Tickets
<1>4. /\ state.at = "count" /\ state.call = MyCall(t) /\ state.answer = "200"
      /\ ticket.call = MyCall(t) /\ ticket.number = thread[t].number
  BY DEF Doing, MyCall
<1> HIDE DEF state, ticket
<1>5. thread'[t] = state /\ \A u \in Threads \ {t} : thread'[u] = thread[u]
  BY <1>1 DEF Inv, Types
<1>6. /\ tickets' \in Seq(Tickets) /\ DOMAIN tickets' = 1..(Len(tickets) + 1)
      /\ Len(tickets') = Len(tickets) + 1
      /\ tickets'[Len(tickets) + 1] = ticket
      /\ \A i \in DOMAIN tickets : tickets'[i] = tickets[i]
  BY <1>1, <1>2, <1>3
<1>7. /\ MyCall(t) \in DOMAIN calls /\ MyCall(t) \notin Answered
      /\ ~HasTicket(MyCall(t))
      /\ CallOf(t).tool = TicketTool /\ CallOf(t).arguments = "valid"
      /\ ~Denied(CallOf(t).tool, CallOf(t).context)
      /\ thread[t].number <= Len(tickets) + 1
      /\ \A i \in DOMAIN tickets :
           tickets[i].call \in CallOf(t).after => tickets[i].number < thread[t].number
  BY <1>1 DEF Inv, ThreadOK, At, Answered
<1>8. \A n : HasTicket(n)' <=> (HasTicket(n) \/ n = MyCall(t))
  BY <1>2, <1>4, <1>6 DEF HasTicket
<1>9. Types'
  BY <1>1, <1>3, <1>6 DEF Inv, Types
<1>10. \A n \in DOMAIN calls : MyCall(t) \notin calls[n].after
  BY <1>7 DEF Inv, AfterOK
<1>11. ThreadOK(t)'
  BY <1>1, <1>4, <1>5, <1>7, <1>8 DEF Inv, ThreadOK, At, MyCall, CallOf
<1>12. ASSUME NEW u \in Threads \ {t}
       PROVE  ThreadOK(u)'
  <2>1. ThreadOK(u) /\ thread'[u] = thread[u]
    BY <1>5 DEF Inv
  <2>2. CASE At(u, "idle")
    BY <2>1, <2>2 DEF ThreadOK, At
  <2>3. CASE ~At(u, "idle")
    <3>1. MyCall(u) # MyCall(t) /\ MyCall(u) \in DOMAIN calls
      BY <1>1, <2>1, <2>3 DEF Inv, OneThreadPerCall, At, ThreadOK
    <3>2. HasTicket(MyCall(u))' <=> HasTicket(MyCall(u))
      BY <1>8, <2>1, <3>1 DEF MyCall
    <3>3. At(u, "append") =>
            /\ thread[u].number <= Len(tickets') + 1
            /\ \A i \in DOMAIN tickets' :
                 tickets'[i].call \in CallOf(u).after =>
                   tickets'[i].number < thread[u].number
      <4> SUFFICES ASSUME At(u, "append")
                   PROVE  /\ thread[u].number <= Len(tickets') + 1
                          /\ \A i \in DOMAIN tickets' :
                               tickets'[i].call \in CallOf(u).after =>
                                 tickets'[i].number < thread[u].number
        OBVIOUS
      <4>1. /\ thread[u].number <= Len(tickets) + 1
            /\ \A i \in DOMAIN tickets :
                 tickets[i].call \in CallOf(u).after => tickets[i].number < thread[u].number
        BY <2>1 DEF ThreadOK
      <4>2. thread[u].number \in Nat
        BY Lists DEF Inv, ThreadStates
      <4>3. MyCall(t) \notin CallOf(u).after
        BY <1>10, <3>1 DEF CallOf, MyCall
      <4> QED
        BY <1>2, <1>4, <1>6, <4>1, <4>2, <4>3
    <3> QED
      BY <1>1, <2>1, <2>3, <3>1, <3>2, <3>3 DEF ThreadOK, At, MyCall, CallOf
  <2> QED
    BY <2>2, <2>3
<1>13. OneThreadPerCall'
  BY <1>1, <1>4, <1>5 DEF Inv, OneThreadPerCall, At, MyCall
<1>14. AuditOK' /\ AfterOK'
  BY <1>1 DEF Inv, AuditOK, AfterOK, Answered
<1>15. TicketsOK'
  <2>1. \A i \in DOMAIN tickets : tickets[i].call \in DOMAIN calls /\ tickets[i].call # MyCall(t)
    BY <1>7 DEF Inv, TicketsOK, HasTicket
  <2>2. \A i \in DOMAIN tickets' : tickets'[i].call \in DOMAIN calls'
    BY <1>1, <1>2, <1>4, <1>6, <1>7, <2>1
  <2>3. TicketsAuthorized'
    <3>1. /\ CallOf(t).context.authenticated /\ CallOf(t).context.confirmed
          /\ "tickets:write" \in CallOf(t).context.scopes
      <4>1. RequiredScopes(TicketTool) = {"tickets:write"} /\ SideEffect(TicketTool)
        BY DEF RequiredScopes, SideEffect, TicketTool, StatusTool
      <4>2. CallOf(t).context \in Context
        BY <1>7, Lists DEF Inv, Calls, CallOf, MyCall
      <4> QED
        BY <1>7, <4>1, <4>2 DEF Denied, Context
    <3> QED
      BY <1>1, <1>2, <1>4, <1>6, <1>7, <3>1
      DEF Inv, TicketsOK, TicketsAuthorized, CallOf, MyCall
  <2>4. NumbersFollowCalls'
    <3>1. \A i \in DOMAIN tickets' : tickets'[i].number <= i
      BY <1>2, <1>4, <1>6, <1>7 DEF Inv, TicketsOK, NumbersFollowCalls
    <3>2. ASSUME NEW i \in DOMAIN tickets', NEW j \in DOMAIN tickets',
                 tickets'[i].call \in calls[tickets'[j].call].after
          PROVE  tickets'[i].number < tickets'[j].number
      <4>1. i \in DOMAIN tickets
        BY <1>1, <1>2, <1>4, <1>6, <1>10, <2>2, <3>2
      <4>2. CASE j \in DOMAIN tickets
        BY <1>6, <3>2, <4>1, <4>2 DEF Inv, TicketsOK, NumbersFollowCalls
      <4>3. CASE j = Len(tickets) + 1
        BY <1>4, <1>6, <1>7, <3>2, <4>1, <4>3 DEF CallOf, MyCall
      <4> QED
        BY <1>2, <1>6, <4>2, <4>3
    <3> QED
      BY <1>1, <3>1, <3>2 DEF NumbersFollowCalls
  <2>5. \A i, j \in DOMAIN tickets' : tickets'[i].call = tickets'[j].call => i = j
    BY <1>2, <1>4, <1>6, <2>1 DEF Inv, TicketsOK
  <2>6. \A n \in Answered' :
          calls'[n].tool = TicketTool => (answers'[n] = "200" <=> HasTicket(n)')
    BY <1>1, <1>7, <1>8 DEF Inv, TicketsOK, Answered
  <2> QED
    BY <2>2, <2>3, <2>4, <2>5, <2>6 DEF TicketsOK
<1> QED
  BY <1>9, <1>11, <1>12, <1>13, <1>14, <1>15 DEF Inv

\* The call is audited and answered.
LEMMA AuditInv ==
  ASSUME Inv, NEW t \in Threads, Audit(t)
  PROVE  Inv'
<1> DEFINE event == [call |-> thread[t].call, outcome |-> OutcomeOf(t)]
<1>1. /\ thread' = [thread EXCEPT ![t] = Idle] /\ At(t, "audit")
      /\ audit' = Append(audit, event)
      /\ answers' = [answers EXCEPT ![thread[t].call] = thread[t].answer]
      /\ calls' = calls /\ tickets' = tickets
  BY DEF Audit
<1>2. /\ thread[t] \in ThreadStates
      /\ Len(calls) \in Nat /\ DOMAIN calls = 1..Len(calls)
      /\ DOMAIN answers = 1..Len(calls)
      /\ Len(audit) \in Nat /\ DOMAIN audit = 1..Len(audit)
      /\ audit \in Seq(Events) /\ answers \in Seq(Answers)
      /\ Answered \subseteq DOMAIN calls
  BY Lists DEF Inv, Types
<1>3. /\ event \in Events
      /\ event.call = MyCall(t)
      /\ event.outcome = "succeeded" <=> thread[t].answer = "200"
  BY <1>2 DEF Events, ThreadStates, OutcomeOf, Outcomes, MyCall
<1> HIDE DEF event
<1>4. /\ audit' \in Seq(Events) /\ DOMAIN audit' = 1..(Len(audit) + 1)
      /\ audit'[Len(audit) + 1] = event
      /\ \A i \in DOMAIN audit : audit'[i] = audit[i]
  BY <1>1, <1>2, <1>3
<1>5. /\ MyCall(t) \in DOMAIN calls /\ MyCall(t) \notin Answered
      /\ CallOf(t).tool \in Tools
      /\ thread[t].answer # "pending"
      /\ CallOf(t).tool = TicketTool => (thread[t].answer = "200" <=> HasTicket(MyCall(t)))
  BY <1>1 DEF Inv, ThreadOK, At, Answered
<1>6. thread[t].answer \in Answers
  BY <1>2 DEF ThreadStates, Answers
<1>7. /\ answers' \in Seq(Answers) /\ Len(answers') = Len(answers)
      /\ DOMAIN answers' = DOMAIN answers
      /\ answers'[MyCall(t)] = thread[t].answer
      /\ \A n \in DOMAIN answers \ {MyCall(t)} : answers'[n] = answers[n]
  BY <1>1, <1>2, <1>5, <1>6 DEF MyCall
<1>8. Answered' = Answered \union {MyCall(t)}
  BY <1>2, <1>5, <1>7 DEF Answered
<1>9. thread'[t] = Idle /\ \A u \in Threads \ {t} : thread'[u] = thread[u]
  BY <1>1 DEF Inv, Types
<1>10. Types'
  <2>1. Idle \in ThreadStates
    BY DEF Idle, Doing, ThreadStates, Places
  <2> QED
    BY <1>1, <1>4, <1>7, <2>1 DEF Inv, Types
<1>11. At(t, "idle")'
  BY <1>9 DEF At, Idle, Doing
<1>12. ThreadOK(t)'
  BY <1>11 DEF ThreadOK, At
<1>13. ASSUME NEW u \in Threads \ {t}
       PROVE  ThreadOK(u)'
  <2>1. ThreadOK(u) /\ thread'[u] = thread[u]
    BY <1>9 DEF Inv
  <2>2. CASE At(u, "idle")
    BY <2>1, <2>2 DEF ThreadOK, At
  <2>3. CASE ~At(u, "idle")
    <3>1. MyCall(u) # MyCall(t) /\ MyCall(u) \in DOMAIN answers
      BY <1>1, <1>2, <2>1, <2>3 DEF Inv, OneThreadPerCall, At, ThreadOK
    <3>2. answers'[MyCall(u)] = answers[MyCall(u)]
      BY <1>7, <3>1
    <3> QED
      BY <1>1, <2>1, <2>3, <3>2 DEF ThreadOK, At, MyCall, CallOf, HasTicket
  <2> QED
    BY <2>2, <2>3
<1>14. OneThreadPerCall'
  BY <1>9, <1>11 DEF Inv, OneThreadPerCall, At, MyCall
<1>15. AuditOK'
  <2>1. \A i \in DOMAIN audit : audit[i].call \in Answered /\ audit[i].call # MyCall(t)
    BY <1>5 DEF Inv, AuditOK
  <2>2. \A n \in Answered : answers'[n] = answers[n]
    BY <1>2, <1>5, <1>7
  <2>3. \A i \in DOMAIN audit' :
          /\ audit'[i].call \in Answered'
          /\ calls'[audit'[i].call].tool \in Tools
          /\ audit'[i].outcome = "succeeded" <=> answers'[audit'[i].call] = "200"
    <3>1. \A i \in DOMAIN audit :
            /\ audit'[i].call \in Answered'
            /\ calls'[audit'[i].call].tool \in Tools
            /\ audit'[i].outcome = "succeeded" <=> answers'[audit'[i].call] = "200"
      BY <1>1, <1>4, <1>8, <2>1, <2>2 DEF Inv, AuditOK
    <3>2. /\ event.call \in Answered'
          /\ calls'[event.call].tool \in Tools
          /\ event.outcome = "succeeded" <=> answers'[event.call] = "200"
      BY <1>1, <1>3, <1>5, <1>7, <1>8 DEF CallOf, MyCall
    <3> QED
      BY <1>2, <1>4, <3>1, <3>2
  <2>4. \A i, j \in DOMAIN audit' : audit'[i].call = audit'[j].call => i = j
    BY <1>2, <1>3, <1>4, <2>1 DEF Inv, AuditOK
  <2>5. ASSUME NEW n \in Answered', calls'[n].tool \in Tools
        PROVE  \E i \in DOMAIN audit' : audit'[i].call = n
    <3>1. CASE n \in Answered
      <4>1. PICK i \in DOMAIN audit : audit[i].call = n
        BY <1>1, <2>5, <3>1 DEF Inv, AuditOK
      <4> QED
        BY <1>2, <1>4, <4>1
    <3>2. CASE n = MyCall(t)
      BY <1>2, <1>3, <1>4, <3>2
    <3> QED
      BY <1>8, <2>5, <3>1, <3>2
  <2> QED
    BY <2>3, <2>4, <2>5 DEF AuditOK
<1>16. TicketsOK'
  <2>1. \A n \in Answered' :
          calls'[n].tool = TicketTool => (answers'[n] = "200" <=> HasTicket(n)')
    <3>1. ASSUME NEW n \in Answered
          PROVE  calls'[n].tool = TicketTool => (answers'[n] = "200" <=> HasTicket(n)')
      <4>1. answers'[n] = answers[n]
        BY <1>2, <1>5, <1>7
      <4>2. HasTicket(n)' <=> HasTicket(n)
        BY <1>1 DEF HasTicket
      <4> QED
        BY <1>1, <4>1, <4>2 DEF Inv, TicketsOK
    <3>2. calls'[MyCall(t)].tool = TicketTool =>
            (answers'[MyCall(t)] = "200" <=> HasTicket(MyCall(t)))
      BY <1>1, <1>5, <1>7 DEF CallOf, MyCall
    <3> QED
      BY <1>1, <1>8, <3>1, <3>2 DEF HasTicket
  <2> QED
    BY <1>1, <2>1 DEF Inv, TicketsOK, TicketsAuthorized, NumbersFollowCalls
<1>17. AfterOK'
  BY <1>1, <1>8 DEF Inv, AfterOK
<1> QED
  BY <1>10, <1>12, <1>13, <1>14, <1>15, <1>16, <1>17 DEF Inv

LEMMA NextInv == Inv /\ [Next]_vars => Inv'
<1> SUFFICES ASSUME Inv, [Next]_vars
             PROVE  Inv'
  OBVIOUS
<1>1. CASE Next
  BY <1>1, StartInv, StartUnknownInv, DenyInv, AuthorizeInv, ReadStatusInv,
     RefuseArgumentsInv, NumberTicketInv, AppendTicketInv, CountInv, AuditInv
  DEF Next, Step
<1>2. CASE UNCHANGED vars
  BY <1>2 DEF vars, Inv, Types, ThreadOK, OneThreadPerCall, AuditOK, TicketsOK, AfterOK,
              TicketsAuthorized, NumbersFollowCalls, At, MyCall, CallOf, HasTicket, Answered
<1> QED
  BY <1>1, <1>2

LEMMA AlwaysInv == Spec => []Inv
BY InitInv, NextInv, PTL DEF Spec

(***************************************************************************)
(* The theorems.                                                           *)
(***************************************************************************)

\* However threads interleave, a ticket is that of an authenticated, authorized
\* and confirmed call with valid arguments.
THEOREM TicketsAreAuthorized == Spec => []TicketsAuthorized
<1>1. Inv => TicketsAuthorized
  BY DEF Inv, TicketsOK
<1> QED
  BY <1>1, AlwaysInv, PTL

\* A ticket asked for after another was answered has the higher number.
THEOREM NumbersAreInOrder == Spec => []NumbersFollowCalls
<1>1. Inv => NumbersFollowCalls
  BY DEF Inv, TicketsOK
<1> QED
  BY <1>1, AlwaysInv, PTL

\* A set without two different elements has one or none.
LEMMA AtMostOne ==
  ASSUME NEW S, \A x, y \in S : x = y
  PROVE  Cardinality(S) = IF S = {} THEN 0 ELSE 1
<1>1. CASE S = {}
  BY <1>1, FS_EmptySet
<1>2. CASE S # {}
  <2>1. PICK x \in S : S = {x}
    BY <1>2
  <2> QED
    BY <1>2, <2>1, FS_Singleton
<1> QED
  BY <1>1, <1>2

\* The audit has one event of each answered call of a known tool, with the outcome
\* its caller saw, and none of any other; a ticket is there just when its call
\* succeeded.
THEOREM AuditIsFaithful == Spec => []AuditFaithful
<1>1. ASSUME Inv, NEW n \in DOMAIN calls
      PROVE  /\ Cardinality(EventsOf(n)) =
                  IF n \in Answered /\ calls[n].tool \in Tools THEN 1 ELSE 0
             /\ \A i \in EventsOf(n) :
                  audit[i].outcome = "succeeded" <=> answers[n] = "200"
             /\ n \in Answered /\ calls[n].tool = TicketTool =>
                  Cardinality(TicketsOf(n)) = IF answers[n] = "200" THEN 1 ELSE 0
  <2>1. AuditOK /\ TicketsOK
    BY <1>1 DEF Inv
  <2>2. Cardinality(EventsOf(n)) = IF EventsOf(n) = {} THEN 0 ELSE 1
    <3>1. \A i, j \in EventsOf(n) : i = j
      BY <2>1 DEF EventsOf, AuditOK
    <3> QED
      BY <3>1, AtMostOne
  <2>3. EventsOf(n) = {} <=> ~(n \in Answered /\ calls[n].tool \in Tools)
    BY <2>1 DEF EventsOf, AuditOK
  <2>4. \A i \in EventsOf(n) : audit[i].outcome = "succeeded" <=> answers[n] = "200"
    BY <2>1 DEF EventsOf, AuditOK
  <2>5. Cardinality(TicketsOf(n)) = IF TicketsOf(n) = {} THEN 0 ELSE 1
    <3>1. \A i, j \in TicketsOf(n) : i = j
      BY <2>1 DEF TicketsOf, TicketsOK
    <3> QED
      BY <3>1, AtMostOne
  <2>6. n \in Answered /\ calls[n].tool = TicketTool =>
          (TicketsOf(n) = {} <=> answers[n] # "200")
    BY <2>1 DEF TicketsOf, TicketsOK, HasTicket
  <2> QED
    BY <2>2, <2>3, <2>4, <2>5, <2>6
<1>2. Inv => AuditFaithful
  BY <1>1 DEF AuditFaithful
<1> QED
  BY <1>2, AlwaysInv, PTL

----------------------------------------------------------------------------
(***************************************************************************)
(* Counting. A call that has been made and not yet counted is a thread's   *)
(* to count: so neither the metric nor the repository outgrows the calls.  *)
(***************************************************************************)

\* The threads whose state is in S.
Held(S) == {t \in Threads : thread[t] \in S}
InPlace(places) == {s \in ThreadStates : s.at \in places}
Uncounted == InPlace({"authorize", "handler", "append", "count"})
Unwritten == InPlace({"authorize", "handler", "append"})
Between(o) ==
  {s \in ThreadStates : s.at = "audit" /\
     (IF s.answer = "200" THEN "succeeded" ELSE "denied_or_failed") = o}

Recorded(o) == {i \in DOMAIN audit : audit[i].outcome = o}

Numbers ==
  /\ \A t \in Threads : /\ thread[t].number <= MaximumCalls
                        /\ thread[t].call <= MaximumCalls
                        /\ At(t, "append") => thread[t].number >= 1
  /\ \A i \in DOMAIN tickets : tickets[i].number >= 1

Tally ==
  /\ Len(calls) <= MaximumCalls
  /\ counted \in [Outcomes -> Nat]
  /\ \A o \in Outcomes :
       /\ counted[o] + Cardinality(Held(Uncounted)) <= Len(calls)
       /\ counted[o] = Cardinality(Recorded(o)) + Cardinality(Held(Between(o)))
  /\ Len(tickets) + Cardinality(Held(Unwritten)) <= Len(calls)
  /\ Numbers

LEMMA HeldFinite == ASSUME NEW S
                    PROVE  IsFiniteSet(Held(S)) /\ Cardinality(Held(S)) \in Nat
BY ThreadAssumption, FS_Subset, FS_CardinalityType DEF Held

LEMMA RecordedFinite == ASSUME Types, NEW o
                        PROVE  IsFiniteSet(Recorded(o)) /\ Cardinality(Recorded(o)) \in Nat
<1>1. DOMAIN audit = 1..Len(audit) /\ Len(audit) \in Nat
  BY Lists
<1>2. IsFiniteSet(1..Len(audit))
  BY <1>1, FS_Interval
<1>3. Recorded(o) \in SUBSET (1..Len(audit))
  BY <1>1 DEF Recorded
<1> QED
  BY <1>2, <1>3, FS_Subset, FS_CardinalityType

\* A thread that takes another state is one more, or one less, of those in a set
\* that only one of the two states is in.
LEMMA HeldMoves ==
  ASSUME Types, NEW t \in Threads, NEW state, thread' = [thread EXCEPT ![t] = state], NEW S
  PROVE  Cardinality(Held(S))' =
           Cardinality(Held(S))
             + (IF state \in S THEN 1 ELSE 0) - (IF thread[t] \in S THEN 1 ELSE 0)
<1>1. /\ thread'[t] = state
      /\ \A u \in Threads \ {t} : thread'[u] = thread[u]
  BY DEF Types
<1>2. IsFiniteSet(Held(S)) /\ Cardinality(Held(S)) \in Nat
  BY HeldFinite
<1>3. t \in Held(S) <=> thread[t] \in S
  BY DEF Held
<1>4. CASE state \in S
  <2>1. Held(S)' = Held(S) \union {t}
    BY <1>1, <1>4 DEF Held
  <2>2. Cardinality(Held(S)') = IF t \in Held(S) THEN Cardinality(Held(S))
                                ELSE Cardinality(Held(S)) + 1
    BY <1>2, <2>1, FS_AddElement
  <2> QED
    BY <1>2, <1>3, <1>4, <2>2
<1>5. CASE state \notin S
  <2>1. Held(S)' = Held(S) \ {t}
    BY <1>1, <1>5 DEF Held
  <2>2. Cardinality(Held(S)') = IF t \in Held(S) THEN Cardinality(Held(S)) - 1
                                ELSE Cardinality(Held(S))
    BY <1>2, <2>1, FS_RemoveElement
  <2> QED
    BY <1>2, <1>3, <1>5, <2>2
<1> QED
  BY <1>4, <1>5

\* A thread is in one place.
LEMMA WhereHeld ==
  ASSUME NEW s \in ThreadStates
  PROVE  /\ s \in Uncounted <=> s.at \in {"authorize", "handler", "append", "count"}
         /\ s \in Unwritten <=> s.at \in {"authorize", "handler", "append"}
         /\ \A o : s \in Between(o) => s.at = "audit"
BY DEF Uncounted, Unwritten, InPlace, Between

LEMMA InitTally == Init => Tally
<1> SUFFICES ASSUME Init
             PROVE  Tally
  OBVIOUS
<1>1. \A t \in Threads : thread[t].at = "idle" /\ thread[t].number = 0 /\ thread[t].call = 0
  BY DEF Init, Idle, Doing
<1>2. Len(calls) = 0 /\ Len(tickets) = 0 /\ DOMAIN tickets = {} /\ DOMAIN audit = {}
  BY DEF Init
<1>3. counted \in [Outcomes -> Nat] /\ \A o \in Outcomes : counted[o] = 0
  BY DEF Init
<1>4. Held(Uncounted) = {} /\ Held(Unwritten) = {}
  BY <1>1 DEF Held, Uncounted, Unwritten, InPlace
<1>5. ASSUME NEW o \in Outcomes
      PROVE  Held(Between(o)) = {} /\ Recorded(o) = {}
  BY <1>1, <1>2 DEF Held, Between, Recorded
<1>6. Numbers
  BY <1>1, <1>2 DEF Numbers, At
<1>7. Cardinality({}) = 0
  BY FS_EmptySet
<1>8. /\ Len(calls) <= MaximumCalls
      /\ Len(tickets) + Cardinality(Held(Unwritten)) <= Len(calls)
  BY <1>2, <1>4, <1>7
<1>9. ASSUME NEW o \in Outcomes
      PROVE  /\ counted[o] + Cardinality(Held(Uncounted)) <= Len(calls)
             /\ counted[o] = Cardinality(Recorded(o)) + Cardinality(Held(Between(o)))
  <2>1. /\ counted[o] = 0 /\ Len(calls) = 0
        /\ Cardinality(Held(Uncounted)) = 0
    BY <1>2, <1>3, <1>4, <1>7
  <2>2. Cardinality(Recorded(o)) = 0 /\ Cardinality(Held(Between(o))) = 0
    BY <1>5, <1>7
  <2> QED
    BY <2>1, <2>2
<1> QED
  BY <1>3, <1>6, <1>8, <1>9 DEF Tally

\* A step of thread t to a state of the call it serves, that neither counts nor writes.
LEMMA TallyKept ==
  ASSUME Types, Tally, NEW t \in Threads, NEW state \in ThreadStates,
         thread' = [thread EXCEPT ![t] = state],
         calls' = calls, tickets' = tickets, audit' = audit, counted' = counted,
         thread[t].at \in {"authorize", "handler"},
         state.at \in {"handler", "append", "count"},
         state.call = thread[t].call,
         state.number = thread[t].number \/ state.number \in 1..MaximumCalls,
         state.at = "append" => state.number \in 1..MaximumCalls
  PROVE  Tally'
<1>1. thread[t] \in ThreadStates /\ Len(calls) \in Nat /\ Len(tickets) \in Nat
  BY Lists
<1>2. Cardinality(Held(Uncounted))' = Cardinality(Held(Uncounted))
  <2>1. state \in Uncounted /\ thread[t] \in Uncounted
    BY <1>1, WhereHeld
  <2>2. Cardinality(Held(Uncounted))' = Cardinality(Held(Uncounted)) + 1 - 1
    BY <2>1, HeldMoves
  <2> QED
    BY <2>2, HeldFinite
<1>3. ASSUME NEW o \in Outcomes
      PROVE  Cardinality(Held(Between(o)))' = Cardinality(Held(Between(o)))
  <2>1. state \notin Between(o) /\ thread[t] \notin Between(o)
    BY <1>1, WhereHeld
  <2>2. Cardinality(Held(Between(o)))' = Cardinality(Held(Between(o))) + 0 - 0
    BY <2>1, HeldMoves
  <2> QED
    BY <2>2, HeldFinite
<1>4. /\ Cardinality(Held(Unwritten))' <= Cardinality(Held(Unwritten))
      /\ Cardinality(Held(Unwritten))' \in Int
  <2>1. thread[t] \in Unwritten
    BY <1>1, WhereHeld
  <2>2. Cardinality(Held(Unwritten))' =
          Cardinality(Held(Unwritten)) + (IF state \in Unwritten THEN 1 ELSE 0) - 1
    BY <2>1, HeldMoves
  <2> QED
    BY <2>2, HeldFinite
<1>5. Numbers'
  <2>1. thread'[t] = state /\ \A u \in Threads \ {t} : thread'[u] = thread[u]
    BY DEF Types
  <2> QED
    BY <2>1 DEF Tally, Numbers, At
<1>6. ASSUME NEW o \in Outcomes
      PROVE  /\ counted'[o] + Cardinality(Held(Uncounted))' <= Len(calls')
             /\ counted'[o] = Cardinality(Recorded(o))' + Cardinality(Held(Between(o)))'
  <2>1. Recorded(o)' = Recorded(o)
    BY DEF Recorded
  <2> QED
    BY <1>2, <1>3, <2>1 DEF Tally
<1>7. Len(tickets') + Cardinality(Held(Unwritten))' <= Len(calls')
  BY <1>1, <1>4, HeldMoves, HeldFinite DEF Tally
<1> QED
  BY <1>5, <1>6, <1>7 DEF Tally

LEMMA TallyStart ==
  ASSUME Inv, Tally, NEW t \in Threads, NEW request \in Requests,
         Start(t, request) \/ StartUnknown(t, request)
  PROVE  Tally'
<1>1. /\ Len(calls) \in Nat /\ Len(tickets) \in Nat /\ Types /\ thread[t] \in ThreadStates
      /\ calls \in Seq(Calls)
  BY Lists DEF Inv, Types
<1>2. /\ calls' = Append(calls, Call(request)) /\ Len(calls) < MaximumCalls
      /\ tickets' = tickets /\ audit' = audit /\ counted' = counted
  BY DEF Start, StartUnknown
<1>3. Call(request) \in Calls
  <2>1. request \in Request /\ Answered \subseteq Nat
    BY <1>1, Lists
  <2> QED
    BY <2>1 DEF Call, Calls, Request
<1>4. Len(calls') = Len(calls) + 1 /\ Len(calls') <= MaximumCalls
  BY <1>1, <1>2, <1>3
<1>5. CASE StartUnknown(t, request)
  <2>1. thread' = thread
    BY <1>5 DEF StartUnknown
  <2>2. Numbers'
    BY <1>2, <2>1 DEF Tally, Numbers, At
  <2>3. \A S : Held(S)' = Held(S)
    BY <2>1 DEF Held
  <2>4. ASSUME NEW o \in Outcomes
        PROVE  /\ counted'[o] + Cardinality(Held(Uncounted))' <= Len(calls')
               /\ counted'[o] = Cardinality(Recorded(o))' + Cardinality(Held(Between(o)))'
    <3>1. /\ Recorded(o)' = Recorded(o)
          /\ Held(Uncounted)' = Held(Uncounted) /\ Held(Between(o))' = Held(Between(o))
      BY <1>2, <2>3 DEF Recorded
    <3>2. /\ counted[o] \in Nat
          /\ counted[o] + Cardinality(Held(Uncounted)) <= Len(calls)
          /\ counted[o] = Cardinality(Recorded(o)) + Cardinality(Held(Between(o)))
      BY DEF Tally
    <3> QED
      BY <1>1, <1>2, <1>4, <3>1, <3>2, HeldFinite
  <2>5. Len(tickets') + Cardinality(Held(Unwritten))' <= Len(calls')
    <3>1. Held(Unwritten)' = Held(Unwritten)
      BY <2>3
    <3> QED
      BY <1>1, <1>2, <1>4, <3>1, HeldFinite DEF Tally
  <2> QED
    BY <1>2, <1>4, <2>2, <2>4, <2>5 DEF Tally
<1>6. CASE Start(t, request)
  <2> DEFINE state == Doing("authorize", Len(calls) + 1, 0, "pending")
  <2>1. thread' = [thread EXCEPT ![t] = state] /\ thread[t].at = "idle"
    BY <1>6 DEF Start, At
  <2>2. /\ state \in ThreadStates /\ state.at = "authorize"
        /\ state.number = 0 /\ state.call = Len(calls) + 1
    BY <1>1 DEF Doing, ThreadStates, Places
  <2> HIDE DEF state
  <2>3. Numbers'
    <3>1. thread'[t] = state /\ \A u \in Threads \ {t} : thread'[u] = thread[u]
      BY <1>1, <2>1 DEF Types
    <3> QED
      BY <1>1, <1>2, <2>2, <3>1 DEF Tally, Numbers, At
  <2>4. /\ Cardinality(Held(Uncounted))' = Cardinality(Held(Uncounted)) + 1 - 0
        /\ Cardinality(Held(Unwritten))' = Cardinality(Held(Unwritten)) + 1 - 0
    <3>1. /\ state \in Uncounted /\ thread[t] \notin Uncounted
          /\ state \in Unwritten /\ thread[t] \notin Unwritten
      BY <1>1, <2>1, <2>2, WhereHeld
    <3> QED
      BY <1>1, <2>1, <3>1, HeldMoves
  <2>5. ASSUME NEW o \in Outcomes
        PROVE  /\ counted'[o] + Cardinality(Held(Uncounted))' <= Len(calls')
               /\ counted'[o] = Cardinality(Recorded(o))' + Cardinality(Held(Between(o)))'
    <3>1. Recorded(o)' = Recorded(o)
      BY <1>2 DEF Recorded
    <3>2. state \notin Between(o) /\ thread[t] \notin Between(o)
      BY <1>1, <2>1, <2>2, WhereHeld
    <3>3. Cardinality(Held(Between(o)))' = Cardinality(Held(Between(o))) + 0 - 0
      BY <1>1, <2>1, <3>2, HeldMoves
    <3>4. /\ counted[o] \in Nat
          /\ counted[o] + Cardinality(Held(Uncounted)) <= Len(calls)
          /\ counted[o] = Cardinality(Recorded(o)) + Cardinality(Held(Between(o)))
      BY DEF Tally
    <3> QED
      BY <1>1, <1>2, <1>4, <2>4, <3>1, <3>3, <3>4, HeldFinite
  <2>6. Len(tickets') + Cardinality(Held(Unwritten))' <= Len(calls')
    BY <1>1, <1>2, <1>4, <2>4, HeldFinite DEF Tally
  <2> QED
    BY <1>2, <1>4, <2>3, <2>5, <2>6 DEF Tally
<1> QED
  BY <1>5, <1>6

LEMMA TallyAppend ==
  ASSUME Inv, Tally, NEW t \in Threads, AppendTicket(t)
  PROVE  Tally'
<1> DEFINE state == Doing("count", thread[t].call, thread[t].number, "200")
           ticket == [number |-> thread[t].number, call |-> thread[t].call]
<1>1. /\ Len(calls) \in Nat /\ Len(tickets) \in Nat /\ DOMAIN tickets = 1..Len(tickets)
      /\ Types /\ thread[t] \in ThreadStates /\ tickets \in Seq(Tickets)
  BY Lists DEF Inv, Types
<1>2. /\ thread' = [thread EXCEPT ![t] = state] /\ thread[t].at = "append"
      /\ tickets' = Append(tickets, ticket)
      /\ calls' = calls /\ audit' = audit /\ counted' = counted
  BY DEF AppendTicket, Finish, At
<1>3. /\ state \in ThreadStates /\ state.at = "count"
      /\ state.number = thread[t].number /\ state.call = thread[t].call
      /\ ticket \in Tickets /\ ticket.number = thread[t].number
  BY <1>1 DEF Doing, ThreadStates, Places, Tickets
<1> HIDE DEF state, ticket
<1>4. /\ Len(tickets') = Len(tickets) + 1 /\ DOMAIN tickets' = 1..(Len(tickets) + 1)
      /\ tickets'[Len(tickets) + 1] = ticket
      /\ \A i \in DOMAIN tickets : tickets'[i] = tickets[i]
  BY <1>1, <1>2, <1>3
<1>5. Numbers'
  <2>1. thread'[t] = state /\ \A u \in Threads \ {t} : thread'[u] = thread[u]
    BY <1>1, <1>2 DEF Types
  <2>2. thread[t].number >= 1
    BY <1>2 DEF Tally, Numbers, At
  <2>3. \A i \in DOMAIN tickets' : tickets'[i].number >= 1
    BY <1>1, <1>3, <1>4, <2>2 DEF Tally, Numbers
  <2> QED
    BY <1>3, <2>1, <2>3 DEF Tally, Numbers, At
<1>6. /\ Cardinality(Held(Uncounted))' = Cardinality(Held(Uncounted)) + 1 - 1
      /\ Cardinality(Held(Unwritten))' = Cardinality(Held(Unwritten)) + 0 - 1
  <2>1. /\ state \in Uncounted /\ thread[t] \in Uncounted
        /\ state \notin Unwritten /\ thread[t] \in Unwritten
    BY <1>1, <1>2, <1>3, WhereHeld
  <2> QED
    BY <1>1, <1>2, <2>1, HeldMoves
<1>7. ASSUME NEW o \in Outcomes
      PROVE  /\ counted'[o] + Cardinality(Held(Uncounted))' <= Len(calls')
             /\ counted'[o] = Cardinality(Recorded(o))' + Cardinality(Held(Between(o)))'
  <2>1. Recorded(o)' = Recorded(o)
    BY <1>2 DEF Recorded
  <2>2. state \notin Between(o) /\ thread[t] \notin Between(o)
    BY <1>1, <1>2, <1>3, WhereHeld
  <2>3. Cardinality(Held(Between(o)))' = Cardinality(Held(Between(o))) + 0 - 0
    BY <1>1, <1>2, <2>2, HeldMoves
  <2>4. /\ counted[o] \in Nat
        /\ counted[o] + Cardinality(Held(Uncounted)) <= Len(calls)
        /\ counted[o] = Cardinality(Recorded(o)) + Cardinality(Held(Between(o)))
    BY DEF Tally
  <2> QED
    BY <1>2, <1>6, <2>1, <2>3, <2>4, HeldFinite
<1>8. Len(tickets') + Cardinality(Held(Unwritten))' <= Len(calls')
  BY <1>1, <1>2, <1>4, <1>6, HeldFinite DEF Tally
<1> QED
  BY <1>2, <1>5, <1>7, <1>8 DEF Tally

\* The metric is counted: the call is between metric and audit.
LEMMA TallyCount ==
  ASSUME Inv, Tally, NEW t \in Threads, Count(t)
  PROVE  Tally'
<1> DEFINE state == [thread[t] EXCEPT !.at = "audit"]
           outcome == OutcomeOf(t)
<1>1. /\ Len(calls) \in Nat /\ Len(tickets) \in Nat /\ Types /\ thread[t] \in ThreadStates
  BY Lists DEF Inv
<1>2. /\ thread' = [thread EXCEPT ![t] = state] /\ thread[t].at = "count"
      /\ counted' = [counted EXCEPT ![outcome] = @ + 1]
      /\ calls' = calls /\ tickets' = tickets /\ audit' = audit
  BY DEF Count, Goto, At
<1>3. /\ state \in ThreadStates /\ state.at = "audit" /\ outcome \in Outcomes
      /\ state.number = thread[t].number /\ state.call = thread[t].call
      /\ outcome = IF state.answer = "200" THEN "succeeded" ELSE "denied_or_failed"
  BY <1>1 DEF ThreadStates, Places, OutcomeOf, Outcomes
<1> HIDE DEF state, outcome
<1>4. /\ counted' \in [Outcomes -> Nat]
      /\ \A o \in Outcomes : counted'[o] = counted[o] + (IF o = outcome THEN 1 ELSE 0)
  <2>1. counted \in [Outcomes -> Nat]
    BY DEF Tally
  <2> QED
    BY <1>2, <1>3, <2>1
<1>5. Numbers'
  <2>1. thread'[t] = state /\ \A u \in Threads \ {t} : thread'[u] = thread[u]
    BY <1>1, <1>2 DEF Types
  <2> QED
    BY <1>2, <1>3, <2>1 DEF Tally, Numbers, At
<1>6. /\ Cardinality(Held(Uncounted))' = Cardinality(Held(Uncounted)) + 0 - 1
      /\ Cardinality(Held(Unwritten))' = Cardinality(Held(Unwritten)) + 0 - 0
  <2>1. /\ state \notin Uncounted /\ thread[t] \in Uncounted
        /\ state \notin Unwritten /\ thread[t] \notin Unwritten
    BY <1>1, <1>2, <1>3, WhereHeld
  <2> QED
    BY <1>1, <1>2, <2>1, HeldMoves
<1>7. ASSUME NEW o \in Outcomes
      PROVE  /\ counted'[o] + Cardinality(Held(Uncounted))' <= Len(calls')
             /\ counted'[o] = Cardinality(Recorded(o))' + Cardinality(Held(Between(o)))'
  <2>1. Recorded(o)' = Recorded(o) /\ Cardinality(Recorded(o)) \in Nat
    BY <1>1, <1>2, RecordedFinite DEF Recorded
  <2>2. thread[t] \notin Between(o) /\ (state \in Between(o) <=> o = outcome)
    BY <1>1, <1>2, <1>3 DEF Between
  <2>3. Cardinality(Held(Between(o)))' =
          Cardinality(Held(Between(o))) + (IF state \in Between(o) THEN 1 ELSE 0) - 0
    BY <1>1, <1>2, <2>2, HeldMoves
  <2>4. /\ counted[o] \in Nat
        /\ counted[o] + Cardinality(Held(Uncounted)) <= Len(calls)
        /\ counted[o] = Cardinality(Recorded(o)) + Cardinality(Held(Between(o)))
    BY DEF Tally
  <2>5. Cardinality(Held(Uncounted)) \in Nat /\ Cardinality(Held(Between(o))) \in Nat
    BY HeldFinite
  <2>6. CASE o = outcome
    BY <1>1, <1>2, <1>4, <1>6, <2>1, <2>2, <2>3, <2>4, <2>5, <2>6
  <2>7. CASE o # outcome
    BY <1>1, <1>2, <1>4, <1>6, <2>1, <2>2, <2>3, <2>4, <2>5, <2>7
  <2> QED
    BY <2>6, <2>7
<1>8. Len(tickets') + Cardinality(Held(Unwritten))' <= Len(calls')
  BY <1>1, <1>2, <1>6, HeldFinite DEF Tally
<1> QED
  BY <1>2, <1>4, <1>5, <1>7, <1>8 DEF Tally

\* The event is appended: the audit has caught up with the metric.
LEMMA TallyAudit ==
  ASSUME Inv, Tally, NEW t \in Threads, Audit(t)
  PROVE  Tally'
<1> DEFINE outcome == OutcomeOf(t)
           event == [call |-> thread[t].call, outcome |-> outcome]
           n == Len(audit)
<1>1. /\ Len(calls) \in Nat /\ Len(tickets) \in Nat /\ Types /\ thread[t] \in ThreadStates
      /\ n \in Nat /\ DOMAIN audit = 1..n /\ audit \in Seq(Events)
  BY Lists DEF Inv, Types
<1>2. /\ thread' = [thread EXCEPT ![t] = Idle] /\ thread[t].at = "audit"
      /\ audit' = Append(audit, event)
      /\ calls' = calls /\ tickets' = tickets /\ counted' = counted
  BY DEF Audit, At
<1>3. /\ outcome = (IF thread[t].answer = "200" THEN "succeeded" ELSE "denied_or_failed")
      /\ event.outcome = outcome /\ event \in Events
  BY <1>1 DEF OutcomeOf, Outcomes, Events, ThreadStates
<1>4. Idle \in ThreadStates /\ Idle.at = "idle" /\ Idle.number = 0 /\ Idle.call = 0
  BY DEF Idle, Doing, ThreadStates, Places
<1> HIDE DEF outcome, event, n
<1>5. /\ DOMAIN audit' = 1..(n + 1) /\ audit'[n + 1] = event
      /\ \A i \in 1..n : audit'[i] = audit[i]
  BY <1>1, <1>2, <1>3 DEF n
<1>6. Numbers'
  <2>1. thread'[t] = Idle /\ \A u \in Threads \ {t} : thread'[u] = thread[u]
    BY <1>1, <1>2 DEF Types
  <2> QED
    BY <1>2, <1>4, <2>1, BoundAssumption DEF Tally, Numbers, At
<1>7. /\ Cardinality(Held(Uncounted))' = Cardinality(Held(Uncounted)) + 0 - 0
      /\ Cardinality(Held(Unwritten))' = Cardinality(Held(Unwritten)) + 0 - 0
  <2>1. /\ Idle \notin Uncounted /\ thread[t] \notin Uncounted
        /\ Idle \notin Unwritten /\ thread[t] \notin Unwritten
    BY <1>1, <1>2, <1>4, WhereHeld
  <2> QED
    BY <1>1, <1>2, <2>1, HeldMoves
<1>8. ASSUME NEW o \in Outcomes
      PROVE  /\ counted'[o] + Cardinality(Held(Uncounted))' <= Len(calls')
             /\ counted'[o] = Cardinality(Recorded(o))' + Cardinality(Held(Between(o)))'
  <2>1. /\ counted[o] \in Nat
        /\ counted[o] + Cardinality(Held(Uncounted)) <= Len(calls)
        /\ counted[o] = Cardinality(Recorded(o)) + Cardinality(Held(Between(o)))
    BY DEF Tally
  <2>2. /\ Cardinality(Held(Uncounted)) \in Nat /\ Cardinality(Held(Between(o))) \in Nat
        /\ IsFiniteSet(Recorded(o)) /\ Cardinality(Recorded(o)) \in Nat
    BY <1>1, HeldFinite, RecordedFinite
  <2>3. Idle \notin Between(o) /\ (thread[t] \in Between(o) <=> o = outcome)
    BY <1>1, <1>2, <1>3, <1>4 DEF Between
  <2>4. Cardinality(Held(Between(o)))' =
          Cardinality(Held(Between(o))) + 0 - (IF thread[t] \in Between(o) THEN 1 ELSE 0)
    BY <1>1, <1>2, <2>3, HeldMoves
  <2>5. n + 1 \notin Recorded(o)
    BY <1>1 DEF Recorded
  <2>6. CASE o = outcome
    <3>1. Recorded(o)' = Recorded(o) \union {n + 1}
      BY <1>1, <1>3, <1>5, <2>6 DEF Recorded
    <3>2. Cardinality(Recorded(o)') = Cardinality(Recorded(o)) + 1
      BY <2>2, <2>5, <3>1, FS_AddElement
    <3> QED
      BY <1>1, <1>2, <1>7, <2>1, <2>2, <2>3, <2>4, <2>6, <3>2
  <2>7. CASE o # outcome
    <3>1. Recorded(o)' = Recorded(o)
      BY <1>1, <1>3, <1>5, <2>7 DEF Recorded
    <3> QED
      BY <1>1, <1>2, <1>7, <2>1, <2>2, <2>3, <2>4, <2>7, <3>1
  <2> QED
    BY <2>6, <2>7
<1>9. Len(tickets') + Cardinality(Held(Unwritten))' <= Len(calls')
  BY <1>1, <1>2, <1>7, HeldFinite DEF Tally
<1> QED
  BY <1>2, <1>6, <1>8, <1>9 DEF Tally

LEMMA TallyNext == Inv /\ Tally /\ [Next]_vars => Tally'
<1> SUFFICES ASSUME Inv, Tally, [Next]_vars
             PROVE  Tally'
  OBVIOUS
<1>0. Types /\ \A t \in Threads : thread[t] \in ThreadStates
  BY Lists DEF Inv
<1>1. ASSUME NEW t \in Threads, Deny(t) \/ ReadStatus(t) \/ RefuseArguments(t)
      PROVE  Tally'
  <2>1. PICK answer \in {"200", "403", "422", "500"} : Finish(t, answer)
    BY <1>1 DEF Deny, ReadStatus, RefuseArguments, Raise
  <2> DEFINE state == Doing("count", thread[t].call, thread[t].number, answer)
  <2>2. /\ state \in ThreadStates /\ state.at = "count"
        /\ state.call = thread[t].call /\ state.number = thread[t].number
    BY <1>0 DEF Doing, ThreadStates, Places
  <2>3. /\ thread' = [thread EXCEPT ![t] = state]
        /\ thread[t].at \in {"authorize", "handler"}
        /\ calls' = calls /\ tickets' = tickets /\ audit' = audit /\ counted' = counted
    BY <1>1, <2>1 DEF Deny, ReadStatus, RefuseArguments, Raise, Finish, At
  <2> HIDE DEF state
  <2> QED
    BY <1>0, <2>2, <2>3, TallyKept
<1>2. ASSUME NEW t \in Threads, Authorize(t)
      PROVE  Tally'
  <2> DEFINE state == [thread[t] EXCEPT !.at = "handler"]
  <2>1. /\ state \in ThreadStates /\ state.at = "handler"
        /\ state.call = thread[t].call /\ state.number = thread[t].number
    BY <1>0 DEF ThreadStates, Places
  <2>2. /\ thread' = [thread EXCEPT ![t] = state] /\ thread[t].at = "authorize"
        /\ calls' = calls /\ tickets' = tickets /\ audit' = audit /\ counted' = counted
    BY <1>2 DEF Authorize, Goto, At
  <2> HIDE DEF state
  <2> QED
    BY <1>0, <2>1, <2>2, TallyKept
<1>3. ASSUME NEW t \in Threads, NumberTicket(t)
      PROVE  Tally'
  <2> DEFINE state == Doing("append", thread[t].call, Len(tickets) + 1, thread[t].answer)
  <2>1. Len(tickets) \in Nat /\ Len(calls) \in Nat
    BY <1>0, Lists
  <2>2. /\ state \in ThreadStates /\ state.at = "append"
        /\ state.call = thread[t].call /\ state.number = Len(tickets) + 1
    BY <1>0, <2>1 DEF Doing, ThreadStates, Places
  <2>3. /\ thread' = [thread EXCEPT ![t] = state] /\ thread[t].at = "handler"
        /\ calls' = calls /\ tickets' = tickets /\ audit' = audit /\ counted' = counted
    BY <1>3 DEF NumberTicket, At
  <2>4. Cardinality(Held(Unwritten)) >= 1
    <3>1. t \in Held(Unwritten)
      BY <1>0, <2>3, WhereHeld DEF Held
    <3> QED
      BY <3>1, HeldFinite, FS_EmptySet
  <2>5. state.number \in 1..MaximumCalls
    BY <2>1, <2>2, <2>4, HeldFinite DEF Tally
  <2> HIDE DEF state
  <2> QED
    BY <1>0, <2>2, <2>3, <2>5, TallyKept
<1>4. CASE UNCHANGED vars
  BY <1>4 DEF vars, Tally, Numbers, Held, Recorded, At
<1> QED
  BY <1>1, <1>2, <1>3, <1>4, TallyStart, TallyAppend, TallyCount, TallyAudit DEF Next, Step

LEMMA AlwaysTally == Spec => [](Inv /\ Tally)
<1>1. Init => Inv /\ Tally
  BY InitInv, InitTally
<1>2. Inv /\ Tally /\ [Next]_vars => (Inv /\ Tally)'
  BY NextInv, TallyNext
<1> QED
  BY <1>1, <1>2, PTL DEF Spec

\* The metric is never wrong about the audit but for the calls whose thread has counted
\* them and not yet recorded them, however many threads there are.
THEOREM MetricIsAudit == Spec => []MetricMatchesAudit
<1>1. ASSUME Inv, Tally, NEW o \in Outcomes
      PROVE  counted[o] =
               Cardinality({i \in DOMAIN audit : audit[i].outcome = o})
                 + Cardinality({t \in Threads : At(t, "audit") /\ OutcomeOf(t) = o})
  <2>1. \A t \in Threads : thread[t] \in ThreadStates
    BY <1>1, Lists DEF Inv
  <2>2. {t \in Threads : At(t, "audit") /\ OutcomeOf(t) = o} = Held(Between(o))
    BY <2>1 DEF Held, Between, At, OutcomeOf
  <2>3. counted[o] = Cardinality(Recorded(o)) + Cardinality(Held(Between(o)))
    BY <1>1 DEF Tally
  <2> QED
    BY <2>2, <2>3 DEF Recorded
<1>2. Inv /\ Tally => MetricMatchesAudit
  BY <1>1 DEF MetricMatchesAudit
<1> QED
  BY <1>2, AlwaysTally, PTL

\* Every variable has its type: no list, number or count outgrows the calls made.
THEOREM TypeCorrect == Spec => []TypeOK
<1>1. ASSUME Inv, Tally
      PROVE  TypeOK
  <2> DEFINE M == MaximumCalls
             L == Len(calls)
  <2>1. /\ L \in Nat /\ DOMAIN calls = 1..L /\ DOMAIN answers = 1..L
        /\ Len(tickets) \in Nat /\ DOMAIN tickets = 1..Len(tickets)
        /\ Len(audit) \in Nat /\ DOMAIN audit = 1..Len(audit)
        /\ Types /\ Answered \subseteq 1..L
        /\ \A t \in Threads : thread[t] \in ThreadStates
    BY <1>1, Lists DEF Inv
  <2>2. L <= M /\ M \in Nat /\ 1..L \subseteq 1..M
    BY <1>1, <2>1, BoundAssumption DEF Tally
  <2>3. calls \in Seq([tool: Tools \union {UnknownTool}, arguments: Arguments,
                       context: Context, after: SUBSET (1..M)])
    <3> DEFINE P == [tool: Tools \union {UnknownTool}, arguments: Arguments,
                     context: Context, after: SUBSET (1..M)]
    <3>1. ASSUME NEW n \in 1..L
          PROVE  calls[n] \in P
      <4>1. calls[n] \in Calls
        BY <2>1 DEF Types
      <4>2. calls[n].after \subseteq 1..M
        BY <1>1, <2>1, <2>2 DEF Inv, AfterOK
      <4> QED
        BY <4>1, <4>2 DEF Calls
    <3> HIDE DEF P
    <3>2. calls \in Seq(P)
      BY <2>1, <3>1 DEF Types
    <3> QED
      BY <3>2 DEF P
  <2>4. thread \in [Threads -> [at: Places, call: 0..M, number: 0..M,
                                answer: {"pending", "200", "403", "422", "500"}]]
    <3>1. ASSUME NEW t \in Threads
          PROVE  thread[t].number \in 0..M /\ thread[t].call \in 0..M
      <4>1. thread[t].number \in Nat /\ thread[t].call \in Nat
        BY <2>1 DEF ThreadStates
      <4>2. thread[t].number <= M /\ thread[t].call <= M
        BY <1>1 DEF Tally, Numbers
      <4> QED
        BY <2>2, <4>1, <4>2
    <3>2. thread \in [Threads -> ThreadStates]
      BY <2>1 DEF Types
    <3> QED
      BY <3>1, <3>2 DEF ThreadStates
  <2>5. tickets \in Seq([number: 1..M, call: 1..M])
    <3> DEFINE P == [number: 1..M, call: 1..M]
    <3>1. ASSUME NEW i \in 1..Len(tickets)
          PROVE  tickets[i] \in P
      <4>1. tickets[i] \in Tickets
        BY <2>1 DEF Types
      <4>2. tickets[i].call \in 1..M
        BY <1>1, <2>1, <2>2 DEF Inv, TicketsOK
      <4>3. tickets[i].number \in 1..M
        <5>1. tickets[i].number <= i /\ tickets[i].number >= 1
          BY <1>1, <2>1 DEF Inv, TicketsOK, NumbersFollowCalls, Tally, Numbers
        <5>2. Len(tickets) <= L
          BY <1>1, <2>1, HeldFinite DEF Tally
        <5>3. tickets[i].number \in Nat
          BY <4>1 DEF Tickets
        <5> QED
          BY <2>1, <2>2, <5>1, <5>2, <5>3
      <4> QED
        BY <4>1, <4>2, <4>3 DEF Tickets
    <3> HIDE DEF P
    <3>2. tickets \in Seq(P)
      BY <2>1, <3>1 DEF Types
    <3> QED
      BY <3>2 DEF P
  <2>6. audit \in Seq(AuditEvents)
    <3>1. ASSUME NEW i \in 1..Len(audit)
          PROVE  audit[i] \in AuditEvents
      <4>1. audit[i] \in Events
        BY <2>1 DEF Types
      <4>2. audit[i].call \in 1..M
        BY <1>1, <2>1, <2>2 DEF Inv, AuditOK
      <4> QED
        BY <4>1, <4>2 DEF Events, AuditEvents
    <3> QED
      BY <2>1, <3>1 DEF Types
  <2>7. counted \in [Outcomes -> 0..M]
    <3>1. ASSUME NEW o \in Outcomes
          PROVE  counted[o] \in 0..M
      <4>1. counted[o] \in Nat /\ counted[o] + Cardinality(Held(Uncounted)) <= L
        BY <1>1 DEF Tally
      <4> QED
        BY <2>1, <2>2, <4>1, HeldFinite
    <3>2. counted \in [Outcomes -> Nat]
      BY <1>1 DEF Tally
    <3> QED
      BY <3>1, <3>2
  <2>8. answers \in Seq({"pending", "200", "403", "404", "422", "500"})
    BY <2>1 DEF Types, Answers
  <2> QED
    BY <2>3, <2>4, <2>5, <2>6, <2>7, <2>8 DEF TypeOK, Places
<1> QED
  BY <1>1, AlwaysTally, PTL
================================================================================
