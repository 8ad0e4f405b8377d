------------------------- MODULE Observability_proofs -------------------------
(***************************************************************************)
(* What TLAPS proves of the metrics and the spans a request leaves behind, *)
(* for any number of requests at once and any operations nested in them.   *)
(***************************************************************************)
EXTENDS Observability, FiniteSetTheorems, SequenceTheorems, TLAPS

USE LimitAssumption, NameAssumption, TaskAssumption

(***************************************************************************)
(* The inductive invariant. The outermost operation of a request, and no   *)
(* other, is "http.request"; at most one request is in the part the event  *)
(* loop does not leave; and the numbers that the scrape compares are equal *)
(* but for what that one request has counted and not yet counted.          *)
(***************************************************************************)
Http == "http.request"

Types ==
  /\ pc \in [Tasks -> Closing \union {"idle", "body", "count", "time"}]
  /\ open \in [Tasks -> Seq(Names)]
  /\ raising \in [Tasks -> BOOLEAN]
  /\ errors \in [Names -> Nat] /\ durations \in [Names -> Nat]
  /\ requests \in [Statuses -> Nat] /\ timed \in Nat

InRequest(t) == pc[t] \in Closing \union {"body"}
Nesting(list) ==
  /\ list \in Seq(Names) /\ Len(list) > 0
  /\ list[1] = Http
  /\ \A i \in 2..Len(list) : list[i] \in Inner
Nested(t) == InRequest(t) => Nesting(open[t])

OneOnLoop == \A t, u \in Tasks : OnLoop(t) /\ OnLoop(u) => t = u

Counted == requests["answered"] + requests["500"]

\* The numbers, between requests and while t is on the loop.
Level ==
  /\ durations[Http] = Counted /\ timed = Counted
  /\ errors[Http] = requests["500"]
Ahead(t) ==
  /\ pc[t] = "error" => raising[t] /\ Level
  /\ pc[t] = "observe" => durations[Http] = Counted
  /\ pc[t] \in {"append", "slice", "store", "count"} => durations[Http] = Counted + 1
  /\ pc[t] \in {"observe", "append", "slice", "store", "count"} =>
       /\ timed = Counted
       /\ errors[Http] = requests["500"] + (IF raising[t] THEN 1 ELSE 0)
  /\ pc[t] = "time" =>
       /\ durations[Http] = Counted /\ timed + 1 = Counted
       /\ errors[Http] = requests["500"]

Balance ==
  /\ (\A t \in Tasks : ~OnLoop(t)) => Level
  /\ \A t \in Tasks : OnLoop(t) => Ahead(t)

Inv == Types /\ (\A t \in Tasks : Nested(t)) /\ OneOnLoop /\ Balance

(***************************************************************************)
(* Facts about a state.                                                    *)
(***************************************************************************)

\* A request's own operation is a nesting, with one more inside it too, and without
\* the innermost, unless that is the only one.
LEMMA Nestings ==
  /\ Nesting(<<Http>>)
  /\ \A list : Nesting(list) =>
       /\ \A name \in Inner : Nesting(Append(list, name))
       /\ Len(list) # 1 => Nesting(SubSeq(list, 1, Len(list) - 1))
<1>1. Nesting(<<Http>>)
  BY DEF Nesting, Names, Http
<1>2. ASSUME NEW list, Nesting(list), NEW name \in Inner
      PROVE  Nesting(Append(list, name))
  <2>1. list \in Seq(Names) /\ name \in Names /\ Len(list) \in Nat \ {0}
    BY <1>2 DEF Nesting, Names
  <2>2. /\ Append(list, name) \in Seq(Names) /\ Len(Append(list, name)) = Len(list) + 1
        /\ \A i \in 1..Len(list) : Append(list, name)[i] = list[i]
        /\ Append(list, name)[Len(list) + 1] = name
    BY <2>1
  <2>3. \A i \in 2..Len(list) + 1 : Append(list, name)[i] \in Inner
    BY <1>2, <2>1, <2>2 DEF Nesting
  <2>4. Append(list, name)[1] = Http /\ Len(Append(list, name)) > 0
    BY <1>2, <2>1, <2>2 DEF Nesting
  <2> QED
    BY <2>2, <2>3, <2>4 DEF Nesting
<1>3. ASSUME NEW list, Nesting(list), Len(list) # 1
      PROVE  Nesting(SubSeq(list, 1, Len(list) - 1))
  <2> DEFINE rest == SubSeq(list, 1, Len(list) - 1)
  <2>1. list \in Seq(Names) /\ Len(list) \in Nat /\ Len(list) > 1
    <3> DEFINE length == Len(list)
    <3>1. list \in Seq(Names) /\ length > 0 /\ length # 1
      BY <1>3 DEF Nesting
    <3>2. length \in Nat
      BY <3>1
    <3> HIDE DEF length
    <3>3. length > 1
      BY <3>1, <3>2
    <3> QED
      BY <3>1, <3>2, <3>3 DEF length
  <2>2. /\ rest \in Seq(Names) /\ Len(rest) = Len(list) - 1
        /\ \A i \in 1..Len(list) - 1 : rest[i] = list[i]
    BY <2>1
  <2> HIDE DEF rest
  <2>3. /\ rest[1] = Http /\ Len(rest) > 0
        /\ \A i \in 2..Len(rest) : rest[i] \in Inner
    BY <1>3, <2>1, <2>2 DEF Nesting
  <2>4. Nesting(rest)
    BY <2>2, <2>3 DEF Nesting
  <2> QED
    BY <2>4 DEF rest
<1> QED
  BY <1>1, <1>2, <1>3

\* The innermost operation is the request's own exactly when it is the only one.
LEMMA InnermostIsRequest ==
  ASSUME Inv, NEW t \in Tasks, InRequest(t)
  PROVE  /\ Len(open[t]) \in Nat \ {0}
         /\ Innermost(t) \in Names
         /\ Innermost(t) = Http <=> Len(open[t]) = 1
<1>1. Nesting(open[t])
  BY DEF Inv, Nested
<1>2. open[t] \in Seq(Names) /\ Len(open[t]) \in Nat \ {0}
  BY <1>1 DEF Nesting
<1>3. Innermost(t) \in Names
  BY <1>2 DEF Innermost
<1>4. CASE Len(open[t]) = 1
  BY <1>1, <1>2, <1>3, <1>4 DEF Nesting, Innermost
<1>5. CASE Len(open[t]) # 1
  <2>1. Len(open[t]) \in 2..Len(open[t])
    <3> DEFINE length == Len(open[t])
    <3>1. length \in Nat \ {0} /\ length # 1
      BY <1>2, <1>5
    <3> HIDE DEF length
    <3>2. length \in 2..length
      BY <3>1
    <3> QED
      BY <3>2 DEF length
  <2>2. Innermost(t) \in Inner
    BY <1>1, <2>1 DEF Nesting, Innermost
  <2> QED
    BY <1>2, <1>3, <1>5, <2>2 DEF Http
<1> QED
  BY <1>4, <1>5

LEMMA Numbers ==
  ASSUME Inv
  PROVE  /\ requests["answered"] \in Nat /\ requests["500"] \in Nat /\ timed \in Nat
         /\ errors[Http] \in Nat /\ durations[Http] \in Nat
         /\ Http \in Names /\ {"answered", "500"} = Statuses
BY DEF Inv, Types, Statuses, Names, Http

\* A step of t that leaves the other tasks where they are keeps the invariant if it
\* leaves t nested as it should be, on the loop only if no other is, and the
\* numbers balanced.
Others(t) ==
  \A u \in Tasks \ {t} : pc'[u] = pc[u] /\ open'[u] = open[u] /\ raising'[u] = raising[u]

LEMMA Step ==
  ASSUME Inv, NEW t \in Tasks, Others(t), Types', Nested(t)',
         OnLoop(t)' => \A u \in Tasks \ {t} : ~OnLoop(u),
         OnLoop(t)' => Ahead(t)',
         ~OnLoop(t)' =>
           \/ (\A u \in Tasks : ~OnLoop(u)') /\ Level'
           \/ ~OnLoop(t) /\ requests' = requests /\ timed' = timed
                /\ errors'[Http] = errors[Http] /\ durations'[Http] = durations[Http]
  PROVE  Inv'
<1>1. \A u \in Tasks \ {t} : (OnLoop(u)' <=> OnLoop(u)) /\ (Nested(u)' <=> Nested(u))
  BY DEF Others, OnLoop, Nested, InRequest
<1>2. \A u \in Tasks : Nested(u)'
  BY <1>1 DEF Inv
<1>3. OneOnLoop'
  BY <1>1 DEF Inv, OneOnLoop
<1>4. Balance'
  <2>1. CASE OnLoop(t)'
    <3>1. \A u \in Tasks \ {t} : ~OnLoop(u)'
      BY <1>1, <2>1
    <3> QED
      BY <2>1, <3>1 DEF Balance
  <2>2. CASE ~OnLoop(t)' /\ (\A u \in Tasks : ~OnLoop(u)') /\ Level'
    BY <2>2 DEF Balance
  <2>3. CASE ~OnLoop(t)' /\ ~OnLoop(t) /\ requests' = requests /\ timed' = timed
               /\ errors'[Http] = errors[Http] /\ durations'[Http] = durations[Http]
    <3>1. Counted' = Counted /\ (Level' <=> Level)
      BY <2>3 DEF Counted, Level
    <3>2. \A u \in Tasks : (OnLoop(u)' <=> OnLoop(u))
      BY <1>1, <2>3
    <3>3. ASSUME NEW u \in Tasks, OnLoop(u)'
          PROVE  Ahead(u)'
      <4>1. u # t
        BY <2>3, <3>3
      <4>2. pc'[u] = pc[u] /\ raising'[u] = raising[u] /\ Ahead(u)
        BY <3>2, <3>3, <4>1 DEF Others, Inv, Balance
      <4> QED
        BY <2>3, <3>1, <4>2 DEF Ahead
    <3> QED
      BY <3>1, <3>2, <3>3 DEF Inv, Balance
  <2> QED
    BY <2>1, <2>2, <2>3
<1> QED
  BY <1>2, <1>3, <1>4 DEF Inv

(***************************************************************************)
(* The invariant holds at first and is kept by every action.               *)
(***************************************************************************)
LEMMA InitInv == Init => Inv
<1> SUFFICES ASSUME Init
             PROVE  Inv
  OBVIOUS
<1>1. Types
  BY DEF Init, Types
<1>2. \A t \in Tasks : ~OnLoop(t) /\ Nested(t)
  BY DEF Init, OnLoop, Nested, InRequest, Closing
<1>3. Level
  BY DEF Init, Level, Counted, Http, Names, Statuses
<1> QED
  BY <1>1, <1>2, <1>3 DEF Inv, OneOnLoop, Balance

\* A request begins, or an operation inside one: neither is on the loop.
LEMMA BeginInv ==
  ASSUME Inv, NEW t \in Tasks, Begin(t)
  PROVE  Inv'
<1>1. /\ pc' = [pc EXCEPT ![t] = "body"] /\ raising' = [raising EXCEPT ![t] = FALSE]
      /\ errors' = errors /\ durations' = durations /\ requests' = requests
      /\ timed' = timed
  BY DEF Begin, Goto, registry
<1>2. PICK list : open' = [open EXCEPT ![t] = list] /\ Nesting(list)
  <2>1. CASE pc[t] = "idle" /\ open' = [open EXCEPT ![t] = <<"http.request">>]
    BY <2>1, Nestings DEF Http
  <2>2. ASSUME pc[t] = "body", NEW name \in Inner,
               open' = [open EXCEPT ![t] = Append(@, name)]
        PROVE  \E list : open' = [open EXCEPT ![t] = list] /\ Nesting(list)
    <3>1. Nesting(open[t])
      BY <2>2 DEF Inv, Nested, InRequest
    <3>2. Nesting(Append(open[t], name))
      BY <3>1, Nestings
    <3> QED
      BY <2>2, <3>2
  <2> QED
    BY <2>1, <2>2 DEF Begin
<1>3. Types'
  BY <1>1, <1>2 DEF Inv, Types, Nesting
<1>4. /\ pc'[t] = "body" /\ open'[t] = list /\ Others(t)
  BY <1>1, <1>2 DEF Inv, Types, Others
<1>5. Nested(t)'
  BY <1>2, <1>4 DEF Nested
<1>6. ~OnLoop(t)' /\ ~OnLoop(t)
  BY <1>4 DEF OnLoop, Closing, Begin
<1> QED
  BY <1>1, <1>3, <1>4, <1>5, <1>6, Step

\* The body is left: when it is the request's own, the loop is free for it.
LEMMA LeaveInv ==
  ASSUME Inv, NEW t \in Tasks, Leave(t) \/ Raise(t)
  PROVE  Inv'
<1>1. /\ pc[t] = "body" /\ LoopFree(t) /\ open' = open
      /\ errors' = errors /\ durations' = durations /\ requests' = requests
      /\ timed' = timed
      /\ \/ /\ pc' = [pc EXCEPT ![t] = "observe"] /\ raising' = raising /\ ~raising[t]
         \/ /\ pc' = [pc EXCEPT ![t] = "error"]
            /\ raising' = [raising EXCEPT ![t] = TRUE]
  BY DEF Leave, Raise, Goto, registry
<1>2. Types'
  BY <1>1 DEF Inv, Types, Closing
<1>3. /\ \/ pc'[t] = "observe" /\ ~raising'[t]
         \/ pc'[t] = "error" /\ raising'[t]
      /\ Others(t)
  BY <1>1 DEF Inv, Types, Others
<1>4. Nested(t)'
  BY <1>1 DEF Inv, Nested, InRequest
<1>5. ~OnLoop(t)
  BY <1>1 DEF OnLoop, Closing
<1>6. OnLoop(t)' => Len(open[t]) = 1
  BY <1>1, <1>3 DEF OnLoop
<1>7. OnLoop(t)' => \A u \in Tasks \ {t} : ~OnLoop(u)
  BY <1>1, <1>6 DEF LoopFree
<1>8. OnLoop(t)' => Ahead(t)'
  <2> SUFFICES ASSUME OnLoop(t)'
               PROVE  Ahead(t)'
    OBVIOUS
  <2>1. Level
    BY <1>5, <1>7 DEF Inv, Balance
  <2>2. Level' /\ Counted' = Counted
    BY <1>1, <2>1 DEF Level, Counted
  <2> QED
    BY <1>1, <1>3, <2>2, Numbers DEF Ahead, Level
<1> QED
  BY <1>1, <1>2, <1>3, <1>4, <1>5, <1>7, <1>8, Step

LEMMA CatchInv ==
  ASSUME Inv, NEW t \in Tasks, Catch(t)
  PROVE  Inv'
<1>1. /\ pc[t] = "body" /\ pc' = pc /\ open' = open
      /\ raising' = [raising EXCEPT ![t] = FALSE]
      /\ errors' = errors /\ durations' = durations /\ requests' = requests
      /\ timed' = timed
  BY DEF Catch, registry
<1>2. Types'
  BY <1>1 DEF Inv, Types
<1>3. Others(t) /\ Nested(t)'
  BY <1>1 DEF Inv, Types, Others, Nested, InRequest
<1>4. ~OnLoop(t) /\ ~OnLoop(t)'
  BY <1>1 DEF OnLoop, Closing
<1> QED
  BY <1>1, <1>2, <1>3, <1>4, Step

LEMMA CountErrorInv ==
  ASSUME Inv, NEW t \in Tasks, CountError(t)
  PROVE  Inv'
<1>1. /\ pc[t] = "error" /\ pc' = [pc EXCEPT ![t] = "observe"]
      /\ open' = open /\ raising' = raising
      /\ errors' = [errors EXCEPT ![Innermost(t)] = @ + 1]
      /\ durations' = durations /\ requests' = requests /\ timed' = timed
  BY DEF CountError, Goto
<1>2. /\ Len(open[t]) \in Nat \ {0} /\ Innermost(t) \in Names
      /\ Innermost(t) = Http <=> Len(open[t]) = 1
  BY <1>1, InnermostIsRequest DEF InRequest, Closing
<1>3. Types'
  BY <1>1, <1>2 DEF Inv, Types, Closing
<1>4. pc'[t] = "observe" /\ Others(t) /\ Nested(t)'
  BY <1>1 DEF Inv, Types, Others, Nested, InRequest, Closing
<1>5. OnLoop(t)' <=> OnLoop(t)
  BY <1>1, <1>4 DEF OnLoop, Closing
<1>6. OnLoop(t) => Len(open[t]) = 1
  BY <1>1 DEF OnLoop
<1>7. OnLoop(t)' => Ahead(t)'
  <2> SUFFICES ASSUME OnLoop(t)
               PROVE  Ahead(t)'
    BY <1>5
  <2>1. raising[t] /\ Level
    BY <1>1 DEF Inv, Balance, Ahead
  <2>2. errors'[Http] = errors[Http] + 1
    BY <1>1, <1>2, <1>6 DEF Inv, Types
  <2>3. Counted' = Counted
    BY <1>1 DEF Counted
  <2> QED
    BY <1>1, <1>4, <2>1, <2>2, <2>3 DEF Ahead, Level
<1>8. ~OnLoop(t) => errors'[Http] = errors[Http]
  <2>1. ~OnLoop(t) => Innermost(t) # Http
    BY <1>1, <1>2 DEF OnLoop, Closing
  <2> QED
    BY <1>1, <1>2, <2>1, Numbers DEF Inv, Types
<1> QED
  BY <1>1, <1>3, <1>4, <1>5, <1>7, <1>8, Step DEF Inv, OneOnLoop

LEMMA ObserveInv ==
  ASSUME Inv, NEW t \in Tasks, Observe(t)
  PROVE  Inv'
<1>1. /\ pc[t] = "observe" /\ pc' = [pc EXCEPT ![t] = "append"]
      /\ open' = open /\ raising' = raising
      /\ durations' = [durations EXCEPT ![Innermost(t)] = @ + 1]
      /\ errors' = errors /\ requests' = requests /\ timed' = timed
  BY DEF Observe, Goto
<1>2. /\ Len(open[t]) \in Nat \ {0} /\ Innermost(t) \in Names
      /\ Innermost(t) = Http <=> Len(open[t]) = 1
  BY <1>1, InnermostIsRequest DEF InRequest, Closing
<1>3. Types'
  BY <1>1, <1>2 DEF Inv, Types, Closing
<1>4. pc'[t] = "append" /\ Others(t) /\ Nested(t)'
  BY <1>1 DEF Inv, Types, Others, Nested, InRequest, Closing
<1>5. OnLoop(t)' <=> OnLoop(t)
  BY <1>1, <1>4 DEF OnLoop, Closing
<1>6. OnLoop(t) => Len(open[t]) = 1
  BY <1>1 DEF OnLoop
<1>7. OnLoop(t)' => Ahead(t)'
  <2> SUFFICES ASSUME OnLoop(t)
               PROVE  Ahead(t)'
    BY <1>5
  <2>1. /\ durations[Http] = Counted /\ timed = Counted
        /\ errors[Http] = requests["500"] + (IF raising[t] THEN 1 ELSE 0)
    BY <1>1 DEF Inv, Balance, Ahead
  <2>2. durations'[Http] = durations[Http] + 1
    BY <1>1, <1>2, <1>6 DEF Inv, Types
  <2>3. Counted' = Counted
    BY <1>1 DEF Counted
  <2> QED
    BY <1>1, <1>4, <2>1, <2>2, <2>3 DEF Ahead
<1>8. ~OnLoop(t) => durations'[Http] = durations[Http]
  <2>1. ~OnLoop(t) => Innermost(t) # Http
    BY <1>1, <1>2 DEF OnLoop, Closing
  <2> QED
    BY <1>1, <1>2, <2>1, Numbers DEF Inv, Types
<1> QED
  BY <1>1, <1>3, <1>4, <1>5, <1>7, <1>8, Step DEF Inv, OneOnLoop

\* The export of a span moves on and counts nothing.
LEMMA ExportInv ==
  ASSUME Inv, NEW t \in Tasks, AppendSpan(t) \/ Slice(t)
  PROVE  Inv'
<1>1. /\ pc[t] \in {"append", "slice"}
      /\ \E place \in {"slice", "store"} : pc' = [pc EXCEPT ![t] = place]
      /\ open' = open /\ raising' = raising
      /\ errors' = errors /\ durations' = durations /\ requests' = requests
      /\ timed' = timed
  BY DEF AppendSpan, Slice, Goto, registry
<1>2. Types'
  BY <1>1 DEF Inv, Types, Closing
<1>3. pc'[t] \in {"slice", "store"} /\ Others(t) /\ Nested(t)'
  BY <1>1 DEF Inv, Types, Others, Nested, InRequest, Closing
<1>4. OnLoop(t)' <=> OnLoop(t)
  BY <1>1, <1>3 DEF OnLoop, Closing
<1>5. OnLoop(t)' => Ahead(t)'
  <2>1. Counted' = Counted
    BY <1>1 DEF Counted
  <2>2. OnLoop(t) => Ahead(t)
    BY DEF Inv, Balance
  <2> QED
    BY <1>1, <1>3, <1>4, <2>1, <2>2 DEF Ahead
<1> QED
  BY <1>1, <1>2, <1>3, <1>4, <1>5, Step DEF Inv, OneOnLoop

\* The operation is left: the request's own for the middleware's counters, and
\* another for the body it was in.
LEMMA StoreInv ==
  ASSUME Inv, NEW t \in Tasks, Store(t)
  PROVE  Inv'
<1> DEFINE place == IF Len(open[t]) = 1 THEN "count" ELSE "body"
<1> DEFINE rest == SubSeq(open[t], 1, Len(open[t]) - 1)
<1>1. /\ pc[t] = "store" /\ pc' = [pc EXCEPT ![t] = place]
      /\ open' = [open EXCEPT ![t] = rest] /\ raising' = raising
      /\ errors' = errors /\ durations' = durations /\ requests' = requests
      /\ timed' = timed
  BY DEF Store, Goto, registry
<1>2. Nesting(open[t]) /\ open[t] \in Seq(Names) /\ Len(open[t]) \in Nat \ {0}
  BY <1>1 DEF Inv, Nested, InRequest, Closing, Nesting
<1>3. rest \in Seq(Names)
  BY <1>2
<1>4. place \in {"count", "body"}
  OBVIOUS
<1>5. Types'
  BY <1>1, <1>3, <1>4 DEF Inv, Types
<1>6. pc'[t] = place /\ open'[t] = rest /\ Others(t)
  BY <1>1 DEF Inv, Types, Others
<1>7. Nested(t)'
  <2>1. CASE Len(open[t]) = 1
    BY <1>6, <2>1 DEF Nested, InRequest, Closing
  <2>2. CASE Len(open[t]) # 1
    <3>1. Nesting(rest)
      BY <1>2, <2>2, Nestings
    <3> QED
      BY <1>6, <3>1 DEF Nested
  <2> QED
    BY <2>1, <2>2
<1>8. (OnLoop(t)' <=> OnLoop(t)) /\ (OnLoop(t)' => pc'[t] = "count")
  BY <1>1, <1>6 DEF OnLoop, Closing
<1>9. OnLoop(t)' => Ahead(t)'
  <2>1. Counted' = Counted
    BY <1>1 DEF Counted
  <2>2. OnLoop(t) => Ahead(t)
    BY DEF Inv, Balance
  <2> QED
    BY <1>1, <1>8, <2>1, <2>2 DEF Ahead
<1> QED
  BY <1>1, <1>5, <1>6, <1>7, <1>8, <1>9, Step DEF Inv, OneOnLoop

LEMMA CountRequestInv ==
  ASSUME Inv, NEW t \in Tasks, CountRequest(t)
  PROVE  Inv'
<1>1. /\ pc[t] = "count" /\ pc' = [pc EXCEPT ![t] = "time"]
      /\ open' = open /\ raising' = raising
      /\ requests' = [requests EXCEPT ![Status(t)] = @ + 1]
      /\ errors' = errors /\ durations' = durations /\ timed' = timed
  BY DEF CountRequest, Goto
<1>2. Types'
  BY <1>1, Numbers DEF Inv, Types, Statuses, Status
<1>3. pc'[t] = "time" /\ Others(t) /\ Nested(t)'
  BY <1>1 DEF Inv, Types, Others, Nested, InRequest, Closing
<1>4. OnLoop(t) /\ OnLoop(t)'
  BY <1>1, <1>3 DEF OnLoop
<1>5. /\ durations[Http] = Counted + 1 /\ timed = Counted
      /\ errors[Http] = requests["500"] + (IF raising[t] THEN 1 ELSE 0)
  BY <1>1, <1>4 DEF Inv, Balance, Ahead
<1>6. /\ Counted' = Counted + 1
      /\ requests'["500"] = requests["500"] + (IF raising[t] THEN 1 ELSE 0)
  <2>1. CASE raising[t]
    <3>1. /\ requests'["500"] = requests["500"] + 1
          /\ requests'["answered"] = requests["answered"]
      BY <1>1, <2>1 DEF Inv, Types, Statuses, Status
    <3> QED
      BY <2>1, <3>1, Numbers DEF Counted
  <2>2. CASE ~raising[t]
    <3>1. /\ requests'["answered"] = requests["answered"] + 1
          /\ requests'["500"] = requests["500"]
      BY <1>1, <2>2 DEF Inv, Types, Statuses, Status
    <3> QED
      BY <2>2, <3>1, Numbers DEF Counted
  <2> QED
    BY <2>1, <2>2
<1>7. Ahead(t)'
  BY <1>1, <1>3, <1>5, <1>6 DEF Ahead
<1> QED
  BY <1>2, <1>3, <1>4, <1>7, Step DEF Inv, OneOnLoop

LEMMA TimeRequestInv ==
  ASSUME Inv, NEW t \in Tasks, TimeRequest(t)
  PROVE  Inv'
<1>1. /\ pc[t] = "time" /\ pc' = [pc EXCEPT ![t] = "idle"]
      /\ open' = open /\ raising' = [raising EXCEPT ![t] = FALSE]
      /\ timed' = timed + 1
      /\ errors' = errors /\ durations' = durations /\ requests' = requests
  BY DEF TimeRequest, Goto
<1>2. Types'
  BY <1>1 DEF Inv, Types
<1>3. pc'[t] = "idle" /\ Others(t) /\ Nested(t)'
  BY <1>1 DEF Inv, Types, Others, Nested, InRequest, Closing
<1>4. OnLoop(t) /\ ~OnLoop(t)'
  BY <1>1, <1>3 DEF OnLoop, Closing
<1>5. \A u \in Tasks \ {t} : ~OnLoop(u)'
  BY <1>3, <1>4 DEF Inv, OneOnLoop, OnLoop, Others
<1>6. Level'
  <2>1. /\ durations[Http] = Counted /\ timed + 1 = Counted
        /\ errors[Http] = requests["500"]
    BY <1>1, <1>4 DEF Inv, Balance, Ahead
  <2> QED
    BY <1>1, <2>1 DEF Level, Counted
<1> QED
  BY <1>2, <1>3, <1>4, <1>5, <1>6, Step

LEMMA NextInv == Inv /\ [Next]_vars => Inv'
<1> SUFFICES ASSUME Inv, [Next]_vars
             PROVE  Inv'
  OBVIOUS
<1>1. CASE Next
  BY <1>1, BeginInv, LeaveInv, CatchInv, CountErrorInv, ObserveInv, ExportInv, StoreInv,
     CountRequestInv, TimeRequestInv DEF Next
<1>2. CASE UNCHANGED vars
  BY <1>2 DEF vars, Inv, Types, Nested, InRequest, OneOnLoop, OnLoop, Balance, Level, Ahead,
              Counted
<1> QED
  BY <1>1, <1>2

LEMMA AlwaysInv == Spec => []Inv
BY InitInv, NextInv, PTL DEF Spec

\* Whenever /metrics is scraped, for any number of requests in progress, its
\* numbers agree up to the one request the event loop is just finishing.
THEOREM ScrapesAgree == Spec => []ScrapeConsistent
<1>1. ASSUME Inv
      PROVE  /\ timed <= Counted /\ Counted <= durations[Http]
             /\ durations[Http] <= timed + 1
             /\ requests["500"] <= errors[Http] /\ errors[Http] <= requests["500"] + 1
  <2>1. CASE \A t \in Tasks : ~OnLoop(t)
    BY <1>1, <2>1, Numbers DEF Inv, Balance, Level, Counted
  <2>2. ASSUME NEW t \in Tasks, OnLoop(t)
        PROVE  /\ timed <= Counted /\ Counted <= durations[Http]
               /\ durations[Http] <= timed + 1
               /\ requests["500"] <= errors[Http] /\ errors[Http] <= requests["500"] + 1
    <3>1. Ahead(t) /\ pc[t] \in Closing \union {"count", "time"}
      BY <1>1, <2>2 DEF Inv, Balance, OnLoop
    <3>2. Counted \in Nat
      BY <1>1, Numbers DEF Counted
    <3>3. CASE pc[t] \in {"error", "time"}
      BY <1>1, <3>1, <3>2, <3>3, Numbers DEF Ahead, Level
    <3>4. CASE pc[t] \in {"observe", "append", "slice", "store", "count"}
      BY <1>1, <3>1, <3>2, <3>4, Numbers DEF Ahead
    <3> QED
      BY <3>1, <3>3, <3>4 DEF Closing
  <2> QED
    BY <2>1, <2>2
<1>2. Inv => ScrapeConsistent
  BY <1>1 DEF ScrapeConsistent, Counted, Http
<1> QED
  BY <1>2, AlwaysInv, PTL

----------------------------------------------------------------------------
(***************************************************************************)
(* The spans. An export in progress is between its append and its store;   *)
(* what it is about to store is in order and within the limit, whatever    *)
(* others do to the list meanwhile. While no two exports have ever met,    *)
(* one is in progress at most, and what is in the list and in its hands is *)
(* known exactly: the last of all spans that ended.                        *)
(***************************************************************************)
Active == {t \in Tasks : Exporting(t)}

\* The last m of n spans.
Kept(n, m) ==
  LET length == IF n < m THEN n ELSE m
  IN [i \in 1..length |-> n - length + i]

InOrder(list) ==
  /\ list \in Seq(1..ended)
  /\ \A i, j \in 1..Len(list) : i < j => list[i] < list[j]

NeverMet ==
  /\ \A t, u \in Active : t = u
  /\ Active = {} => spans = Kept(ended, MaximumSpans)
  /\ \A t \in Tasks :
       /\ pc[t] = "slice" => spans = Kept(ended, MaximumSpans + 1)
       /\ pc[t] = "store" => held[t] = Kept(ended, MaximumSpans)

ListInv ==
  /\ pc \in [Tasks -> Closing \union {"idle", "body", "count", "time"}]
  /\ held \in [Tasks -> Seq(1..ended)] /\ ended \in Nat /\ overlapped \in BOOLEAN
  /\ InOrder(spans) /\ \A t \in Tasks : InOrder(held[t])
  /\ \A t \in Tasks : Len(held[t]) <= MaximumSpans
  /\ Len(spans) <= MaximumSpans + Cardinality(Active)
  /\ ~overlapped => NeverMet

\* One span more: the last m and it are the last m + 1 of one more.
LEMMA KeptGrows ==
  ASSUME NEW n \in Nat, NEW m \in Nat
  PROVE  Append(Kept(n, m), n + 1) = Kept(n + 1, m + 1)
<1> DEFINE k == IF n < m THEN n ELSE m
<1>1. k \in Nat /\ k + 1 = IF n + 1 < m + 1 THEN n + 1 ELSE m + 1
  OBVIOUS
<1>2. Kept(n, m) = [i \in 1..k |-> n - k + i]
  BY DEF Kept
<1>3. Kept(n + 1, m + 1) = [i \in 1..(k + 1) |-> (n + 1) - (k + 1) + i]
  BY <1>1 DEF Kept
<1> HIDE DEF k
<1>4. Append([i \in 1..k |-> n - k + i], n + 1) =
        [i \in 1..(k + 1) |-> (n + 1) - (k + 1) + i]
  <2> DEFINE f == [i \in 1..k |-> n - k + i]
             g == [i \in 1..(k + 1) |-> (n + 1) - (k + 1) + i]
  <2>1. f \in Seq(Int) /\ Len(f) = k /\ g \in Seq(Int) /\ Len(g) = k + 1
    BY <1>1
  <2>2. \A i \in 1..(k + 1) : g[i] = n - k + i
    BY <1>1
  <2>3. \A i \in 1..k : f[i] = n - k + i
    BY <1>1
  <2> HIDE DEF f, g
  <2>4. /\ Append(f, n + 1) \in Seq(Int) /\ Len(Append(f, n + 1)) = k + 1
        /\ \A i \in 1..k : Append(f, n + 1)[i] = f[i]
        /\ Append(f, n + 1)[k + 1] = n + 1
    BY <1>1, <2>1
  <2>5. \A i \in 1..(k + 1) : Append(f, n + 1)[i] = g[i]
    BY <1>1, <2>2, <2>3, <2>4
  <2>6. Append(f, n + 1) = g
    BY <2>1, <2>4, <2>5, SeqEqual
  <2> QED
    BY <2>6 DEF f, g
<1> QED
  BY <1>2, <1>3, <1>4

\* Slicing one span too many leaves the last of them.
LEMMA KeptSliced ==
  ASSUME NEW n \in Nat
  PROVE  Latest(Kept(n, MaximumSpans + 1)) = Kept(n, MaximumSpans)
<1> DEFINE m == MaximumSpans
           list == Kept(n, m + 1)
<1>1. CASE n <= m
  <2>1. list = [i \in 1..n |-> n - n + i] /\ Kept(n, m) = [i \in 1..n |-> n - n + i]
    BY <1>1 DEF Kept
  <2>2. list \in Seq(Int) /\ Len(list) = n
    BY <2>1
  <2> QED
    BY <1>1, <2>1, <2>2 DEF Latest
<1>2. CASE n > m
  <2>1. /\ list = [i \in 1..(m + 1) |-> n - (m + 1) + i]
        /\ Kept(n, m) = [i \in 1..m |-> n - m + i]
    BY <1>2 DEF Kept
  <2> DEFINE kept == Kept(n, m)
  <2>2. list \in Seq(Int) /\ Len(list) = m + 1 /\ kept \in Seq(Int) /\ Len(kept) = m
    BY <2>1
  <2>3. /\ \A i \in 1..(m + 1) : list[i] = n - (m + 1) + i
        /\ \A i \in 1..m : kept[i] = n - m + i
    BY <2>1
  <2> HIDE DEF list, kept
  <2>4. Latest(list) = SubSeq(list, 2, m + 1)
    BY <2>2 DEF Latest
  <2>5. /\ SubSeq(list, 2, m + 1) \in Seq(Int)
        /\ Len(SubSeq(list, 2, m + 1)) = m
        /\ \A i \in 1..m : SubSeq(list, 2, m + 1)[i] = list[2 + i - 1]
    BY <2>2, SubSeqProperties
  <2>6. \A i \in 1..m : SubSeq(list, 2, m + 1)[i] = kept[i]
    BY <2>3, <2>5
  <2>7. SubSeq(list, 2, m + 1) = kept
    BY <2>2, <2>5, <2>6, SeqEqual
  <2> QED
    BY <2>4, <2>7 DEF list, kept
<1> QED
  BY <1>1, <1>2

\* The latest of a list in order are in order, and within the limit.
LEMMA LatestInOrder ==
  ASSUME NEW list, InOrder(list), ended \in Nat
  PROVE  InOrder(Latest(list)) /\ Len(Latest(list)) <= MaximumSpans
<1>0. list \in Seq(1..ended) /\ Len(list) \in Nat
  BY DEF InOrder
<1>1. CASE Len(list) <= MaximumSpans
  BY <1>0, <1>1 DEF Latest
<1>2. CASE Len(list) > MaximumSpans
  <2> DEFINE n == Len(list)
             from == n - MaximumSpans + 1
             last == SubSeq(list, from, n)
  <2>1. from \in 1..n /\ n \in Nat /\ n - from + 1 = MaximumSpans
    BY <1>0, <1>2
  <2>2. \A i \in from..n : list[i] \in 1..ended
    BY <1>0, <2>1
  <2> HIDE DEF from
  <2>3. /\ last \in Seq(1..ended) /\ Len(last) = MaximumSpans
        /\ \A i \in 1..MaximumSpans : last[i] = list[from + i - 1]
    BY <2>1, <2>2, SubSeqProperties
  <2>4. \A i, j \in 1..MaximumSpans : i < j =>
          from + i - 1 \in 1..n /\ from + j - 1 \in 1..n /\ from + i - 1 < from + j - 1
    BY <2>1
  <2>5. \A i, j \in 1..MaximumSpans : i < j => last[i] < last[j]
    BY <2>3, <2>4 DEF InOrder
  <2>6. Latest(list) = last
    BY <1>0, <1>2 DEF Latest, from
  <2> QED
    BY <2>3, <2>5, <2>6 DEF InOrder
<1> QED
  BY <1>0, <1>1, <1>2

LEMMA InitList == Init => ListInv
<1> SUFFICES ASSUME Init
             PROVE  ListInv
  OBVIOUS
<1>1. Active = {} /\ \A t \in Tasks : pc[t] = "idle"
  BY DEF Init, Active, Exporting
<1>2. Kept(0, MaximumSpans) = <<>>
  <2>1. Kept(0, MaximumSpans) = [i \in 1..0 |-> 0 - 0 + i]
    BY DEF Kept
  <2> QED
    BY <2>1
<1>3. InOrder(<<>>) /\ Len(<<>>) = 0
  BY DEF InOrder
<1>4. NeverMet
  BY <1>1, <1>2 DEF Init, NeverMet
<1>5. /\ <<>> \in Seq(1..0) /\ MaximumSpans \in Nat
      /\ Cardinality(Active) = 0
  BY <1>1, FS_EmptySet
<1>6. Len(spans) <= MaximumSpans + Cardinality(Active)
  BY <1>3, <1>5 DEF Init
<1>7. held \in [Tasks -> Seq(1..ended)]
  BY <1>5 DEF Init
<1>8. \A t \in Tasks : held[t] = <<>> /\ Len(held[t]) <= MaximumSpans
  BY <1>3, <1>5 DEF Init
<1> QED
  BY <1>3, <1>4, <1>6, <1>7, <1>8 DEF Init, ListInv

\* A step that touches no span and moves a task that exports neither before nor
\* after keeps the invariant.
LEMMA NoExport ==
  ASSUME ListInv, UNCHANGED exporter, NEW t \in Tasks, ~Exporting(t), ~Exporting(t)',
         pc' \in [Tasks -> Closing \union {"idle", "body", "count", "time"}],
         \A u \in Tasks \ {t} : pc'[u] = pc[u]
  PROVE  ListInv'
<1>2. \A u \in Tasks : /\ Exporting(u)' <=> Exporting(u)
                       /\ pc'[u] = "slice" <=> pc[u] = "slice"
                       /\ pc'[u] = "store" <=> pc[u] = "store"
  BY DEF Exporting
<1>3. Active' = Active
  BY <1>2 DEF Active
<1>4. NeverMet => NeverMet'
  BY <1>2, <1>3 DEF NeverMet, exporter
<1> QED
  BY <1>3, <1>4 DEF ListInv, InOrder, exporter

\* A span ends: the list grows by it, and so does the number of exports.
LEMMA AppendList ==
  ASSUME ListInv, NEW t \in Tasks, AppendSpan(t)
  PROVE  ListInv'
<1>1. /\ pc[t] = "append" /\ pc' = [pc EXCEPT ![t] = "slice"]
      /\ ended' = ended + 1 /\ spans' = Append(spans, ended + 1) /\ held' = held
      /\ overlapped' = (overlapped \/ \E u \in Tasks : Exporting(u))
  BY DEF AppendSpan, Goto
<1>2. /\ ended \in Nat /\ spans \in Seq(1..ended) /\ Len(spans) \in Nat
      /\ held \in [Tasks -> Seq(1..ended)]
      /\ pc \in [Tasks -> Closing \union {"idle", "body", "count", "time"}]
  BY DEF ListInv, InOrder
<1>3. \A s \in Seq(1..ended) : s \in Seq(1..ended')
  <2>1. 1..ended \subseteq 1..ended'
    BY <1>1, <1>2
  <2> QED
    BY <2>1, SeqMonotonic
<1>4. held' \in [Tasks -> Seq(1..ended')]
  BY <1>1, <1>2, <1>3
<1>5. \A u \in Tasks : InOrder(held[u])'
  BY <1>1, <1>3 DEF ListInv, InOrder
<1>6. InOrder(spans)' /\ Len(spans') = Len(spans) + 1
  <2>1. spans \in Seq(1..ended') /\ ended' \in 1..ended'
    BY <1>1, <1>2, <1>3
  <2>2. /\ spans' \in Seq(1..ended') /\ Len(spans') = Len(spans) + 1
        /\ \A i \in 1..Len(spans) : spans'[i] = spans[i]
        /\ spans'[Len(spans) + 1] = ended + 1
    BY <1>1, <2>1, AppendProperties
  <2>3. \A i \in 1..Len(spans) : spans[i] \in 1..ended
    BY <1>2
  <2>4. ASSUME NEW i \in 1..Len(spans'), NEW j \in 1..Len(spans'), i < j
        PROVE  spans'[i] < spans'[j]
    <3>1. i \in 1..Len(spans) /\ spans'[i] = spans[i] /\ spans[i] <= ended
      BY <1>2, <2>2, <2>3, <2>4
    <3>2. CASE j \in 1..Len(spans)
      BY <2>2, <2>4, <3>1, <3>2 DEF ListInv, InOrder
    <3>3. CASE j = Len(spans) + 1
      BY <1>2, <2>2, <2>3, <3>1, <3>3
    <3> QED
      BY <1>2, <2>2, <3>2, <3>3
  <2> QED
    BY <2>2, <2>4 DEF InOrder
<1>7. Active' = Active \union {t} /\ t \notin Active
  BY <1>1, <1>2 DEF Active, Exporting
<1>8. /\ Cardinality(Active) \in Nat
      /\ Cardinality(Active') = Cardinality(Active) + 1
  BY <1>7, FS_Subset, FS_AddElement, FS_CardinalityType DEF Active
<1>9. Len(spans') <= MaximumSpans + Cardinality(Active')
  BY <1>2, <1>6, <1>8 DEF ListInv
<1>10. ~overlapped' => NeverMet'
  <2> SUFFICES ASSUME ~overlapped'
               PROVE  NeverMet'
    OBVIOUS
  <2>1. ~overlapped /\ Active = {}
    BY <1>1 DEF Active
  <2>2. spans = Kept(ended, MaximumSpans)
    BY <2>1 DEF ListInv, NeverMet
  <2>3. spans' = Kept(ended', MaximumSpans + 1)
    BY <1>1, <1>2, <2>2, KeptGrows
  <2>4. \A u \in Tasks : pc'[u] # "store"
    BY <1>1, <1>2, <2>1 DEF Active, Exporting
  <2> QED
    BY <1>7, <2>1, <2>3, <2>4 DEF NeverMet
<1>11. pc' \in [Tasks -> Closing \union {"idle", "body", "count", "time"}]
  BY <1>1, <1>2 DEF Closing
<1> QED
  BY <1>1, <1>2, <1>4, <1>5, <1>6, <1>9, <1>10, <1>11 DEF ListInv

\* The export takes the latest of the list as it finds it.
LEMMA SliceList ==
  ASSUME ListInv, NEW t \in Tasks, Slice(t)
  PROVE  ListInv'
<1>1. /\ pc[t] = "slice" /\ pc' = [pc EXCEPT ![t] = "store"]
      /\ held' = [held EXCEPT ![t] = Latest(spans)]
      /\ spans' = spans /\ ended' = ended /\ overlapped' = overlapped
  BY DEF Slice, Goto
<1>2. /\ InOrder(Latest(spans)) /\ Len(Latest(spans)) <= MaximumSpans
      /\ Latest(spans) \in Seq(1..ended)
  BY LatestInOrder DEF ListInv, InOrder
<1>3. \A u \in Tasks : held'[u] = IF u = t THEN Latest(spans) ELSE held[u]
  BY <1>1 DEF ListInv
<1>4. /\ \A u \in Tasks : InOrder(held[u])' /\ Len(held'[u]) <= MaximumSpans
      /\ held' \in [Tasks -> Seq(1..ended')]
  BY <1>1, <1>2, <1>3 DEF ListInv, InOrder
<1>5. Active' = Active
  BY <1>1 DEF ListInv, Active, Exporting
<1>6. ~overlapped' => NeverMet'
  <2> SUFFICES ASSUME ~overlapped'
               PROVE  NeverMet'
    OBVIOUS
  <2>1. NeverMet /\ t \in Active /\ Active = {t}
    BY <1>1 DEF ListInv, NeverMet, Active, Exporting
  <2>2. held'[t] = Kept(ended, MaximumSpans)
    BY <1>1, <1>3, <2>1, KeptSliced DEF NeverMet, ListInv
  <2>3. \A u \in Tasks : pc'[u] # "slice" /\ (pc'[u] = "store" => u = t)
    BY <1>1, <2>1 DEF ListInv, Active, Exporting
  <2> QED
    BY <1>1, <1>5, <2>1, <2>2, <2>3 DEF NeverMet
<1> QED
  BY <1>1, <1>4, <1>5, <1>6 DEF ListInv, InOrder, Closing

\* What was taken becomes the list, and one export less is in progress.
LEMMA StoreList ==
  ASSUME ListInv, NEW t \in Tasks, Store(t)
  PROVE  ListInv'
<1>1. PICK place \in {"count", "body"} :
        /\ pc[t] = "store" /\ pc' = [pc EXCEPT ![t] = place]
        /\ held' = [held EXCEPT ![t] = <<>>]
        /\ spans' = held[t] /\ ended' = ended /\ overlapped' = overlapped
  BY DEF Store, Goto
<1>2. InOrder(spans)' /\ Len(spans') <= MaximumSpans /\ Len(spans') \in Nat
  BY <1>1 DEF ListInv, InOrder
<1>3. \A u \in Tasks : held'[u] = IF u = t THEN <<>> ELSE held[u]
  BY <1>1 DEF ListInv
<1>4. <<>> \in Seq(1..ended) /\ Len(<<>>) = 0
  OBVIOUS
<1>5. /\ \A u \in Tasks : InOrder(held[u])' /\ Len(held'[u]) <= MaximumSpans
      /\ held' \in [Tasks -> Seq(1..ended')]
  <2>1. held' \in [Tasks -> Seq(1..ended')]
    BY <1>1, <1>4 DEF ListInv
  <2>2. ASSUME NEW u \in Tasks
        PROVE  InOrder(held[u])' /\ Len(held'[u]) <= MaximumSpans
    <3>1. CASE u = t
      <4>1. held'[u] = <<>> /\ 1..Len(<<>>) = {} /\ 0 <= MaximumSpans
        BY <1>3, <1>4, <3>1
      <4> QED
        BY <1>1, <1>4, <4>1 DEF InOrder
    <3>2. CASE u # t
      BY <1>1, <1>3, <3>2 DEF ListInv, InOrder
    <3> QED
      BY <3>1, <3>2
  <2> QED
    BY <2>1, <2>2
<1>6. Active' = Active \ {t}
  BY <1>1 DEF ListInv, Active, Exporting
<1>7. Cardinality(Active') \in Nat
  BY <1>6, FS_Subset, FS_CardinalityType DEF Active
<1>8. ~overlapped' => NeverMet'
  <2> SUFFICES ASSUME ~overlapped'
               PROVE  NeverMet'
    OBVIOUS
  <2>1. Active' = {} /\ spans' = Kept(ended', MaximumSpans)
    BY <1>1, <1>6 DEF ListInv, NeverMet, Active, Exporting
  <2>2. \A u \in Tasks : pc'[u] \notin {"slice", "store"}
    BY <2>1 DEF Active, Exporting
  <2> QED
    BY <2>1, <2>2 DEF NeverMet
<1>9. Len(spans') <= MaximumSpans + Cardinality(Active')
  BY <1>2, <1>7
<1>10. /\ pc' \in [Tasks -> Closing \union {"idle", "body", "count", "time"}]
       /\ ended' \in Nat /\ overlapped' \in BOOLEAN
  BY <1>1 DEF ListInv
<1> QED
  BY <1>2, <1>5, <1>8, <1>9, <1>10 DEF ListInv

LEMMA NextList == ListInv /\ [Next]_vars => ListInv'
<1> SUFFICES ASSUME ListInv, [Next]_vars
             PROVE  ListInv'
  OBVIOUS
<1>1. ASSUME NEW t \in Tasks,
             \/ Begin(t) \/ Leave(t) \/ Raise(t) \/ Catch(t) \/ CountError(t)
             \/ Observe(t) \/ CountRequest(t) \/ TimeRequest(t)
      PROVE  ListInv'
  <2>1. UNCHANGED exporter /\ ~Exporting(t)
    BY <1>1 DEF Begin, Leave, Raise, Catch, CountError, Observe, CountRequest, TimeRequest,
                exporter, Exporting
  <2>2. pc \in [Tasks -> Closing \union {"idle", "body", "count", "time"}]
    BY DEF ListInv
  <2>3. /\ pc' \in [Tasks -> Closing \union {"idle", "body", "count", "time"}]
        /\ \A u \in Tasks \ {t} : pc'[u] = pc[u]
        /\ ~Exporting(t)'
    <3>1. CASE Begin(t) \/ Catch(t)
      BY <2>2, <3>1 DEF Begin, Catch, Goto, Exporting
    <3>2. CASE Leave(t) \/ CountError(t)
      BY <2>2, <3>2 DEF Leave, CountError, Goto, Exporting, Closing
    <3>3. CASE Raise(t) \/ Observe(t)
      BY <2>2, <3>3 DEF Raise, Observe, Goto, Exporting, Closing
    <3>4. CASE CountRequest(t) \/ TimeRequest(t)
      BY <2>2, <3>4 DEF CountRequest, TimeRequest, Goto, Exporting
    <3> QED
      BY <1>1, <3>1, <3>2, <3>3, <3>4
  <2> QED
    BY <2>1, <2>3, NoExport
<1>2. CASE UNCHANGED vars
  <2>1. Active' = Active /\ (NeverMet' <=> NeverMet)
    BY <1>2 DEF vars, Active, Exporting, NeverMet
  <2> QED
    BY <1>2, <2>1 DEF vars, ListInv, InOrder
<1> QED
  BY <1>1, <1>2, AppendList, SliceList, StoreList DEF Next

\* However the exports of any number of tasks interleave, spans are kept in the
\* order they ended and none twice, over the limit only by exports in progress; and
\* as long as no two exports met, exactly the last spans are kept.
THEOREM SpansAreSound == Spec => []SpansSound
<1>1. ListInv => SpansSound
  <2> SUFFICES ASSUME ListInv
               PROVE  SpansSound
    OBVIOUS
  <2>1. DOMAIN spans = 1..Len(spans)
    BY DEF ListInv, InOrder
  <2>2. (\A t \in Tasks : ~Exporting(t)) => Active = {}
    BY DEF Active
  <2> QED
    BY <2>1, <2>2 DEF ListInv, InOrder, NeverMet, Kept, SpansSound, Active
<1> QED
  BY <1>1, InitList, NextList, PTL DEF Spec
================================================================================
