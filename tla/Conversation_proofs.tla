-------------------------- MODULE Conversation_proofs --------------------------
(***************************************************************************)
(* What TLAPS proves of ConversationService.respond for any requests,      *)
(* documents, confidences and faults, and whatever the generator cites.    *)
(***************************************************************************)
EXTENDS Conversation, FiniteSetTheorems, TLAPS

USE ConfidenceAssumption, BoundAssumption, FaultAssumption

(***************************************************************************)
(* The inductive invariant. The first part is local to a request: what is  *)
(* known of it by where its call is, of an answer, and of what the policy  *)
(* holds back. The second relates it to the store.                         *)
(***************************************************************************)
AskedOK == asked \in [Requests -> [sensitive: BOOLEAN, confidence: Confidences]]

Grounded(r) ==
  /\ response[r].citations # <<>>
  /\ \A i \in DOMAIN response[r].citations : response[r].citations[i] \in context[r]
  /\ ~asked[r].sensitive /\ asked[r].confidence >= MinimumConfidence
  /\ consulted[r] = {"retriever", "generator"}

Local(r) ==
  /\ at[r] \in {"new", "retrieve", "generate"} => response[r] = NoResponse
  /\ at[r] \in {"new", "retrieve"} => consulted[r] = {}
  /\ at[r] \in {"retrieve", "generate"} => PolicyReason(r) = "none"
  /\ at[r] = "generate" => consulted[r] = {"retriever"}
  /\ response[r].decision = "respond" => Grounded(r)
  /\ PolicyReason(r) # "none" => consulted[r] = {}

Unfinished(r) == at[r] \in {"new", "retrieve", "generate", "deciding"}
Kept(r) ==
  /\ Unfinished(r) => RecordsOf(r) = {}
  /\ at[r] = "returned" => RecordsOf(r) # {}
  /\ \A i, j \in RecordsOf(r) : i = j
  /\ \A i \in RecordsOf(r) : records[service[r]][i].decision = response[r].decision

Inv == TypeOK /\ AskedOK /\ \A r \in Requests : Local(r) /\ Kept(r)

(***************************************************************************)
(* Citations and responses.                                                *)
(***************************************************************************)

\* To cite nothing is a list of citations.
LEMMA NoCitations == <<>> \in CitedIds
<1>1. <<>> \in [1..0 -> Documents \union Invented]
  OBVIOUS
<1> QED
  BY <1>1 DEF CitedIds

Responses == [decision: Decisions, reason: Reasons, citations: CitedIds]

LEMMA ResponseTypes ==
  /\ NoResponse \in Responses
  /\ \A reason \in Reasons : Escalation(reason) \in Responses
  /\ \A ids \in CitedIds : Answer(ids) \in Responses
BY NoCitations DEF Responses, NoResponse, Escalation, Answer, Decisions, Reasons

\* What is decided on a generation: an answer only if it cites something, and
\* only documents that were retrieved.
LEMMA JudgementSound ==
  ASSUME NEW ids \in CitedIds, NEW documents \in SUBSET Documents
  PROVE  /\ Judgement(ids, documents) \in Responses
         /\ Judgement(ids, documents).decision = "respond" =>
              /\ Judgement(ids, documents).citations = ids
              /\ ids # <<>>
              /\ \A i \in DOMAIN ids : ids[i] \in documents
<1>1. CASE documents = {}
  BY <1>1, ResponseTypes DEF Judgement, Escalation, Reasons
<1>2. CASE documents # {} /\ ~ValidCitations(ids, documents)
  BY <1>2, ResponseTypes DEF Judgement, Escalation, Reasons
<1>3. CASE documents # {} /\ ValidCitations(ids, documents)
  BY <1>3, ResponseTypes DEF Judgement, Answer, ValidCitations
<1> QED
  BY <1>1, <1>2, <1>3

\* The reason of the policy is one of the reasons, and there is none only when the
\* request may be answered.
LEMMA PolicyMeaning ==
  ASSUME AskedOK, NEW r \in Requests
  PROVE  /\ PolicyReason(r) \in Reasons
         /\ PolicyReason(r) = "none" =>
              ~asked[r].sensitive /\ asked[r].confidence >= MinimumConfidence
<1>1. /\ asked[r].sensitive \in BOOLEAN
      /\ asked[r].confidence \in Int /\ MinimumConfidence \in Int
  BY DEF AskedOK
<1>2. CASE asked[r].sensitive
  BY <1>2 DEF PolicyReason, Reasons
<1>3. CASE ~asked[r].sensitive /\ asked[r].confidence < MinimumConfidence
  BY <1>3 DEF PolicyReason, Reasons
<1>4. CASE ~asked[r].sensitive /\ ~(asked[r].confidence < MinimumConfidence)
  BY <1>1, <1>4 DEF PolicyReason, Reasons
<1> QED
  BY <1>2, <1>3, <1>4

(***************************************************************************)
(* Steps of a request change nothing of the others.                        *)
(***************************************************************************)

\* The others' part of the state, as a step of request r leaves it.
Others(r) ==
  \A q \in Requests \ {r} :
    /\ at'[q] = at[q] /\ context'[q] = context[q] /\ response'[q] = response[q]
    /\ consulted'[q] = consulted[q]

LEMMA OthersLocal ==
  ASSUME Inv, NEW r \in Requests, Others(r), asked' = asked,
         NEW q \in Requests \ {r}
  PROVE  Local(q)'
BY DEF Inv, Others, Local, Grounded, PolicyReason

RecordType == [request: Requests, decision: Decisions]

\* What keeping a record does to a store: the records it had stay where they were,
\* and one more follows them.
LEMMA KeptIsAppended ==
  ASSUME TypeOK, NEW r \in Requests, Keep(r), NEW s \in Services
  PROVE  /\ records'[s] \in Seq(RecordType)
         /\ s # service[r] => records'[s] = records[s]
         /\ s = service[r] =>
              /\ Len(records[s]) \in Nat /\ DOMAIN records[s] = 1..Len(records[s])
              /\ DOMAIN records'[s] = 1..(Len(records[s]) + 1)
              /\ records'[s][Len(records[s]) + 1] = Record(r)
              /\ \A i \in DOMAIN records[s] : records'[s][i] = records[s][i]
<1>1. /\ records \in [Services -> Seq(RecordType)] /\ service[r] \in Services
      /\ Record(r) \in RecordType
  BY DEF TypeOK, RecordType, Record
<1>2. CASE s = service[r]
  <2>1. records'[s] = Append(records[s], Record(r))
    BY <1>1, <1>2 DEF Keep
  <2>2. records[s] \in Seq(RecordType)
    BY <1>1
  <2> QED
    BY <1>1, <1>2, <2>1, <2>2
<1>3. CASE s # service[r]
  BY <1>1, <1>3 DEF Keep
<1> QED
  BY <1>2, <1>3

LEMMA KeepTyped ==
  ASSUME TypeOK, NEW r \in Requests, Keep(r)
  PROVE  records' \in [Services -> Seq(RecordType)]
<1>1. \A s \in Services : records'[s] \in Seq(RecordType)
  BY KeptIsAppended
<1>2. records' = [s \in Services |-> records'[s]]
  BY DEF Keep, TypeOK
<1> QED
  BY <1>1, <1>2

LEMMA OthersKept ==
  ASSUME Inv, NEW r \in Requests, Others(r), NEW q \in Requests \ {r},
         service' = service, records' = records \/ Keep(r)
  PROVE  Kept(q)'
<1> DEFINE s == service[q]
<1>1. TypeOK /\ s \in Services
  BY DEF Inv, TypeOK
<1>2. /\ RecordsOf(q)' = RecordsOf(q)
      /\ \A i \in RecordsOf(q) : records'[s][i] = records[s][i]
  <2>1. CASE records' = records
    BY <2>1 DEF RecordsOf
  <2>2. CASE Keep(r) /\ s # service[r]
    BY <1>1, <2>2, KeptIsAppended DEF RecordsOf
  <2>3. CASE Keep(r) /\ s = service[r]
    <3>1. /\ Len(records[s]) \in Nat /\ DOMAIN records[s] = 1..Len(records[s])
          /\ DOMAIN records'[s] = 1..(Len(records[s]) + 1)
          /\ records'[s][Len(records[s]) + 1] = Record(r)
          /\ \A i \in DOMAIN records[s] : records'[s][i] = records[s][i]
      <4> HIDE DEF s
      <4> QED
        BY <1>1, <2>3, KeptIsAppended
    <3>4. Record(r).request = r
      BY DEF Record
    <3> HIDE DEF s
    <3>2. RecordsOf(q) = {i \in DOMAIN records[s] : records[s][i].request = q}
      BY DEF RecordsOf, s
    <3>3. RecordsOf(q)' = {i \in DOMAIN records'[s] : records'[s][i].request = q}
      BY DEF RecordsOf, s
    <3> QED
      BY <3>1, <3>2, <3>3, <3>4
  <2> QED
    BY <2>1, <2>2, <2>3
<1>3. Kept(q) /\ at'[q] = at[q] /\ response'[q] = response[q] /\ service'[q] = s
  BY DEF Inv, Others
<1> QED
  BY <1>2, <1>3 DEF Kept, Unfinished

\* A step that stores nothing keeps what is known of the store, as long as the
\* response does not change once the call has left "deciding".
LEMMA UnstoredKept ==
  ASSUME Inv, NEW r \in Requests, records' = records, service' = service,
         Unfinished(r), at'[r] # "returned"
  PROVE  Kept(r)'
BY DEF Inv, Kept, Unfinished, RecordsOf

\* The step that stores the record of a call that is deciding.
LEMMA StoredKept ==
  ASSUME Inv, NEW r \in Requests, at[r] = "deciding",
         Keep(r), service' = service, response' = response,
         at'[r] \in {"returned", "raised"}
  PROVE  Kept(r)'
<1> DEFINE s == service[r]
<1>1. TypeOK /\ s \in Services
  BY DEF Inv, TypeOK
<1>2. /\ Len(records[s]) \in Nat /\ DOMAIN records[s] = 1..Len(records[s])
      /\ DOMAIN records'[s] = 1..(Len(records[s]) + 1)
      /\ records'[s][Len(records[s]) + 1] = Record(r)
      /\ \A i \in DOMAIN records[s] : records'[s][i] = records[s][i]
  BY <1>1, KeptIsAppended
<1>3. \A i \in DOMAIN records[s] : records[s][i].request # r
  BY DEF Inv, Kept, Unfinished, RecordsOf
<1>4. RecordsOf(r)' = {i \in DOMAIN records'[s] : records'[s][i].request = r}
  BY DEF RecordsOf
<1> HIDE DEF s
<1>5. RecordsOf(r)' = {Len(records[s]) + 1}
  BY <1>2, <1>3, <1>4 DEF Record
<1>6. service'[r] = s
  BY DEF s
<1> QED
  BY <1>2, <1>5, <1>6 DEF Kept, Unfinished, Record

(***************************************************************************)
(* The invariant holds at first and is kept by every action.               *)
(***************************************************************************)
LEMMA InitInv == Init => Inv
<1> SUFFICES ASSUME Init
             PROVE  Inv
  OBVIOUS
<1>1. TypeOK /\ AskedOK
  BY NoCitations, ResponseTypes DEF Init, TypeOK, AskedOK, Responses
<1>2. \A r \in Requests : Local(r)
  BY DEF Init, Local, NoResponse
<1>3. \A r \in Requests : Kept(r)
  BY DEF Init, Kept, RecordsOf
<1> QED
  BY <1>1, <1>2, <1>3 DEF Inv

LEMMA EscalateByPolicyInv ==
  ASSUME Inv, NEW r \in Requests, EscalateByPolicy(r)
  PROVE  Inv'
<1> USE DEF EscalateByPolicy, Decide, Goto
<1>1. PolicyReason(r) \in Reasons
  BY PolicyMeaning DEF Inv
<1>2. TypeOK' /\ AskedOK'
  BY <1>1, ResponseTypes DEF Inv, TypeOK, AskedOK, Responses
<1>3. Others(r) /\ at'[r] = "deciding" /\ response'[r] = Escalation(PolicyReason(r))
  BY DEF Others, Inv, TypeOK
<1>4. Local(r)'
  BY <1>3 DEF Inv, Local, Escalation, PolicyReason
<1>5. Kept(r)'
  BY <1>3, UnstoredKept DEF Unfinished
<1> QED
  BY <1>2, <1>3, <1>4, <1>5, OthersLocal, OthersKept DEF Inv

LEMMA PassPolicyInv ==
  ASSUME Inv, NEW r \in Requests, PassPolicy(r)
  PROVE  Inv'
<1> USE DEF PassPolicy, Goto
<1>1. TypeOK' /\ AskedOK'
  BY DEF Inv, TypeOK, AskedOK
<1>2. Others(r) /\ at'[r] = "retrieve"
  BY DEF Others, Inv, TypeOK
<1>3. Local(r)'
  BY <1>2 DEF Inv, Local, PolicyReason, NoResponse
<1>4. Kept(r)'
  BY <1>2, UnstoredKept DEF Unfinished
<1> QED
  BY <1>1, <1>2, <1>3, <1>4, OthersLocal, OthersKept DEF Inv

LEMMA RetrieveInv ==
  ASSUME Inv, NEW r \in Requests, Retrieve(r)
  PROVE  Inv'
<1> USE DEF Retrieve, Consult, Goto
<1>1. TypeOK' /\ AskedOK'
  BY DEF Inv, TypeOK, AskedOK, Providers
<1>2. /\ Others(r) /\ at'[r] = "generate"
      /\ consulted'[r] = {"retriever"} /\ response'[r] = NoResponse
  BY DEF Others, Inv, TypeOK, Local
<1>3. Local(r)'
  BY <1>2 DEF Inv, Local, PolicyReason, NoResponse
<1>4. Kept(r)'
  BY <1>2, UnstoredKept DEF Unfinished
<1> QED
  BY <1>1, <1>2, <1>3, <1>4, OthersLocal, OthersKept DEF Inv

LEMMA GenerateInv ==
  ASSUME Inv, NEW r \in Requests, Generate(r)
  PROVE  Inv'
<1> USE DEF Generate, Decide, Consult, Goto
<1>1. PICK ids \in CitedIds :
        cited' = [cited EXCEPT ![r] = ids] /\ Decide(r, Judgement(ids, context[r]))
  OBVIOUS
<1>2. context[r] \in SUBSET Documents
  BY DEF Inv, TypeOK
<1>3. Judgement(ids, context[r]) \in Responses
  BY <1>2, JudgementSound
<1>4. TypeOK' /\ AskedOK'
  BY <1>1, <1>3 DEF Inv, TypeOK, AskedOK, Providers, Responses
<1>5. /\ Others(r) /\ at'[r] = "deciding"
      /\ consulted'[r] = {"retriever", "generator"}
      /\ response'[r] = Judgement(ids, context[r])
  BY <1>1 DEF Others, Inv, TypeOK, Local
<1>6. PolicyReason(r)' = PolicyReason(r) /\ PolicyReason(r) = "none"
  BY DEF Inv, Local, PolicyReason
<1>7. response'[r].decision = "respond" => Grounded(r)'
  BY <1>2, <1>5, <1>6, JudgementSound, PolicyMeaning DEF Grounded, Inv
<1>8. Local(r)'
  BY <1>5, <1>6, <1>7 DEF Local
<1>9. Kept(r)'
  BY <1>5, UnstoredKept DEF Unfinished
<1> QED
  BY <1>4, <1>5, <1>8, <1>9, OthersLocal, OthersKept DEF Inv

LEMMA ProviderUnavailableInv ==
  ASSUME Inv, NEW r \in Requests, ProviderUnavailable(r)
  PROVE  Inv'
<1> USE DEF ProviderUnavailable, Decide, Consult, Goto
<1>1. Escalation("provider_unavailable") \in Responses
  BY ResponseTypes DEF Reasons
<1>2. TypeOK' /\ AskedOK'
  <2>1. consulted \in [Requests -> SUBSET Providers]
    BY DEF Inv, TypeOK
  <2>2. consulted' \in [Requests -> SUBSET Providers]
    BY <2>1 DEF Providers
  <2> QED
    BY <1>1, <2>2 DEF Inv, TypeOK, AskedOK, Responses
<1>3. /\ Others(r) /\ at'[r] = "deciding"
      /\ response'[r] = Escalation("provider_unavailable")
  BY DEF Others, Inv, TypeOK
<1>4. PolicyReason(r)' = "none"
  BY DEF Inv, Local, PolicyReason
<1>5. Local(r)'
  BY <1>3, <1>4 DEF Local, Escalation
<1>6. Kept(r)'
  BY <1>3, UnstoredKept DEF Unfinished
<1> QED
  BY <1>2, <1>3, <1>5, <1>6, OthersLocal, OthersKept DEF Inv

LEMMA StoreInv ==
  ASSUME Inv, NEW r \in Requests, Store(r)
  PROVE  Inv'
<1> USE DEF Store, Goto
<1>1. Others(r) /\ at'[r] = "returned"
  BY DEF Others, Inv, TypeOK
<1>2. Kept(r)'
  BY <1>1, StoredKept
<1>3. TypeOK' /\ AskedOK'
  BY KeepTyped DEF Inv, TypeOK, AskedOK, RecordType
<1>4. Local(r)'
  BY <1>1 DEF Inv, Local, Grounded, PolicyReason
<1> QED
  BY <1>1, <1>2, <1>3, <1>4, OthersLocal, OthersKept DEF Inv

LEMMA LeakInv ==
  ASSUME Inv, NEW r \in Requests, Leak(r)
  PROVE  Inv'
<1>1. /\ at' = [at EXCEPT ![r] = "raised"]
      /\ UNCHANGED <<service, asked, context, cited, response>>
      /\ records' = records \/ (at[r] = "deciding" /\ Keep(r))
      /\ \/ consulted' = consulted
         \/ at[r] = "retrieve" /\ Consult(r, "retriever")
         \/ at[r] = "generate" /\ Consult(r, "generator")
      /\ Unfinished(r)
  BY DEF Leak, Goto, Unfinished
<1>2. Others(r) /\ at'[r] = "raised"
  BY <1>1 DEF Others, Consult, Inv, TypeOK
<1>3. Kept(r)'
  <2>1. CASE records' = records
    BY <1>1, <1>2, <2>1, UnstoredKept
  <2>2. CASE at[r] = "deciding" /\ Keep(r)
    BY <1>1, <1>2, <2>2, StoredKept
  <2> QED
    BY <1>1, <2>1, <2>2
<1>4. TypeOK' /\ AskedOK'
  <2>1. records' \in [Services -> Seq(RecordType)]
    BY <1>1, KeepTyped DEF Inv, TypeOK, RecordType
  <2>2. consulted \in [Requests -> SUBSET Providers]
    BY DEF Inv, TypeOK
  <2>3. consulted' \in [Requests -> SUBSET Providers]
    BY <1>1, <2>2 DEF Consult, Providers
  <2> QED
    BY <1>1, <2>1, <2>3 DEF Inv, TypeOK, AskedOK, RecordType
<1>5. Local(r)'
  <2>1. CASE consulted' = consulted
    BY <1>1, <1>2, <2>1 DEF Inv, Local, Grounded, PolicyReason
  <2>2. CASE at[r] \in {"retrieve", "generate"}
    BY <1>1, <1>2, <2>2 DEF Inv, Local, PolicyReason, NoResponse
  <2> QED
    BY <1>1, <2>1, <2>2
<1> QED
  BY <1>1, <1>2, <1>3, <1>4, <1>5, OthersLocal, OthersKept DEF Inv

LEMMA NextInv == Inv /\ [Next]_vars => Inv'
<1> SUFFICES ASSUME Inv, [Next]_vars
             PROVE  Inv'
  OBVIOUS
<1>1. CASE Next
  BY <1>1, EscalateByPolicyInv, PassPolicyInv, RetrieveInv, GenerateInv,
     ProviderUnavailableInv, StoreInv, LeakInv DEF Next, Step
<1>2. CASE UNCHANGED vars
  <2>1. TypeOK' /\ AskedOK'
    BY <1>2 DEF vars, Inv, TypeOK, AskedOK
  <2>2. \A r \in Requests : Local(r)'
    BY <1>2 DEF vars, Inv, Local, Grounded, PolicyReason
  <2>3. \A r \in Requests : Kept(r)'
    BY <1>2 DEF vars, Inv, Kept, Unfinished, RecordsOf
  <2> QED
    BY <2>1, <2>2, <2>3 DEF Inv
<1> QED
  BY <1>1, <1>2

LEMMA AlwaysInv == Spec => []Inv
BY InitInv, NextInv, PTL DEF Spec

(***************************************************************************)
(* The theorems.                                                           *)
(***************************************************************************)

\* Every variable has its type, for any requests, documents and faults.
THEOREM TypeCorrect == Spec => []TypeOK
<1>1. Inv => TypeOK
  BY DEF Inv
<1> QED
  BY <1>1, AlwaysInv, PTL

\* Whatever a generator cites and whichever provider fails, an automated answer
\* cites something, only what was retrieved for it, and was permitted.
THEOREM AnswersAreGrounded == Spec => []AnswersGrounded
<1>1. Inv => AnswersGrounded
  BY DEF Inv, Local, Grounded, AnswersGrounded
<1> QED
  BY <1>1, AlwaysInv, PTL

\* What the policy escalates reaches no retriever and no generator.
THEOREM SensitiveIsKeptBack == Spec => []SensitiveKeptBack
<1>1. Inv => SensitiveKeptBack
  BY DEF Inv, Local, SensitiveKeptBack
<1> QED
  BY <1>1, AlwaysInv, PTL

\* A returned response is in the store, no request is there twice, and what is
\* stored is what was said, also when the store fails after it kept a record.
THEOREM IsRecordedOnce == Spec => []RecordedOnce
<1>1. ASSUME Inv, NEW r \in Requests
      PROVE  Cardinality(RecordsOf(r)) <= 1
  <2>1. CASE RecordsOf(r) = {}
    BY <2>1, FS_EmptySet
  <2>2. CASE RecordsOf(r) # {}
    <3>1. PICK i \in RecordsOf(r) : TRUE
      BY <2>2
    <3>2. RecordsOf(r) = {i}
      BY <1>1, <3>1 DEF Inv, Kept
    <3> QED
      BY <3>2, FS_Singleton
  <2> QED
    BY <2>1, <2>2
<1>2. Inv => RecordedOnce
  BY <1>1 DEF Inv, Kept, RecordedOnce
<1> QED
  BY <1>2, AlwaysInv, PTL
================================================================================
