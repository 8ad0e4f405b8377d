----------------------------- MODULE Conversation -----------------------------
(***************************************************************************)
(* ConversationService.respond (application/conversation.py): the policy,  *)
(* the retriever, the generator, the citation check and the store, called  *)
(* in that order, for requests served at once by the threads of the pool.  *)
(* A request is a call of one service. api/routes.py:56-61 builds a service*)
(* and its store for each request; the warm run of production_benchmark.py *)
(* (37-51, 108) shares one service and store between its threads. Both, and*)
(* all between, are assignments of services to requests.                   *)
(*                                                                         *)
(* A provider is known by its protocol alone (application/ports.py): a     *)
(* retriever returns some approved documents, a generator cites whatever   *)
(* it likes, and each may raise ProviderUnavailableError or anything else. *)
(* The model lets them do all of that; resilience.py's fault injectors,    *)
(* BM25Retriever and TemplateResponseGenerator are instances of it.        *)
(***************************************************************************)
EXTENDS Integers, Sequences, FiniteSets

CONSTANTS
  Requests,            \* request identifiers, one call of respond each
  Services,            \* conversation services, each with a store of its own
  Confidences,         \* the confidences a request can state
  MinimumConfidence,   \* settings.minimum_response_confidence
  Documents,           \* approved document identifiers
  Invented,            \* identifiers a generator may cite that are not approved
  MaximumCited,        \* bound on the citations of one generation
  Faults,              \* the providers that may raise ProviderUnavailableError
  Errors               \* the providers that may raise any other exception

Providers == {"policy", "retriever", "generator", "store"}

ASSUME DocumentAssumption == Documents \intersect Invented = {}
ASSUME ConfidenceAssumption == Confidences \subseteq Int /\ MinimumConfidence \in Int
ASSUME BoundAssumption == MaximumCited \in Nat
ASSUME FaultAssumption == Faults \subseteq Providers /\ Errors \subseteq Providers

VARIABLES
  at,         \* where the call is
  service,    \* the service the request is a call of
  asked,      \* the request: is it sensitive, and the confidence it states
  context,    \* the documents retrieved for it
  cited,      \* the identifiers its generation cites
  response,   \* the response built: decision, reason and citations
  records,    \* of each service, the records of its store, in order
  consulted   \* history: which providers saw the request's message

vars == <<at, service, asked, context, cited, response, records, consulted>>

CitedIds == UNION {[1..n -> Documents \union Invented] : n \in 0..MaximumCited}

NoResponse == [decision |-> "none", reason |-> "none", citations |-> <<>>]
\* Mutant of Escalation: an escalated request keeps no reason.
EscalationUnexplained(reason) ==
  [decision |-> "escalate", reason |-> "unknown", citations |-> <<>>]
Escalation(reason) == [decision |-> "escalate", reason |-> reason, citations |-> <<>>]
Answer(citations) == [decision |-> "respond", reason |-> "none", citations |-> citations]

Init ==
  /\ at = [r \in Requests |-> "new"]
  /\ service \in [Requests -> Services]
  /\ asked \in [Requests -> [sensitive: BOOLEAN, confidence: Confidences]]
  /\ context = [r \in Requests |-> {}]
  /\ cited = [r \in Requests |-> <<>>]
  /\ response = [r \in Requests |-> NoResponse]
  /\ records = [s \in Services |-> <<>>]
  /\ consulted = [r \in Requests |-> {}]

Goto(r, place) == at' = [at EXCEPT ![r] = place]
Consult(r, provider) == consulted' = [consulted EXCEPT ![r] = @ \union {provider}]

\* The response is ready and the record is to be stored.
Decide(r, what) ==
  /\ response' = [response EXCEPT ![r] = what]
  /\ Goto(r, "deciding")

----------------------------------------------------------------------------
\* SupportPolicy.evaluate: the reason to escalate, or "none".
PolicyReason(r) ==
  IF asked[r].sensitive THEN "sensitive_financial_request"
  ELSE IF asked[r].confidence < MinimumConfidence THEN "low_confidence"
  ELSE "none"

EscalateByPolicy(r) ==
  /\ at[r] = "new"
  /\ PolicyReason(r) # "none"
  /\ Decide(r, Escalation(PolicyReason(r)))
  /\ UNCHANGED <<service, asked, context, cited, records, consulted>>

\* Mutant of PassPolicy: only a sensitive request is held back.
PassPolicyUnsure(r) ==
  /\ at[r] = "new"
  /\ ~asked[r].sensitive
  /\ Goto(r, "retrieve")
  /\ UNCHANGED <<service, asked, context, cited, response, records, consulted>>

PassPolicy(r) ==
  /\ at[r] = "new"
  /\ PolicyReason(r) = "none"
  /\ Goto(r, "retrieve")
  /\ UNCHANGED <<service, asked, context, cited, response, records, consulted>>

Retrieve(r) ==
  /\ at[r] = "retrieve"
  /\ context' \in [Requests -> SUBSET Documents]
  /\ \A q \in Requests \ {r} : context'[q] = context[q]
  /\ Consult(r, "retriever")
  /\ Goto(r, "generate")
  /\ UNCHANGED <<service, asked, cited, response, records>>

\* generate, and then validate_citations and the branches on it, which are
\* local to the call.
\* Mutant of ValidCitations: one approved document among the cited is enough.
ValidCitationsSome(ids, documents) == \E i \in DOMAIN ids : ids[i] \in documents
ValidCitations(ids, documents) ==
  ids # <<>> /\ \A i \in DOMAIN ids : ids[i] \in documents

Judgement(ids, documents) ==
  IF documents = {} THEN Escalation("missing_approved_context")
  ELSE IF ~ValidCitations(ids, documents) THEN Escalation("invalid_citation")
  ELSE Answer(ids)

Generate(r) ==
  /\ at[r] = "generate"
  /\ \E ids \in CitedIds :
       /\ cited' = [cited EXCEPT ![r] = ids]
       /\ Decide(r, Judgement(ids, context[r]))
  /\ Consult(r, "generator")
  /\ UNCHANGED <<service, asked, context, records>>

\* Mutant of ProviderUnavailable: the request is tried again.
ProviderRetried(r) ==
  /\ at[r] \in {"retrieve", "generate"}
  /\ {"retriever", "generator"} \subseteq Faults
  /\ Goto(r, "retrieve")
  /\ UNCHANGED <<service, asked, context, cited, response, records, consulted>>

\* The retriever or the generator is unavailable.
ProviderUnavailable(r) ==
  /\ \/ at[r] = "retrieve" /\ "retriever" \in Faults /\ Consult(r, "retriever")
     \/ at[r] = "generate" /\ "generator" \in Faults /\ Consult(r, "generator")
  /\ Decide(r, Escalation("provider_unavailable"))
  /\ UNCHANGED <<service, asked, context, cited, records>>

Record(r) == [request |-> r, decision |-> response[r].decision]

\* Mutant of Store: the last record is replaced.
StoreLast(r) ==
  /\ at[r] = "deciding"
  /\ records' = [records EXCEPT ![service[r]] =
                   IF @ = <<>> THEN <<Record(r)>> ELSE [@ EXCEPT ![Len(@)] = Record(r)]]
  /\ Goto(r, "returned")
  /\ UNCHANGED <<service, asked, context, cited, response, consulted>>

Keep(r) == records' = [records EXCEPT ![service[r]] = Append(@, Record(r))]

Store(r) ==
  /\ at[r] = "deciding"
  /\ Keep(r)
  /\ Goto(r, "returned")
  /\ UNCHANGED <<service, asked, context, cited, response, consulted>>

\* An exception leaves respond: any of the policy or the store, which are called
\* outside the try block, and any of the retriever or the generator but the one
\* that is caught. A store may fail before or after the record is kept.
Leak(r) ==
  /\ \/ /\ at[r] = "new" /\ "policy" \in Faults \union Errors
        /\ UNCHANGED <<records, consulted>>
     \/ /\ at[r] = "retrieve" /\ "retriever" \in Errors
        /\ Consult(r, "retriever") /\ UNCHANGED records
     \/ /\ at[r] = "generate" /\ "generator" \in Errors
        /\ Consult(r, "generator") /\ UNCHANGED records
     \/ /\ at[r] = "deciding" /\ "store" \in Faults \union Errors
        /\ UNCHANGED records \/ Keep(r)
        /\ UNCHANGED consulted
  /\ Goto(r, "raised")
  /\ UNCHANGED <<service, asked, context, cited, response>>

Step(r) ==
  \/ EscalateByPolicy(r) \/ PassPolicy(r)
  \/ Retrieve(r) \/ Generate(r) \/ ProviderUnavailable(r)
  \/ Store(r) \/ Leak(r)

Next == \E r \in Requests : Step(r)

\* The thread that serves a request keeps running, and providers return.
Spec == Init /\ [][Next]_vars /\ \A r \in Requests : WF_vars(Step(r))

----------------------------------------------------------------------------
(***************************************************************************)
(* Properties.                                                             *)
(***************************************************************************)

Decisions == {"none", "escalate", "respond"}
Reasons ==
  {"none", "sensitive_financial_request", "low_confidence", "provider_unavailable",
   "missing_approved_context", "invalid_citation"}
Ended == {r \in Requests : at[r] \in {"returned", "raised"}}
RecordsOf(r) == {i \in DOMAIN records[service[r]] : records[service[r]][i].request = r}

\* Every variable has its type.
TypeOK ==
  /\ at \in [Requests -> {"new", "retrieve", "generate", "deciding", "returned", "raised"}]
  /\ context \in [Requests -> SUBSET Documents]
  /\ cited \in [Requests -> CitedIds]
  /\ response \in [Requests -> [decision: Decisions, reason: Reasons, citations: CitedIds]]
  /\ service \in [Requests -> Services]
  /\ records \in [Services -> Seq([request: Requests, decision: Decisions])]
  /\ consulted \in [Requests -> SUBSET Providers]

\* An automated answer is grounded and permitted, whatever the generator cites
\* and whichever provider failed on the way: it cites something, cites only
\* documents retrieved for this very request, and the policy let it through.
AnswersGrounded ==
  \A r \in Requests :
    response[r].decision = "respond" =>
      /\ response[r].citations # <<>>
      /\ \A i \in DOMAIN response[r].citations : response[r].citations[i] \in context[r]
      /\ ~asked[r].sensitive /\ asked[r].confidence >= MinimumConfidence
      /\ consulted[r] = {"retriever", "generator"}

\* A request the policy escalates is shown to no retriever and no generator.
SensitiveKeptBack ==
  \A r \in Requests : PolicyReason(r) # "none" => consulted[r] = {}

\* What is stored is what was said, also when requests share a store: a response
\* is returned only once its record is kept, no other request of the service
\* displaces it, there is never a second record of a request, and a record says
\* the decision of its response.
RecordedOnce ==
  \A r \in Requests :
    /\ Cardinality(RecordsOf(r)) <= 1
    /\ at[r] = "returned" => RecordsOf(r) # {}
    /\ \A i \in RecordsOf(r) : records[service[r]][i].decision = response[r].decision

\* Every request comes to an end: a response, or an exception.
EveryRequestEnds == <>(Ended = Requests)
================================================================================
