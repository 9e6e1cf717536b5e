--------------------------- MODULE ToolArguments ---------------------------
(***************************************************************************)
(* How a question becomes the request to a tool: build_tool_payload, the   *)
(* pydantic model of build_dynamic_tool and the override of _arun          *)
(* (agents/tools/discovery.py), then RegistryClient.invoke.                *)
(*                                                                         *)
(* A value is its JSON type and where it comes from; which phrase a        *)
(* question is shortened to, URL encoding and the answer of the tool are   *)
(* left out.  Names pydantic or LangChain keep for themselves (a leading   *)
(* underscore, "model_config", "config", "run_manager") are not considered.*)
(***************************************************************************)
CONSTANTS
  Name,         \* names of arguments, in lower case
  Schema,       \* the input_schemas considered: their properties and required
  Constraints,  \* the caller's constraints considered: from names to types of values
  Endpoint,     \* the methods and {placeholders} of endpoints considered
  NotObject,    \* a property whose specification is not a JSON object
  NoDefault, Nothing

JsonType == {"string", "integer", "number", "boolean", "array", "object"}
ValueType == JsonType \cup {"null"}
Origin == {"question", "constraints", "gaps", "caller", "default", "fallback",
           "override", "empty"}
Value == [type : ValueType, of : Origin]
Val(type, of) == [type |-> type, of |-> of]

\* "other": no type, a list of types or an unknown one
Property == [type : JsonType \cup {"other"}, default : ValueType \cup {NoDefault}]
            \cup {NotObject}

\* f gives some of the names in S a member of T.
Maps(f, S, T) == DOMAIN f \subseteq S /\ f \in [DOMAIN f -> T]

ASSUME ArgumentsAssumption ==
  /\ {"query", "constraints", "gaps", "gsrlimit"} \subseteq Name
  /\ \A s \in Schema : /\ s = [props |-> s.props, required |-> s.required]
                       /\ Maps(s.props, Name, Property) /\ s.required \subseteq Name
  /\ \A c \in Constraints : Maps(c, Name, ValueType)
  /\ Endpoint \subseteq [method : {"GET", "POST", "PUT"}, path : SUBSET Name]
  /\ NotObject \notin [type : JsonType \cup {"other"}, default : ValueType \cup {NoDefault}]
  /\ NoDefault \notin ValueType
  /\ Nothing \notin Value

VARIABLES
  pc,       \* where the attempt stands
  ask,      \* inp: its constraints, and whether there are gaps
  tool,     \* bind_info: schema, endpoint, whether it is wikipedia-lookup-v1
  payload,  \* local payload: a function from names to values
  args,     \* the keyword arguments of _invoke
  request   \* the HTTP request: what is filled into its URL, and the rest

vars == <<pc, ask, tool, payload, args, request>>

Props == tool.schema.props
Required == tool.schema.required
Path == tool.endpoint.path

TypeOK ==
  /\ pc \in {"build", "validate", "dispatch", "sent", "refused"}
  /\ ask \in [constraints : Constraints, gaps : BOOLEAN]
  /\ tool \in [schema : Schema, endpoint : Endpoint, wikipedia : BOOLEAN]
  /\ Maps(payload, Name, Value) /\ Maps(args, Name, Value)
  /\ Maps(request.rest, Name, Value)
  /\ Maps(request.url, Name, Value \cup {Nothing})

----------------------------------------------------------------------------
(* build_tool_payload *)

Meaning(n) ==
  IF n \in {"gsrsearch", "srsearch", "query", "q", "question", "prompt",
            "search_query", "search_term", "text"} THEN "question"
  ELSE IF n \in {"constraints", "filters"} THEN "constraints"
  ELSE IF n \in {"gaps", "missing_topics", "follow_up_topics"} THEN "gaps"
  ELSE "plain"

TypeOfMeaning == [question |-> "string", constraints |-> "object", gaps |-> "array"]

HasDefault(n) == Props[n] # NotObject /\ Props[n].default # NoDefault

OfferedMutant(n) ==         \* a default goes before the caller's constraint
  LET m == Meaning(n)
  IN  IF m # "plain" THEN {Val(TypeOfMeaning[m], m)}
      ELSE IF HasDefault(n) THEN {Val(Props[n].default, "default")}
      ELSE IF n \in DOMAIN ask.constraints THEN {Val(ask.constraints[n], "caller")}
      ELSE {}

\* What the loop over the properties puts under n: one value or none.
Offered(n) ==
  LET m == Meaning(n)
  IN  IF m # "plain" THEN {Val(TypeOfMeaning[m], m)}
      ELSE IF n \in DOMAIN ask.constraints THEN {Val(ask.constraints[n], "caller")}
      ELSE IF HasDefault(n) THEN {Val(Props[n].default, "default")}
      ELSE {}

DeclaredType(n) ==
  IF n \in DOMAIN Props /\ Props[n] # NotObject THEN Props[n].type ELSE "other"

\* fallback_for_type
Fallback(n) ==
  Val(IF DeclaredType(n) \in JsonType THEN DeclaredType(n) ELSE "string", "fallback")

GenericPayload ==
  [n \in {"query"} \cup (IF ask.constraints # <<>> THEN {"constraints"} ELSE {})
                   \cup (IF ask.gaps THEN {"gaps"} ELSE {})
     |-> Val(TypeOfMeaning[Meaning(n)], Meaning(n))]

\* The names with an offer, and the required ones, which fall back
Filling == {n \in DOMAIN Props : Offered(n) # {}} \cup Required

FillingOf(n) ==
  IF n \in DOMAIN Props /\ Offered(n) # {}
    THEN CHOOSE v \in Offered(n) : TRUE ELSE Fallback(n)

BuiltPayload ==
  IF DOMAIN Props = {} THEN GenericPayload ELSE [n \in Filling |-> FillingOf(n)]

\* Fewer than five Wikipedia hits are raised to eight, also where the schema
\* has no gsrlimit; what does not read as a number counts as one hit.
ManyHits(p) ==
  /\ "gsrlimit" \in DOMAIN p
  /\ p["gsrlimit"].type \in {"string", "integer", "number"}
  /\ p["gsrlimit"] \notin {Val("integer", "fallback"), Val("number", "fallback")}

Overridden(p) ==
  [n \in DOMAIN p \cup {"gsrlimit"} |->
     IF n = "gsrlimit" THEN Val("integer", "override") ELSE p[n]]

Build ==
  /\ pc = "build"
  /\ \/ tool.wikipedia /\ payload' = Overridden(BuiltPayload)
     \/ /\ tool.wikipedia => ManyHits(BuiltPayload)
        /\ payload' = BuiltPayload
  /\ pc' = "validate"
  /\ UNCHANGED <<ask, tool, args, request>>

----------------------------------------------------------------------------
(* The model of build_dynamic_tool, and what pydantic makes of a value *)

Typed == {n \in DOMAIN Props : Props[n] # NotObject}

FieldTypeMutant(t) ==       \* a property without a plain type becomes a dict
  IF t \in JsonType THEN t ELSE "object"

\* _field_for_json_property
FieldType(t) == IF t \in JsonType THEN t ELSE "string"

\* _args_schema_to_model, or GenericToolInput
Fields ==
  IF Typed = {}
    THEN [n \in {"query", "constraints", "gaps"} |->
            [type |-> TypeOfMeaning[Meaning(n)], required |-> n = "query"]]
    ELSE [n \in Typed |-> [type |-> FieldType(Props[n].type), required |-> n \in Required]]

\* Always accepted, and accepted for some values ("5", 2.0, 1)
Fits == {<<t, t>> : t \in JsonType}
        \cup {<<"integer", "number">>, <<"boolean", "integer">>, <<"boolean", "number">>}
MayFit == {"string", "number", "integer"} \X {"integer", "number", "boolean"}

Given == DOMAIN payload \cap DOMAIN Fields
Pair(n) == <<payload[n].type, Fields[n].type>>

ValidateMutant ==           \* the payload goes on as it was built
  /\ pc = "validate"
  /\ \A n \in DOMAIN Fields : Fields[n].required => n \in Given
  /\ \A n \in Given : Pair(n) \in Fits \cup MayFit
  /\ args' = payload
  /\ pc' = "dispatch"
  /\ UNCHANGED <<ask, tool, payload, request>>

\* Fields that were not given are left out or passed with their default value,
\* depending on the version of langchain-core; other names are dropped.
Validate ==
  /\ pc = "validate"
  /\ \A n \in DOMAIN Fields : Fields[n].required => n \in Given
  /\ \A n \in Given : Pair(n) \in Fits \cup MayFit
  /\ \E passed \in {Given, DOMAIN Fields} :
       args' = [n \in passed |->
                  Val(Fields[n].type, IF n \in Given THEN payload[n].of ELSE "empty")]
  /\ pc' = "dispatch"
  /\ UNCHANGED <<ask, tool, payload, request>>

\* ValidationError: the attempt fails before anything is sent.
Refuse ==
  /\ pc = "validate"
  /\ \/ \E n \in DOMAIN Fields : Fields[n].required /\ n \notin Given
     \/ \E n \in Given : Pair(n) \notin Fits
  /\ pc' = "refused"
  /\ UNCHANGED <<ask, tool, payload, args, request>>

----------------------------------------------------------------------------
(* RegistryClient.invoke *)

Only(S) == [n \in DOMAIN args \cap S |-> args[n]]

InUrl == [n \in Path |-> IF n \in DOMAIN args THEN args[n] ELSE Nothing]

DispatchMutant ==           \* a POST with placeholders has no body either
  /\ pc = "dispatch"
  /\ tool.endpoint.method \in {"GET", "POST"}
  /\ request' = [url |-> InUrl, rest |-> IF Path # {} THEN <<>> ELSE args]
  /\ pc' = "sent"
  /\ UNCHANGED <<ask, tool, payload, args>>

\* Placeholders go into the URL and not into the body; a GET with placeholders
\* sends nothing else.
Dispatch ==
  /\ pc = "dispatch"
  /\ \/ tool.endpoint.method = "POST" /\ request' = [url |-> InUrl, rest |-> Only(Name \ Path)]
     \/ /\ tool.endpoint.method = "GET"
        /\ request' = [url |-> InUrl, rest |-> IF Path # {} THEN <<>> ELSE args]
  /\ pc' = "sent"
  /\ UNCHANGED <<ask, tool, payload, args>>

UnsupportedMethod ==
  /\ pc = "dispatch"
  /\ tool.endpoint.method \notin {"GET", "POST"}
  /\ pc' = "refused"
  /\ UNCHANGED <<ask, tool, payload, args, request>>

Init ==
  /\ pc = "build"
  /\ ask \in [constraints : Constraints, gaps : BOOLEAN]
  /\ tool \in [schema : Schema, endpoint : Endpoint, wikipedia : BOOLEAN]
  /\ payload = <<>> /\ args = <<>>
  /\ request = [url |-> <<>>, rest |-> <<>>]

Next == Build \/ Validate \/ Refuse \/ Dispatch \/ UnsupportedMethod

Spec == Init /\ [][Next]_vars

----------------------------------------------------------------------------
(* Properties *)

Filled == {n \in DOMAIN request.url : request.url[n] # Nothing}
Received ==
  [n \in Filled \cup DOMAIN request.rest |->
     IF n \in DOMAIN request.rest THEN request.rest[n] ELSE request.url[n]]

\* Whether every argument of a call has a place in the request: a GET whose URL
\* has placeholders carries what they name and drops the rest.
AllTravel == tool.endpoint.method = "POST" \/ Path = {}

\* Whatever the caller asks, a request that leaves the client fits the schema it
\* was bound with: nothing the schema does not declare, the override included,
\* nothing twice, each argument with its declared type, and every declared required
\* argument, except those a GET with placeholders drops (registry_client.py:99).
RequestFitsSchema ==
  pc = "sent" /\ Typed # {} =>
    /\ DOMAIN Received \subseteq Typed
    /\ Filled \cap DOMAIN request.rest = {}
    /\ \A n \in DOMAIN Received :
         Props[n].type \in JsonType => Received[n].type = Props[n].type
    /\ \A n \in Typed \cap Required : AllTravel \/ n \in Path => n \in DOMAIN Received

\* What a name stands for, what the caller gives and what the schema takes for
\* granted are of the types the schema declares.
TypesAgree ==
  \A n \in DOMAIN Props :
    /\ Props[n] # NotObject
    /\ LET t == IF Props[n].type \in JsonType THEN Props[n].type ELSE "string"
       IN  /\ Meaning(n) # "plain" => t = TypeOfMeaning[Meaning(n)]
           /\ n \in DOMAIN ask.constraints => Meaning(n) # "plain" \/ t = ask.constraints[n]
           /\ HasDefault(n) => t = Props[n].default
           /\ n = "gsrlimit" /\ tool.wikipedia => t \in {"integer", "number"}

\* A tool whose schema agrees with the names is called, required arguments
\* nobody named included, and hears the question where it has a name for it
\* and the caller wherever a constraint names an argument.
AgreeingToolIsCalled ==
  TypesAgree /\ tool.endpoint.method \in {"GET", "POST"} =>
    /\ pc # "refused"
    /\ pc = "sent" /\ AllTravel =>
         /\ DOMAIN Props = {} => Received["query"].of = "question"
         /\ \A n \in DOMAIN Props : Meaning(n) = "question" => Received[n].of = "question"
         /\ \A n \in DOMAIN Props \cap DOMAIN ask.constraints :
              Meaning(n) = "plain" /\ ~ (n = "gsrlimit" /\ tool.wikipedia) =>
                Received[n].of = "caller"
============================================================================
