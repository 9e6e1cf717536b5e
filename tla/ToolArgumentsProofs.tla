------------------------ MODULE ToolArgumentsProofs ------------------------
(***************************************************************************)
(* Proofs about ToolArguments.tla for every set of names, schemas,         *)
(* constraints and endpoints.                                              *)
(***************************************************************************)
EXTENDS ToolArguments, TLAPS

----------------------------------------------------------------------------
(* What does not change, and what an attempt has made so far *)

Bound ==
  /\ ask \in [constraints : Constraints, gaps : BOOLEAN]
  /\ tool \in [schema : Schema, endpoint : Endpoint, wikipedia : BOOLEAN]

\* The payload is the one built, but for the override.
PayloadBuilt ==
  pc # "build" => \/ payload = BuiltPayload
                  \/ tool.wikipedia /\ payload = Overridden(BuiltPayload)

\* The arguments are the fields of the model, the given ones from the payload.
ArgsFit ==
  /\ DOMAIN args \subseteq DOMAIN Fields
  /\ Given \subseteq DOMAIN args
  /\ \A n \in DOMAIN Fields : Fields[n].required => n \in DOMAIN args
  /\ \A n \in DOMAIN args :
       args[n] = Val(Fields[n].type, IF n \in Given THEN payload[n].of ELSE "empty")

ArgsPassed == pc \in {"dispatch", "sent"} => ArgsFit

RequestMade ==
  pc = "sent" =>
    /\ request.url = InUrl
    /\ \/ tool.endpoint.method = "POST" /\ request.rest = Only(Name \ Path)
       \/ tool.endpoint.method = "GET" /\ Path = {} /\ request.rest = args
       \/ tool.endpoint.method = "GET" /\ Path # {} /\ request.rest = <<>>

Supported == tool.endpoint.method \in {"GET", "POST"}

NotRefused == TypesAgree /\ Supported => pc # "refused"

AttemptInv == Bound /\ PayloadBuilt /\ ArgsPassed /\ RequestMade /\ NotRefused

----------------------------------------------------------------------------
(* The payload *)

LEMMA SchemaShape ==
  ASSUME Bound
  PROVE  /\ Maps(Props, Name, Property) /\ Required \subseteq Name
         /\ Maps(ask.constraints, Name, ValueType)
         /\ Path \subseteq Name
         /\ {"query", "constraints", "gaps", "gsrlimit"} \subseteq Name
<1>1. tool.schema \in Schema /\ ask.constraints \in Constraints /\ tool.endpoint \in Endpoint
  BY DEF Bound
<1>2. Path \subseteq Name
  BY <1>1, ArgumentsAssumption DEF Path
<1>3. QED
  BY <1>1, <1>2, ArgumentsAssumption DEF Props, Required

LEMMA TypedShape ==
  ASSUME Bound, NEW n \in Typed
  PROVE  /\ n \in DOMAIN Props /\ n \in Name
         /\ Props[n].type \in JsonType \cup {"other"}
         /\ Props[n].default \in ValueType \cup {NoDefault}
BY SchemaShape DEF Maps, Property, Typed

\* The three kinds of value the loop offers
LEMMA OfferedCases ==
  ASSUME NEW n, NEW v, Offered(n) # {}, v = (CHOOSE w \in Offered(n) : TRUE)
  PROVE  \/ Meaning(n) # "plain" /\ v = Val(TypeOfMeaning[Meaning(n)], Meaning(n))
         \/ /\ Meaning(n) = "plain" /\ n \in DOMAIN ask.constraints
            /\ v = Val(ask.constraints[n], "caller")
         \/ /\ Meaning(n) = "plain" /\ n \notin DOMAIN ask.constraints /\ HasDefault(n)
            /\ v = Val(Props[n].default, "default")
<1>1. v \in Offered(n)
  OBVIOUS
<1>2. QED
  BY <1>1 DEF Offered

LEMMA MeaningCases ==
  ASSUME NEW n
  PROVE  /\ Meaning(n) \in {"question", "constraints", "gaps", "plain"}
         /\ Meaning("query") = "question" /\ Meaning("constraints") = "constraints"
         /\ Meaning("gaps") = "gaps" /\ Meaning("gsrlimit") = "plain"
BY DEF Meaning

LEMMA BuiltDomain ==
  ASSUME Bound
  PROVE  /\ DOMAIN BuiltPayload \subseteq Name
         /\ DOMAIN Props = {} => BuiltPayload = GenericPayload
         /\ DOMAIN Props # {} => Required \subseteq DOMAIN BuiltPayload
<1>1. CASE DOMAIN Props = {}
  BY <1>1, SchemaShape DEF BuiltPayload, GenericPayload, Filling
<1>2. CASE DOMAIN Props # {}
  BY <1>2, SchemaShape DEF BuiltPayload, Filling, Maps
<1>3. QED
  BY <1>1, <1>2

LEMMA BuiltValue ==
  ASSUME Bound, DOMAIN Props # {}, NEW n \in DOMAIN BuiltPayload
  PROVE  \/ /\ n \in DOMAIN Props /\ Offered(n) # {}
            /\ BuiltPayload[n] = (CHOOSE v \in Offered(n) : TRUE)
         \/ /\ n \notin DOMAIN Props \/ Offered(n) = {}
            /\ n \in Required /\ BuiltPayload[n] = Fallback(n)
BY DEF BuiltPayload, Filling, FillingOf

\* With types that agree, every value built fits its field, and no required
\* field is without one.
LEMMA BuiltAgrees ==
  ASSUME Bound, TypesAgree
  PROVE  /\ \A n \in DOMAIN Fields : Fields[n].required => n \in DOMAIN BuiltPayload
         /\ \A n \in DOMAIN Fields \cap DOMAIN BuiltPayload :
              <<BuiltPayload[n].type, Fields[n].type>> \in Fits
<1>1. Typed = DOMAIN Props
  BY DEF TypesAgree, Typed
<1>2. CASE DOMAIN Props = {}
  <2>1. BuiltPayload = GenericPayload
    BY <1>2, BuiltDomain
  <2>2. /\ DOMAIN Fields = {"query", "constraints", "gaps"}
        /\ \A n \in DOMAIN Fields : /\ Fields[n].type = TypeOfMeaning[Meaning(n)]
                                    /\ Fields[n].required => n = "query"
    BY <1>1, <1>2 DEF Fields
  <2>3. /\ "query" \in DOMAIN GenericPayload
        /\ \A n \in DOMAIN GenericPayload : GenericPayload[n].type = TypeOfMeaning[Meaning(n)]
    BY DEF GenericPayload, Val
  <2>4. \A n \in DOMAIN Fields : TypeOfMeaning[Meaning(n)] \in JsonType
    BY <2>2, MeaningCases DEF TypeOfMeaning, JsonType
  <2>5. QED
    BY <2>1, <2>2, <2>3, <2>4 DEF Fits
<1>3. CASE DOMAIN Props # {}
  <2>1. /\ DOMAIN Fields = DOMAIN Props
        /\ \A n \in DOMAIN Props : /\ Fields[n].type = FieldType(Props[n].type)
                                   /\ Fields[n].required <=> n \in Required
    BY <1>1, <1>3 DEF Fields
  <2>2. \A n \in DOMAIN Fields : Fields[n].required => n \in DOMAIN BuiltPayload
    BY <1>3, <2>1, BuiltDomain
  <2>3. ASSUME NEW n \in DOMAIN Props, n \in DOMAIN BuiltPayload
        PROVE  BuiltPayload[n].type = FieldType(Props[n].type) /\ FieldType(Props[n].type) \in JsonType
    <3>1. FieldType(Props[n].type) \in JsonType
      BY DEF FieldType, JsonType
    <3>2. CASE Offered(n) # {}
      <4>1. BuiltPayload[n] = (CHOOSE v \in Offered(n) : TRUE)
        BY <1>3, <2>3, <3>2, BuiltValue
      <4>2. QED
        BY <2>3, <3>1, <3>2, <4>1, OfferedCases DEF TypesAgree, FieldType, Val
    <3>3. CASE Offered(n) = {}
      <4>1. BuiltPayload[n] = Fallback(n)
        BY <1>3, <2>3, <3>3, BuiltValue
      <4>2. QED
        BY <1>1, <2>3, <3>1, <4>1 DEF Fallback, DeclaredType, FieldType, Val, Typed
    <3>4. QED
      BY <3>1, <3>2, <3>3
  <2>4. QED
    BY <2>1, <2>2, <2>3 DEF Fits
<1>4. QED
  BY <1>2, <1>3

LEMMA OverriddenValue ==
  ASSUME NEW p
  PROVE  /\ DOMAIN Overridden(p) = DOMAIN p \cup {"gsrlimit"}
         /\ \A n \in DOMAIN p : n # "gsrlimit" => Overridden(p)[n] = p[n]
         /\ \A n : n = "gsrlimit" => Overridden(p)[n] = Val("integer", "override")
BY DEF Overridden

\* The same of the payload validated, with or without the override
LEMMA PayloadAgrees ==
  ASSUME Bound, PayloadBuilt, pc # "build", TypesAgree
  PROVE  /\ \A n \in DOMAIN Fields : Fields[n].required => n \in Given
         /\ \A n \in Given : Pair(n) \in Fits
<1>1. CASE payload = BuiltPayload
  BY <1>1, BuiltAgrees DEF Given, Pair
<1>2. CASE tool.wikipedia /\ payload = Overridden(BuiltPayload)
  <2>0. /\ DOMAIN payload = DOMAIN BuiltPayload \cup {"gsrlimit"}
        /\ \A n \in DOMAIN BuiltPayload : n # "gsrlimit" => payload[n] = BuiltPayload[n]
        /\ \A n : n = "gsrlimit" => payload[n] = Val("integer", "override")
    BY <1>2, OverriddenValue
  <2>1. \A n \in DOMAIN Fields : Fields[n].required => n \in Given
    BY <2>0, BuiltAgrees DEF Given
  <2>2. ASSUME NEW n \in Given, n # "gsrlimit" PROVE Pair(n) \in Fits
    BY <2>0, <2>2, BuiltAgrees DEF Given, Pair
  <2>3. ASSUME NEW n \in Given, n = "gsrlimit" PROVE Pair(n) \in Fits
    <3>1. DOMAIN Props # {}
      BY <2>3 DEF Given, Fields, Typed
    <3>2. n \in DOMAIN Props /\ Fields[n].type = FieldType(Props[n].type)
      BY <2>3, <3>1 DEF Given, Fields, Typed, TypesAgree
    <3>3. FieldType(Props[n].type) \in {"integer", "number"}
      BY <1>2, <2>3, <3>2 DEF TypesAgree, FieldType
    <3>4. payload[n].type = "integer"
      BY <2>0, <2>3 DEF Val
    <3>5. QED
      BY <3>2, <3>3, <3>4 DEF Pair, Fits, JsonType
  <2>4. QED
    BY <2>1, <2>2, <2>3
<1>3. QED
  BY <1>1, <1>2 DEF PayloadBuilt

----------------------------------------------------------------------------
(* Types *)

LEMMA OverriddenType ==
  ASSUME NEW p, Maps(p, Name, Value), "gsrlimit" \in Name
  PROVE  Maps(Overridden(p), Name, Value)
<1>1. Val("integer", "override") \in Value
  BY DEF Val, Value, ValueType, JsonType, Origin
<1>2. QED
  BY <1>1 DEF Overridden, Maps

LEMMA BuiltType ==
  ASSUME Bound
  PROVE  Maps(BuiltPayload, Name, Value)
<1>1. \A n : Meaning(n) # "plain" => Val(TypeOfMeaning[Meaning(n)], Meaning(n)) \in Value
  BY MeaningCases DEF TypeOfMeaning, Val, Value, ValueType, JsonType, Origin
<1>2. CASE DOMAIN Props = {}
  <2>1. \A n \in {"query", "constraints", "gaps"} : Meaning(n) # "plain"
    BY MeaningCases
  <2>2. QED
    BY <1>1, <1>2, <2>1, BuiltDomain, SchemaShape DEF GenericPayload, Maps
<1>3. CASE DOMAIN Props # {}
  <2>1. ASSUME NEW n \in DOMAIN BuiltPayload PROVE BuiltPayload[n] \in Value
    <3>1. CASE BuiltPayload[n] = Fallback(n)
      BY <3>1 DEF Fallback, Val, Value, ValueType, JsonType, Origin
    <3>2. CASE n \in DOMAIN Props /\ Offered(n) # {}
               /\ BuiltPayload[n] = (CHOOSE v \in Offered(n) : TRUE)
      <4>1. n \in DOMAIN ask.constraints => ask.constraints[n] \in ValueType
        BY SchemaShape DEF Maps
      <4>2. HasDefault(n) => Props[n].default \in ValueType
        BY <3>2, TypedShape DEF HasDefault, Typed
      <4>3. \A t \in ValueType : Val(t, "caller") \in Value /\ Val(t, "default") \in Value
        BY DEF Val, Value, Origin
      <4>4. QED
        BY <1>1, <3>2, <4>1, <4>2, <4>3, OfferedCases
    <3>3. QED
      BY <1>3, <3>1, <3>2, BuiltValue
  <2>2. BuiltPayload \in [DOMAIN BuiltPayload -> Value]
    <3>1. BuiltPayload = [n \in Filling |-> FillingOf(n)]
      BY <1>3 DEF BuiltPayload
    <3>2. QED
      BY <2>1, <3>1
  <2>3. QED
    BY <2>2, BuiltDomain DEF Maps
<1>4. QED
  BY <1>2, <1>3

LEMMA FieldShape ==
  ASSUME Bound, NEW n \in DOMAIN Fields
  PROVE  n \in Name /\ Fields[n].type \in JsonType
<1>1. \A t : FieldType(t) \in JsonType
  BY DEF FieldType, JsonType
<1>2. \A m \in {"query", "constraints", "gaps"} : TypeOfMeaning[Meaning(m)] \in JsonType
  BY MeaningCases DEF TypeOfMeaning, JsonType
<1>3. QED
  BY <1>1, <1>2, SchemaShape, TypedShape DEF Fields

LEMMA ArgsType ==
  ASSUME Bound, Maps(payload, Name, Value), NEW passed \in {Given, DOMAIN Fields},
         NEW f, f = [n \in passed |->
                       Val(Fields[n].type, IF n \in Given THEN payload[n].of ELSE "empty")]
  PROVE  Maps(f, Name, Value)
<1>1. passed \subseteq DOMAIN Fields
  BY DEF Given
<1>2. \A n \in Given : payload[n].of \in Origin
  BY DEF Given, Maps, Value
<1>3. \A n \in passed : f[n] \in Value
  BY <1>1, <1>2, FieldShape DEF Val, Value, ValueType, Origin
<1>4. QED
  BY <1>1, <1>3, FieldShape DEF Maps

LEMMA TypeStep ==
  ASSUME TypeOK, [Next]_vars
  PROVE  TypeOK'
<1>1. Bound
  BY DEF TypeOK, Bound
<1>2. CASE Build
  <2>1. Maps(payload', Name, Value)
    BY <1>1, <1>2, BuiltType, OverriddenType, SchemaShape DEF Build
  <2>2. QED
    BY <1>2, <2>1 DEF Build, TypeOK
<1>3. CASE Validate
  <2>1. Maps(args', Name, Value)
    BY <1>1, <1>3, ArgsType DEF Validate, TypeOK
  <2>2. QED
    BY <1>3, <2>1 DEF Validate, TypeOK
<1>4. CASE Dispatch
  <2>1. Maps(args, Name, Value) /\ Path \subseteq Name
    BY <1>1, SchemaShape DEF TypeOK
  <2>2. Maps(InUrl, Name, Value \cup {Nothing})
    BY <2>1 DEF InUrl, Maps
  <2>3. Maps(Only(Name \ Path), Name, Value) /\ Maps(<<>>, Name, Value)
    BY <2>1 DEF Only, Maps
  <2>4. request'.url = InUrl /\ request'.rest \in {Only(Name \ Path), <<>>, args}
    BY <1>4 DEF Dispatch
  <2>5. QED
    BY <1>4, <2>1, <2>2, <2>3, <2>4 DEF Dispatch, TypeOK
<1>5. CASE Refuse \/ UnsupportedMethod \/ UNCHANGED vars
  BY <1>5 DEF Refuse, UnsupportedMethod, vars, TypeOK
<1>6. QED
  BY <1>2, <1>3, <1>4, <1>5 DEF Next

\* Every variable keeps its type.
THEOREM TypeCorrect == Spec => []TypeOK
<1>1. Init => TypeOK
  BY DEF Init, TypeOK, Maps
<1>2. TypeOK /\ [Next]_vars => TypeOK'
  BY TypeStep
<1>3. QED
  BY <1>1, <1>2, PTL DEF Spec

----------------------------------------------------------------------------
(* Every step *)

LEMMA AttemptInit == Init => AttemptInv
BY DEF Init, AttemptInv, Bound, PayloadBuilt, ArgsPassed, RequestMade, NotRefused

LEMMA StaticKept ==
  ASSUME UNCHANGED <<ask, tool>>
  PROVE  /\ Bound' <=> Bound
         /\ BuiltPayload' = BuiltPayload /\ Fields' = Fields
         /\ TypesAgree' <=> TypesAgree
         /\ Supported' <=> Supported
BY DEF Bound, BuiltPayload, Fields, TypesAgree, Supported, Props, Required, Typed, Offered,
       Fallback, DeclaredType, GenericPayload, HasDefault, Filling, FillingOf

LEMMA AttemptStep ==
  ASSUME AttemptInv, [Next]_vars
  PROVE  AttemptInv'
<1>1. UNCHANGED <<ask, tool>>
  BY DEF Next, Build, Validate, Refuse, Dispatch, UnsupportedMethod, vars
<1>2. /\ Bound' /\ BuiltPayload' = BuiltPayload /\ Fields' = Fields
      /\ (TypesAgree' <=> TypesAgree) /\ (Supported' <=> Supported)
      /\ Path' = Path
  BY <1>1, StaticKept DEF AttemptInv, Path
<1>3. CASE Build
  BY <1>2, <1>3 DEF Build, AttemptInv, PayloadBuilt, ArgsPassed, RequestMade, NotRefused,
                    Overridden
<1>4. CASE Validate
  <2>1. PayloadBuilt' /\ RequestMade' /\ NotRefused'
    BY <1>1, <1>2, <1>4 DEF Validate, AttemptInv, PayloadBuilt, RequestMade, NotRefused,
                            Overridden
  <2>2. Given' = Given
    BY <1>2, <1>4 DEF Validate, Given
  <2>3. PICK passed \in {Given, DOMAIN Fields} :
          args' = [n \in passed |->
                     Val(Fields[n].type, IF n \in Given THEN payload[n].of ELSE "empty")]
    BY <1>4 DEF Validate
  <2>4. Given \subseteq passed /\ passed \subseteq DOMAIN Fields
    BY DEF Given
  <2>5. ArgsFit'
    BY <1>2, <1>4, <2>2, <2>3, <2>4 DEF Validate, ArgsFit
  <2>6. QED
    BY <1>2, <2>1, <2>5 DEF AttemptInv, ArgsPassed
<1>5. CASE Refuse
  <2>1. ~ TypesAgree
    BY <1>5, PayloadAgrees DEF Refuse, AttemptInv
  <2>2. QED
    BY <1>2, <1>5, <2>1 DEF Refuse, AttemptInv, PayloadBuilt, ArgsPassed, RequestMade,
                            NotRefused, Overridden
<1>6. CASE Dispatch
  <2>1. PayloadBuilt' /\ NotRefused'
    BY <1>2, <1>6 DEF Dispatch, AttemptInv, PayloadBuilt, NotRefused, Overridden
  <2>2. ArgsPassed'
    BY <1>2, <1>6 DEF Dispatch, AttemptInv, ArgsPassed, ArgsFit, Given
  <2>3. InUrl' = InUrl /\ Only(Name \ Path)' = Only(Name \ Path) /\ tool' = tool
    BY <1>1, <1>2, <1>6 DEF Dispatch, InUrl, Only
  <2>4. RequestMade'
    BY <1>2, <1>6, <2>3 DEF Dispatch, RequestMade
  <2>5. QED
    BY <1>2, <2>1, <2>2, <2>4 DEF AttemptInv
<1>7. CASE UnsupportedMethod
  BY <1>2, <1>7 DEF UnsupportedMethod, AttemptInv, PayloadBuilt, ArgsPassed, RequestMade,
                    NotRefused, Overridden, Supported
<1>8. CASE UNCHANGED vars
  BY <1>2, <1>8 DEF vars, AttemptInv, PayloadBuilt, ArgsPassed, ArgsFit, Given, RequestMade,
                    InUrl, Only, NotRefused, Overridden, Supported
<1>9. QED
  BY <1>3, <1>4, <1>5, <1>6, <1>7, <1>8 DEF Next

THEOREM AttemptInvariant == Spec => []AttemptInv
<1>1. Init => AttemptInv
  BY AttemptInit
<1>2. AttemptInv /\ [Next]_vars => AttemptInv'
  BY AttemptStep
<1>3. QED
  BY <1>1, <1>2, PTL DEF Spec

----------------------------------------------------------------------------
(* What is sent *)

\* Where an argument is to be found in the request
LEMMA WhatArrives ==
  ASSUME TypeOK, AttemptInv, pc = "sent"
  PROVE  /\ DOMAIN Received \subseteq DOMAIN args
         /\ \A n \in DOMAIN Received : Received[n] = args[n]
         /\ \A n \in DOMAIN args : AllTravel \/ n \in Path => n \in DOMAIN Received
         /\ Filled \cap DOMAIN request.rest = {}
<1>1. RequestMade /\ DOMAIN args \subseteq Name
  BY DEF AttemptInv, TypeOK, Maps
<1>2. \A n \in DOMAIN args : args[n] # Nothing
  BY ArgumentsAssumption DEF TypeOK, Maps
<1>3. Filled = DOMAIN args \cap Path /\ \A n \in Filled : request.url[n] = args[n]
  BY <1>1, <1>2 DEF RequestMade, Filled, InUrl
<1>4. /\ DOMAIN request.rest \subseteq DOMAIN args \ Path
      /\ \A n \in DOMAIN request.rest : request.rest[n] = args[n]
      /\ AllTravel => DOMAIN request.rest = DOMAIN args \ Path
  BY <1>1 DEF RequestMade, Only, AllTravel
<1>5. QED
  BY <1>3, <1>4 DEF Received

LEMMA SentFits ==
  ASSUME TypeOK, AttemptInv
  PROVE  RequestFitsSchema
<1> SUFFICES ASSUME pc = "sent", Typed # {}
             PROVE  /\ DOMAIN Received \subseteq Typed
                    /\ Filled \cap DOMAIN request.rest = {}
                    /\ \A n \in DOMAIN Received :
                         Props[n].type \in JsonType => Received[n].type = Props[n].type
                    /\ \A n \in Typed \cap Required : AllTravel \/ n \in Path => n \in DOMAIN Received
  BY DEF RequestFitsSchema
<1>1. /\ DOMAIN Fields = Typed
      /\ \A n \in Typed : /\ Fields[n].type = FieldType(Props[n].type)
                           /\ Fields[n].required <=> n \in Required
  BY DEF Fields
<1>2. ArgsFit
  BY DEF AttemptInv, ArgsPassed
<1>3. ASSUME NEW n \in DOMAIN args
      PROVE  n \in Typed /\ args[n].type = FieldType(Props[n].type)
  <2>1. n \in Typed
    BY <1>1, <1>2 DEF ArgsFit
  <2>2. PICK o : args[n] = Val(Fields[n].type, o)
    BY <1>2 DEF ArgsFit
  <2>3. args[n].type = Fields[n].type
    BY <2>2 DEF Val
  <2>4. Fields[n].type = FieldType(Props[n].type)
    BY <2>1 DEF Fields
  <2>5. QED
    BY <2>1, <2>3, <2>4
<1>4. QED
  BY <1>1, <1>2, <1>3, WhatArrives DEF ArgsFit, FieldType

\* For every schema, caller and endpoint, what leaves the client fits the schema
\* the tool was bound with, but for what a GET with placeholders drops.
THEOREM RequestFitsSchemaAlways == Spec => []RequestFitsSchema
<1>1. TypeOK /\ AttemptInv => RequestFitsSchema
  BY SentFits
<1>2. QED
  BY <1>1, TypeCorrect, AttemptInvariant, PTL

\* The origin of what was built under the name n
LEMMA BuiltOrigin ==
  ASSUME Bound, DOMAIN Props # {}, NEW n \in DOMAIN Props
  PROVE  /\ Meaning(n) = "question" =>
              n \in DOMAIN BuiltPayload /\ BuiltPayload[n].of = "question"
         /\ Meaning(n) = "plain" /\ n \in DOMAIN ask.constraints =>
              n \in DOMAIN BuiltPayload /\ BuiltPayload[n].of = "caller"
<1> SUFFICES ASSUME Meaning(n) = "question"
                      \/ (Meaning(n) = "plain" /\ n \in DOMAIN ask.constraints)
             PROVE  /\ n \in DOMAIN BuiltPayload
                    /\ BuiltPayload[n].of = IF Meaning(n) = "question" THEN "question" ELSE "caller"
  OBVIOUS
<1>1. Offered(n) # {}
  BY DEF Offered
<1>2. n \in DOMAIN BuiltPayload
  BY <1>1 DEF BuiltPayload, Filling
<1>3. BuiltPayload[n] = (CHOOSE v \in Offered(n) : TRUE)
  BY <1>1, <1>2, BuiltValue
<1>4. QED
  BY <1>1, <1>2, <1>3, OfferedCases DEF Val

\* Where the payload is not overridden it is the one built.
LEMMA PayloadKept ==
  ASSUME PayloadBuilt, pc # "build", NEW n \in DOMAIN BuiltPayload,
         ~ (n = "gsrlimit" /\ tool.wikipedia)
  PROVE  n \in DOMAIN payload /\ payload[n] = BuiltPayload[n]
BY OverriddenValue DEF PayloadBuilt

LEMMA CallerHeard ==
  ASSUME TypeOK, AttemptInv
  PROVE  AgreeingToolIsCalled
<1> SUFFICES ASSUME TypesAgree, Supported, pc = "sent", AllTravel
             PROVE  /\ DOMAIN Props = {} => Received["query"].of = "question"
                    /\ \A n \in DOMAIN Props : Meaning(n) = "question" => Received[n].of = "question"
                    /\ \A n \in DOMAIN Props \cap DOMAIN ask.constraints :
                         Meaning(n) = "plain" /\ ~ (n = "gsrlimit" /\ tool.wikipedia) =>
                           Received[n].of = "caller"
  BY DEF AgreeingToolIsCalled, AttemptInv, NotRefused, Supported
<1>1. Bound /\ PayloadBuilt /\ ArgsFit
  BY DEF AttemptInv, ArgsPassed
<1>2. Typed = DOMAIN Props
  BY DEF TypesAgree, Typed
<1>3. \A n \in Given : n \in DOMAIN Received /\ Received[n].of = payload[n].of
  BY <1>1, WhatArrives DEF ArgsFit, Val
<1>4. CASE DOMAIN Props = {}
  <2> PICK n : n = "query"
    OBVIOUS
  <2>1. n \in DOMAIN BuiltPayload /\ BuiltPayload[n].of = "question" /\ n \in DOMAIN Fields
    BY <1>1, <1>2, <1>4, BuiltDomain, MeaningCases DEF GenericPayload, Fields, Val
  <2>2. n \in Given /\ payload[n].of = "question"
    BY <1>1, <2>1, PayloadKept DEF Given
  <2>3. QED
    BY <1>3, <1>4, <2>2
<1>5. CASE DOMAIN Props # {}
  <2>1. DOMAIN Fields = DOMAIN Props
    BY <1>2, <1>5 DEF Fields
  <2>2. \A n \in DOMAIN Props : n \in DOMAIN BuiltPayload /\ ~ (n = "gsrlimit" /\ tool.wikipedia)
          => n \in Given /\ payload[n] = BuiltPayload[n]
    BY <1>1, <2>1, PayloadKept DEF Given
  <2>3. ASSUME NEW n \in DOMAIN Props, Meaning(n) = "question"
        PROVE  Received[n].of = "question"
    <3>1. n # "gsrlimit"
      BY <2>3, MeaningCases
    <3>2. QED
      BY <1>1, <1>3, <1>5, <2>2, <2>3, <3>1, BuiltOrigin
  <2>4. ASSUME NEW n \in DOMAIN Props, n \in DOMAIN ask.constraints, Meaning(n) = "plain",
               ~ (n = "gsrlimit" /\ tool.wikipedia)
        PROVE  Received[n].of = "caller"
    BY <1>1, <1>3, <1>5, <2>2, <2>4, BuiltOrigin
  <2>5. QED
    BY <1>5, <2>3, <2>4
<1>6. QED
  BY <1>4, <1>5

\* For every schema that agrees with the names of its properties, the tool is
\* called, with the question and the caller's constraints where it names them.
THEOREM AgreeingToolIsCalledAlways == Spec => []AgreeingToolIsCalled
<1>1. TypeOK /\ AttemptInv => AgreeingToolIsCalled
  BY CallerHeard
<1>2. QED
  BY <1>1, TypeCorrect, AttemptInvariant, PTL

============================================================================
