-------------------------- MODULE MCToolArguments --------------------------
(* Values for checking ToolArguments.tla with TLC. *)
EXTENDS ToolArguments

MCName == {"query", "constraints", "gaps", "filters", "gsrlimit", "lang"}

Specs(types, defaults) == [type : types, default : defaults] \cup {NotObject}

\* Every way to declare the names in D, as far as TLC can tell them apart
Declared(D, plain, defaults) ==
  {f \in [D -> Specs({"string", "integer", "object", "array", "other"}, {NoDefault} \cup defaults)] :
     \A n \in D : f[n] # NotObject =>
       \/ Meaning(n) = "plain" /\ f[n].type \in plain
       \/ /\ Meaning(n) # "plain" /\ f[n].default = NoDefault
          /\ f[n].type \in {"string", TypeOfMeaning[Meaning(n)], "other"}}

Families ==
  (UNION {Declared(D, {"string", "integer", "other"}, {"string", "integer", "null"}) :
            D \in SUBSET {"query", "filters", "gsrlimit"}})
  \cup Declared({"gaps", "lang"}, {"string", "array"}, {"string"})

MCSchema == [props : Families, required : SUBSET {"query", "gsrlimit"}]

MCConstraints ==
  {<<>>} \cup [{"gsrlimit"} -> {"string", "integer"}] \cup [{"lang", "query"} -> {"string"}]

MCEndpoint ==
  {[method |-> "POST", path |-> {}], [method |-> "POST", path |-> {"gsrlimit"}],
   [method |-> "GET", path |-> {}], [method |-> "GET", path |-> {"query"}],
   [method |-> "PUT", path |-> {}]}
============================================================================
