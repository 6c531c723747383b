----------------------------- MODULE MCOperator -----------------------------
(* Operator for TLC: the values of its constants that are sets or functions. *)
EXTENDS Operator

OneServer == [c \in Clients |-> CHOOSE s \in Services : TRUE]
BothKinds == {"EnvironmentBuild", "Task"}
NoKinds == {}

\* One property of each kind of body, in its form.
OneProperty ==
    {[property |-> [of |-> "EnvironmentBuildSpec", name |-> "ingressTLS", type |-> "boolean"],
      form |-> "boolean"],
     [property |-> [of |-> "TaskSpec", name |-> "userID", type |-> "string"],
      form |-> "string"]}

\* Every property of every schema, in its documented form.
DocumentedProperties ==
    {[property |-> p, form |-> DocumentedForm(p.type)] : p \in BuildProperties \union TaskProperties}
=============================================================================
