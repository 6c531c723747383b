--------------------------- MODULE MCPodTemplates ---------------------------
(* PodTemplates for TLC: builds with and without a database, a selector, *)
(* TLS and an OPSMATE_TOKEN of their own; tasks with and without a domain. *)
EXTENDS PodTemplates, TLC
Swaps == Permutations(Tasks)

MCTexts == {"none", "a", "b", "/data"}

Plain ==
    [podAnnotations |-> "none",
     podTemplate |-> [labels |-> <<>>,
        spec |-> [containers |-> <<[env |-> <<>>, mounts |-> <<>>]>>, volumes |-> <<>>]],
     service |-> [selector |-> <<>>, ports |-> {80}],
     ingressTLS |-> FALSE, ingressTargetPort |-> 80, databaseVolumePath |-> "none"]

Full ==
    [podAnnotations |-> "a",
     podTemplate |-> [labels |-> ("app" :> "a"),
        spec |-> [containers |->
            <<[env |-> <<[name |-> "OPSMATE_TOKEN", value |-> "a"]>>, mounts |-> <<>>],
              [env |-> <<>>, mounts |-> <<[name |-> "b", mountPath |-> "b"]>>]>>,
            volumes |-> <<"b">>]],
     service |-> [selector |-> ("envBuildName" :> BuildName), ports |-> {80, 443}],
     ingressTLS |-> TRUE, ingressTargetPort |-> 443, databaseVolumePath |-> "/data"]

MCTemplates == {Plain, Full}

MCTaskSpecs ==
    {[userID |-> "a", domainName |-> "a", ingressSecretName |-> "none", ingressAnnotations |-> "b"],
     [userID |-> "a", domainName |-> "none", ingressSecretName |-> "none",
      ingressAnnotations |-> "none"]}
=============================================================================
