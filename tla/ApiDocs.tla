------------------------------ MODULE ApiDocs ------------------------------
(***************************************************************************)
(* The documentation of the REST service, pkg/api/v1alpha1/docs, generated *)
(* from annotations and Go types: the statuses each route may answer, and  *)
(* the schemas of the objects that travel.                                 *)
(***************************************************************************)

BuildAnswers ==
    [GetEnvironmentBuilds   |-> {200, 404, 500}, GetEnvironmentBuild    |-> {200, 404, 500},
     CreateEnvironmentBuild |-> {201, 400},      UpdateEnvironmentBuild |-> {200, 400, 404},
     DeleteEnvironmentBuild |-> {200, 400, 404}]
TaskAnswers ==
    [CreateTask |-> {201, 400}, GetTask |-> {200, 404, 500}, DeleteTask |-> {200, 400, 404}]
HealthAnswers == [Healthz |-> {200}]

-----------------------------------------------------------------------------
(* A schema files the properties of an object under their types: those of    *)
(* JSON, or a definition the schema refers to. An object or a string that is *)
(* nowhere looked into is just that, whatever its definition says of it.     *)

IntOrStringSchema == [integer |-> {"intVal", "type"}, string |-> {"strVal"}]
DurationSchema == [integer |-> {"time.Duration"}]

ServiceSchemas ==
    [ServicePort |->
        [string |-> {"appProtocol", "name", "protocol"}, integer |-> {"nodePort", "port"},
         IntOrString |-> {"targetPort"}],
     ServiceSpec |->
        [boolean |-> {"allocateLoadBalancerNodePorts", "publishNotReadyAddresses"},
         string |-> {"clusterIP", "externalName", "externalTrafficPolicy",
                     "internalTrafficPolicy", "ipFamilyPolicy", "loadBalancerClass",
                     "loadBalancerIP", "sessionAffinity", "trafficDistribution", "type"},
         array |-> {"clusterIPs", "externalIPs", "ipFamilies", "loadBalancerSourceRanges", "ports"},
         integer |-> {"healthCheckNodePort"},
         object |-> {"selector", "sessionAffinityConfig"}]]

BuildSchemas ==
    [EnvironmentBuild |->
        [string |-> {"apiVersion", "kind"}, object |-> {"metadata", "spec", "status"}],
     EnvironmentBuildSpec |->
        [string |-> {"databaseVolumePath"}, boolean |-> {"ingressTLS"},
         integer |-> {"ingressTargetPort"},
         object |-> {"podAnnotations", "podTemplate", "service"}],
     EnvironmentBuildStatus |-> [integer |-> {"taskCount", "threadCount"}]]

TaskSchemas ==
    [Task |->
        [string |-> {"apiVersion", "kind"}, object |-> {"metadata", "spec", "status"}],
     TaskSpec |->
        [string |-> {"context", "description", "domainName", "environmentBuildName",
                     "ingressSecretName", "userID"},
         object |-> {"ingressAnnotations"}, boolean |-> {"terminateOnFailure"},
         Duration |-> {"ttl"}],
     TaskStatus |->
        [string |-> {"allocatedAt", "ingressDomain", "internalIP", "output", "reason",
                     "serviceIP", "state", "token"},
         array |-> {"conditions"}, object |-> {"ingress", "pod", "service"}]]

Properties(schemas) ==
    UNION {UNION {{[of |-> s, name |-> p, type |-> t] : p \in schemas[s][t]}
                    : t \in DOMAIN schemas[s]}
            : s \in DOMAIN schemas}

BuildProperties == Properties(BuildSchemas) \union Properties(ServiceSchemas)
TaskProperties == Properties(TaskSchemas)

\* What JSON value a type is documented to be: a definition with properties is
\* an object.
Definitions == [IntOrString |-> IntOrStringSchema, Duration |-> DurationSchema]
DocumentedForm(type) == IF type \in DOMAIN Definitions THEN "object" ELSE type
=============================================================================
