------------------------- MODULE PolicyServerObjects -------------------------
(***************************************************************************)
(* What the controller builds from the spec of a PolicyServer, and how it  *)
(* decides whether what exists already has to be patched                   *)
(* (internal/pkg/admission/policy-server-deployment.go, -service.go and    *)
(* -configmap.go).                                                         *)
(*                                                                         *)
(* A spec is a record of the fields of PolicyServerSpec that are read:     *)
(* image, replicas, account, annotations, env and sources (the insecure    *)
(* sources and the source authorities) and the names, or "", of the        *)
(* ConfigMap verification and of the Secret pullSecret.                    *)
(***************************************************************************)
EXTENDS Integers, FiniteSets

\* The environment variables that deployment() adds to those of the spec.
AddedEnv(spec) ==
    (IF spec.verification # "" THEN {"KUBEWARDEN_VERIFICATION_CONFIG_PATH"} ELSE {})
        \cup (IF spec.pullSecret # "" THEN {"KUBEWARDEN_DOCKER_CONFIG_JSON_PATH"} ELSE {})
        \cup (IF spec.sources # {} THEN {"KUBEWARDEN_SOURCES_PATH"} ELSE {})

\* The volumes of adaptDeploymentSettingsForPolicyServer, by name and source.
AddedVolumes(spec) ==
    { <<"verification", v>> : v \in {spec.verification} \ {""} }
        \cup { <<"imagepullsecret", v>> : v \in {spec.pullSecret} \ {""} }
        \cup (IF spec.sources # {} THEN { <<"sources", "policy server ConfigMap">> } ELSE {})

\* deployment(): latest says whether its config-version annotation, and the label of
\* its pods, are the resourceVersion the ConfigMap has now; restarted, whether
\* kubectl rollout restart annotated the pod template.
deployment(spec) ==
    [latest      |-> TRUE,
     restarted   |-> FALSE,
     replicas    |-> spec.replicas,
     image       |-> spec.image,
     account     |-> spec.account,
     annotations |-> spec.annotations,
     env         |-> spec.env \cup AddedEnv(spec),
     volumes     |-> AddedVolumes(spec)]

\* service(), metricsEnabled(): the metrics port is open when the spec sets the variable.
service(spec) == [metrics |-> "KUBEWARDEN_ENABLE_METRICS" \in spec.env]

\* createPoliciesMap and createSourcesMap: the two entries of the ConfigMap.
configMap(spec, policies) == [policies |-> policies, sources |-> spec.sources]

isPolicyServerImageChanged(original, new) == original.image # new.image

\* Broken variant: the annotation that kubectl rollout restart adds is compared too.
RestartCounts(original, new) ==
    original.annotations = new.annotations /\ original.restarted = new.restarted

\* The restart annotation is not part of an annotations field here: restarted is.
haveEqualAnnotationsWithoutRestart(original, new) == original.annotations = new.annotations

\* Broken variant: the image is not compared.
shouldUpdateWhateverImage(original, new) ==
    \/ original.replicas # new.replicas
    \/ original.account # new.account
    \/ original.latest # new.latest
    \/ original.env # new.env
    \/ ~haveEqualAnnotationsWithoutRestart(original, new)

\* The volumes are not compared.
shouldUpdatePolicyServerDeployment(original, new) ==
    \/ original.replicas # new.replicas
    \/ isPolicyServerImageChanged(original, new)
    \/ original.account # new.account
    \/ original.latest # new.latest
    \/ original.env # new.env
    \/ ~haveEqualAnnotationsWithoutRestart(original, new)

\* updatePolicyServerDeployment: a patch replaces the replicas, the whole pod
\* template, the restart annotation with it, and the version annotation.
updatePolicyServerDeployment(original, new) ==
    IF shouldUpdatePolicyServerDeployment(original, new) THEN new ELSE original

=============================================================================
