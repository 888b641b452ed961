------------------------------ MODULE AppTypes ------------------------------
(***************************************************************************)
(* The types of the app.kiegroup.org API (apis/app/v1beta1) as far as      *)
(* memory is concerned: which values a struct holds, which of them its     *)
(* accessors hand out, and what the generated DeepCopyInto copies.         *)
(*                                                                         *)
(* Strings, numbers and booleans are left out.  A pointer, a slice and a   *)
(* map are references; a pointer to a slice is one.                        *)
(***************************************************************************)

\* A struct holds a value in itself or by a reference, which an assignment of
\* the struct shares.
Part(type) == [ref |-> FALSE, of |-> type]
Ref(type) == [ref |-> TRUE, of |-> type]

\* What a struct holds, and the fields whose accessors give access to what the
\* field refers to: a getter that builds a new slice does not.
Struct(fields, gives) == [fields |-> fields, gives |-> gives]
NoFields == [f \in {} |-> Part("Text")]

\* DeepCopyInto assigns the struct.  Then it gives the fields in each a new
\* reference, and copies what they refer to deeply; the fields in fresh a new
\* reference, and assigns what they refer to; and copies the parts in into.
Copies(each, fresh, into) == [each |-> each, fresh |-> fresh, into |-> into]
Assigned == Copies({}, {}, {})

-----------------------------------------------------------------------------
(* KogitoBuild.                                                             *)

GitSource == Struct(NoFields, {})
Artifact == Struct(NoFields, {})
WebHookSecret == Struct(NoFields, {})
KogitoBuildSpecFields ==
  [Env |-> Ref("EnvVar"), GitSource |-> Part("GitSource"), WebHooks |-> Ref("WebHookSecret"),
   Resources |-> Part("ResourceRequirements"), Artifact |-> Part("Artifact")]
KogitoBuildSpecGives == {"Env", "GitSource", "Resources", "Artifact"}
KogitoBuildSpec == Struct(KogitoBuildSpecFields, KogitoBuildSpecGives)
KogitoBuildStatus ==
  Struct([Conditions |-> Ref("Condition"), Builds |-> Part("Builds")], {"Conditions", "Builds"})
Builds ==
  LET phases == {"New", "Pending", "Running", "Complete", "Failed", "Error", "Cancelled"}
  IN  Struct([f \in phases |-> Ref("Text")], phases)
KogitoBuild ==
  Struct([ObjectMeta |-> Part("ObjectMeta"), Spec |-> Part("KogitoBuildSpec"),
          Status |-> Part("KogitoBuildStatus")], {"ObjectMeta", "Spec", "Status"})

GitSourceInto == Assigned
ArtifactInto == Assigned
WebHookSecretInto == Assigned
BuildsInto ==
  Copies({}, {"New", "Pending", "Running", "Complete", "Failed", "Error", "Cancelled"}, {})
KogitoBuildInto == Copies({}, {}, {"ObjectMeta", "Spec", "Status"})
\* A slip: the variables are assigned, as after adding a field by hand.
EnvIsAssigned == Copies({}, {"WebHooks"}, {"Resources"})
KogitoBuildSpecInto == Copies({"Env"}, {"WebHooks"}, {"Resources"})
KogitoBuildStatusInto == Copies({"Conditions"}, {}, {"Builds"})

-----------------------------------------------------------------------------
(* KogitoInfra.                                                             *)

InfraResource == Struct(NoFields, {})
VolumeReference ==
  Struct([FileMode |-> Ref("Text"), Optional |-> Ref("Text")], {"FileMode", "Optional"})
KogitoInfraSpecFields ==
  [Resource |-> Ref("InfraResource"), InfraProperties |-> Ref("Text"), Envs |-> Ref("EnvVar"),
   ConfigMapEnvFromReferences |-> Ref("Text"), ConfigMapVolumeReferences |-> Ref("VolumeReference"),
   SecretEnvFromReferences |-> Ref("Text"), SecretVolumeReferences |-> Ref("VolumeReference")]
KogitoInfraSpecGives ==
  {"Resource", "InfraProperties", "Envs", "ConfigMapEnvFromReferences", "SecretEnvFromReferences"}
KogitoInfraSpec == Struct(KogitoInfraSpecFields, KogitoInfraSpecGives)
KogitoInfraStatusFields ==
  [Conditions |-> Ref("Condition"), Envs |-> Ref("EnvVar"),
   ConfigMapEnvFromReferences |-> Ref("Text"), ConfigMapVolumeReferences |-> Ref("VolumeReference"),
   SecretEnvFromReferences |-> Ref("Text"), SecretVolumeReferences |-> Ref("VolumeReference")]
KogitoInfraStatusGives ==
  {"Conditions", "Envs", "ConfigMapEnvFromReferences", "SecretEnvFromReferences"}
KogitoInfraStatus == Struct(KogitoInfraStatusFields, KogitoInfraStatusGives)
KogitoInfra ==
  Struct([ObjectMeta |-> Part("ObjectMeta"), Spec |-> Part("KogitoInfraSpec"),
          Status |-> Part("KogitoInfraStatus")], {"ObjectMeta", "Spec", "Status"})

InfraResourceInto == Assigned
VolumeReferenceInto == Copies({}, {"FileMode", "Optional"}, {})
KogitoInfraInto == Copies({}, {}, {"ObjectMeta", "Spec", "Status"})
KogitoInfraSpecInto ==
  Copies({"Envs", "ConfigMapVolumeReferences", "SecretVolumeReferences"},
         {"Resource", "InfraProperties", "ConfigMapEnvFromReferences", "SecretEnvFromReferences"}, {})
KogitoInfraStatusInto ==
  Copies({"Conditions", "Envs", "ConfigMapVolumeReferences", "SecretVolumeReferences"},
         {"ConfigMapEnvFromReferences", "SecretEnvFromReferences"}, {})

-----------------------------------------------------------------------------
(* Services: KogitoRuntime and KogitoSupportingService.                     *)

Monitoring == Struct(NoFields, {})
KogitoProbe ==
  LET probes == {"LivenessProbe", "ReadinessProbe", "StartupProbe"}
  IN  Struct([f \in probes |-> Part("Probe")], probes)
KogitoCloudEventInfo == Struct(NoFields, {})
KogitoCloudEventsStatus ==
  Struct([Consumes |-> Ref("KogitoCloudEventInfo"), Produces |-> Ref("KogitoCloudEventInfo")], {})
KogitoServiceStatus ==
  Struct([Conditions |-> Ref("Condition"), DeploymentConditions |-> Ref("Condition"),
          RouteConditions |-> Ref("Condition"), CloudEvents |-> Part("KogitoCloudEventsStatus")],
         {"Conditions", "DeploymentConditions", "RouteConditions", "CloudEvents"})
KogitoServiceSpecFields ==
  [Replicas |-> Ref("Text"), Env |-> Ref("EnvVar"), Resources |-> Part("ResourceRequirements"),
   DeploymentLabels |-> Ref("Text"), ServiceLabels |-> Ref("Text"), Infra |-> Ref("Text"),
   Monitoring |-> Part("Monitoring"), Config |-> Ref("Text"), Probes |-> Part("KogitoProbe")]
KogitoServiceSpecGives == DOMAIN KogitoServiceSpecFields
KogitoServiceSpec == Struct(KogitoServiceSpecFields, KogitoServiceSpecGives)
KogitoRuntimeSpec == Struct([KogitoServiceSpec |-> Part("KogitoServiceSpec")], {"KogitoServiceSpec"})
KogitoRuntimeStatus ==
  Struct([KogitoServiceStatus |-> Part("KogitoServiceStatus")], {"KogitoServiceStatus"})
KogitoRuntime ==
  Struct([ObjectMeta |-> Part("ObjectMeta"), Spec |-> Part("KogitoRuntimeSpec"),
          Status |-> Part("KogitoRuntimeStatus")], {"ObjectMeta", "Spec", "Status"})
KogitoSupportingServiceSpec ==
  Struct([KogitoServiceSpec |-> Part("KogitoServiceSpec")], {"KogitoServiceSpec"})
KogitoSupportingServiceStatus ==
  Struct([KogitoServiceStatus |-> Part("KogitoServiceStatus")], {"KogitoServiceStatus"})
KogitoSupportingService ==
  Struct([ObjectMeta |-> Part("ObjectMeta"), Spec |-> Part("KogitoSupportingServiceSpec"),
          Status |-> Part("KogitoSupportingServiceStatus")], {"ObjectMeta", "Spec", "Status"})

MonitoringInto == Assigned
KogitoProbeInto == Copies({}, {}, {"LivenessProbe", "ReadinessProbe", "StartupProbe"})
KogitoCloudEventInfoInto == Assigned
KogitoCloudEventsStatusInto == Copies({}, {"Consumes", "Produces"}, {})
KogitoServiceStatusInto ==
  Copies({"Conditions", "DeploymentConditions", "RouteConditions"}, {}, {"CloudEvents"})
KogitoServiceSpecInto ==
  Copies({"Env"}, {"Replicas", "DeploymentLabels", "ServiceLabels", "Infra", "Config"},
         {"Resources", "Probes"})
KogitoRuntimeInto == Copies({}, {}, {"ObjectMeta", "Spec", "Status"})
KogitoRuntimeSpecInto == Copies({}, {}, {"KogitoServiceSpec"})
KogitoRuntimeStatusInto == Copies({}, {}, {"KogitoServiceStatus"})
KogitoSupportingServiceInto == Copies({}, {}, {"ObjectMeta", "Spec", "Status"})
KogitoSupportingServiceSpecInto == Copies({}, {}, {"KogitoServiceSpec"})
KogitoSupportingServiceStatusInto == Copies({}, {}, {"KogitoServiceStatus"})

-----------------------------------------------------------------------------
(* All of them.                                                             *)

Structs ==
  [GitSource |-> GitSource, Artifact |-> Artifact, WebHookSecret |-> WebHookSecret,
   KogitoBuildSpec |-> KogitoBuildSpec, KogitoBuildStatus |-> KogitoBuildStatus,
   Builds |-> Builds, KogitoBuild |-> KogitoBuild, InfraResource |-> InfraResource,
   VolumeReference |-> VolumeReference, KogitoInfraSpec |-> KogitoInfraSpec,
   KogitoInfraStatus |-> KogitoInfraStatus, KogitoInfra |-> KogitoInfra,
   Monitoring |-> Monitoring, KogitoProbe |-> KogitoProbe,
   KogitoCloudEventInfo |-> KogitoCloudEventInfo,
   KogitoCloudEventsStatus |-> KogitoCloudEventsStatus,
   KogitoServiceStatus |-> KogitoServiceStatus, KogitoServiceSpec |-> KogitoServiceSpec,
   KogitoRuntimeSpec |-> KogitoRuntimeSpec, KogitoRuntimeStatus |-> KogitoRuntimeStatus,
   KogitoRuntime |-> KogitoRuntime,
   KogitoSupportingServiceSpec |-> KogitoSupportingServiceSpec,
   KogitoSupportingServiceStatus |-> KogitoSupportingServiceStatus,
   KogitoSupportingService |-> KogitoSupportingService]
Intos ==
  [GitSource |-> GitSourceInto, Artifact |-> ArtifactInto, WebHookSecret |-> WebHookSecretInto,
   KogitoBuildSpec |-> KogitoBuildSpecInto, KogitoBuildStatus |-> KogitoBuildStatusInto,
   Builds |-> BuildsInto, KogitoBuild |-> KogitoBuildInto, InfraResource |-> InfraResourceInto,
   VolumeReference |-> VolumeReferenceInto, KogitoInfraSpec |-> KogitoInfraSpecInto,
   KogitoInfraStatus |-> KogitoInfraStatusInto, KogitoInfra |-> KogitoInfraInto,
   Monitoring |-> MonitoringInto, KogitoProbe |-> KogitoProbeInto,
   KogitoCloudEventInfo |-> KogitoCloudEventInfoInto,
   KogitoCloudEventsStatus |-> KogitoCloudEventsStatusInto,
   KogitoServiceStatus |-> KogitoServiceStatusInto,
   KogitoServiceSpec |-> KogitoServiceSpecInto, KogitoRuntimeSpec |-> KogitoRuntimeSpecInto,
   KogitoRuntimeStatus |-> KogitoRuntimeStatusInto, KogitoRuntime |-> KogitoRuntimeInto,
   KogitoSupportingServiceSpec |-> KogitoSupportingServiceSpecInto,
   KogitoSupportingServiceStatus |-> KogitoSupportingServiceStatusInto,
   KogitoSupportingService |-> KogitoSupportingServiceInto]
=============================================================================
