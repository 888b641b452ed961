----------------------------- MODULE RhpamTypes -----------------------------
(***************************************************************************)
(* The types of the rhpam.kiegroup.org API (apis/rhpam/v1), which is kept  *)
(* apart from apis/app/v1beta1 with types and generated copies of its own. *)
(* They hold, hand out and copy what those do, file by file.               *)
(***************************************************************************)
A == INSTANCE AppTypes

\* Types.
GitSource == A!GitSource
Artifact == A!Artifact
WebHookSecret == A!WebHookSecret
KogitoBuildSpecFields == A!KogitoBuildSpecFields
KogitoBuildSpecGives == A!KogitoBuildSpecGives
KogitoBuildSpec == A!KogitoBuildSpec
KogitoBuildStatus == A!KogitoBuildStatus
Builds == A!Builds
KogitoBuild == A!KogitoBuild
InfraResource == A!InfraResource
VolumeReference == A!VolumeReference
KogitoInfraSpecFields == A!KogitoInfraSpecFields
KogitoInfraSpecGives == A!KogitoInfraSpecGives
KogitoInfraSpec == A!KogitoInfraSpec
KogitoInfraStatusFields == A!KogitoInfraStatusFields
KogitoInfraStatusGives == A!KogitoInfraStatusGives
KogitoInfraStatus == A!KogitoInfraStatus
KogitoInfra == A!KogitoInfra
Monitoring == A!Monitoring
KogitoProbe == A!KogitoProbe
KogitoCloudEventInfo == A!KogitoCloudEventInfo
KogitoCloudEventsStatus == A!KogitoCloudEventsStatus
KogitoServiceStatus == A!KogitoServiceStatus
KogitoServiceSpecFields == A!KogitoServiceSpecFields
KogitoServiceSpecGives == A!KogitoServiceSpecGives
KogitoServiceSpec == A!KogitoServiceSpec
KogitoRuntimeSpec == A!KogitoRuntimeSpec
KogitoRuntimeStatus == A!KogitoRuntimeStatus
KogitoRuntime == A!KogitoRuntime
KogitoSupportingServiceSpec == A!KogitoSupportingServiceSpec
KogitoSupportingServiceStatus == A!KogitoSupportingServiceStatus
KogitoSupportingService == A!KogitoSupportingService

\* Generated copies.
GitSourceInto == A!GitSourceInto
ArtifactInto == A!ArtifactInto
WebHookSecretInto == A!WebHookSecretInto
BuildsInto == A!BuildsInto
KogitoBuildInto == A!KogitoBuildInto
KogitoBuildSpecInto == A!KogitoBuildSpecInto
KogitoBuildStatusInto == A!KogitoBuildStatusInto
InfraResourceInto == A!InfraResourceInto
VolumeReferenceInto == A!VolumeReferenceInto
KogitoInfraInto == A!KogitoInfraInto
KogitoInfraSpecInto == A!KogitoInfraSpecInto
KogitoInfraStatusInto == A!KogitoInfraStatusInto
MonitoringInto == A!MonitoringInto
KogitoProbeInto == A!KogitoProbeInto
KogitoCloudEventInfoInto == A!KogitoCloudEventInfoInto
KogitoCloudEventsStatusInto == A!KogitoCloudEventsStatusInto
KogitoServiceStatusInto == A!KogitoServiceStatusInto
KogitoServiceSpecInto == A!KogitoServiceSpecInto
KogitoRuntimeInto == A!KogitoRuntimeInto
KogitoRuntimeSpecInto == A!KogitoRuntimeSpecInto
KogitoRuntimeStatusInto == A!KogitoRuntimeStatusInto
KogitoSupportingServiceInto == A!KogitoSupportingServiceInto
KogitoSupportingServiceSpecInto == A!KogitoSupportingServiceSpecInto
KogitoSupportingServiceStatusInto == A!KogitoSupportingServiceStatusInto

\* All of them.
Structs ==
  [GitSource |-> GitSource, Artifact |-> Artifact, WebHookSecret |-> WebHookSecret,
   KogitoBuildSpec |-> KogitoBuildSpec, KogitoBuildStatus |-> KogitoBuildStatus,
   Builds |-> Builds, KogitoBuild |-> KogitoBuild, InfraResource |-> InfraResource,
   VolumeReference |-> VolumeReference, KogitoInfraSpec |-> KogitoInfraSpec,
   KogitoInfraStatus |-> KogitoInfraStatus, KogitoInfra |-> KogitoInfra,
   Monitoring |-> Monitoring, KogitoProbe |-> KogitoProbe,
   KogitoCloudEventInfo |-> KogitoCloudEventInfo,
   KogitoCloudEventsStatus |-> KogitoCloudEventsStatus,
   KogitoServiceStatus |-> KogitoServiceStatus, KogitoServiceSpec |-> KogitoServiceSpec,
   KogitoRuntimeSpec |-> KogitoRuntimeSpec, KogitoRuntimeStatus |-> KogitoRuntimeStatus,
   KogitoRuntime |-> KogitoRuntime,
   KogitoSupportingServiceSpec |-> KogitoSupportingServiceSpec,
   KogitoSupportingServiceStatus |-> KogitoSupportingServiceStatus,
   KogitoSupportingService |-> KogitoSupportingService]
Intos ==
  [GitSource |-> GitSourceInto, Artifact |-> ArtifactInto, WebHookSecret |-> WebHookSecretInto,
   KogitoBuildSpec |-> KogitoBuildSpecInto, KogitoBuildStatus |-> KogitoBuildStatusInto,
   Builds |-> BuildsInto, KogitoBuild |-> KogitoBuildInto, InfraResource |-> InfraResourceInto,
   VolumeReference |-> VolumeReferenceInto, KogitoInfraSpec |-> KogitoInfraSpecInto,
   KogitoInfraStatus |-> KogitoInfraStatusInto, KogitoInfra |-> KogitoInfraInto,
   Monitoring |-> MonitoringInto, KogitoProbe |-> KogitoProbeInto,
   KogitoCloudEventInfo |-> KogitoCloudEventInfoInto,
   KogitoCloudEventsStatus |-> KogitoCloudEventsStatusInto,
   KogitoServiceStatus |-> KogitoServiceStatusInto,
   KogitoServiceSpec |-> KogitoServiceSpecInto, KogitoRuntimeSpec |-> KogitoRuntimeSpecInto,
   KogitoRuntimeStatus |-> KogitoRuntimeStatusInto, KogitoRuntime |-> KogitoRuntimeInto,
   KogitoSupportingServiceSpec |-> KogitoSupportingServiceSpecInto,
   KogitoSupportingServiceStatus |-> KogitoSupportingServiceStatusInto,
   KogitoSupportingService |-> KogitoSupportingServiceInto]
=============================================================================
