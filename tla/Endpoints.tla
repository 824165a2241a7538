------------------------------ MODULE Endpoints ------------------------------
(***************************************************************************)
(* The requests of TamgaClient (src/client.ts), one definition a method:   *)
(* verb and the action its path ends in, by which isRetryable decides; the *)
(* send* function that decodes the answer; the forms in which the route    *)
(* answers a success; and what becomes of a JSON answer that lacks the     *)
(* envelope, or lacks in it a member the method itself reads.  Ids and     *)
(* attributes only travel through.                                         *)
(***************************************************************************)
Request(method, suffix, sender, answers) ==
  [method |-> method, suffix |-> suffix, sender |-> sender, answers |-> answers,
   manual |-> FALSE, lacking |-> "value", partial |-> "value"]

Resource(method, suffix) == Request(method, suffix, "sendJsonApi", {"envelope"})
WithMeta(method, suffix) == Request(method, suffix, "sendJsonApiWithMeta", {"envelope"})
Flat(suffix) == Request("GET", suffix, "sendFlat", {"envelope"})
File == Request("GET", "/actions/check-out", "sendRaw", {"notJson"})
Deletion == Request("DELETE", "", "sendRaw", {"empty"})

-----------------------------------------------------------------------------
(* Licenses, policies and keys.                                            *)

validateByKey == WithMeta("POST", "/actions/validate-key")
validateById == WithMeta("POST", "/actions/validate")
quickValidate == Flat("/actions/validate")
checkIn == Resource("POST", "/actions/check-in")
getLicense == Resource("GET", "")
getLicensePolicy == Resource("GET", "")
getPolicy == Resource("GET", "")
listSigningKeys == Resource("GET", "")
checkOutLicense == File
checkOutLicenseJson == Resource("POST", "/actions/check-out")

(* Machines, their components and their processes.                         *)

checkOutMachine == File
checkOutMachineJson == Resource("POST", "/actions/check-out")
createMachine == Resource("POST", "")
pingHeartbeat == Resource("POST", "/actions/ping-heartbeat")
resetHeartbeat == Resource("POST", "/actions/reset-heartbeat")
deleteMachine == Deletion
getMachine == Resource("GET", "")
listMachines == WithMeta("GET", "")
updateMachine == Resource("PATCH", "")
\* The proof is read from `meta`, which may lack it but not be missing.
generateOfflineProof ==
  [WithMeta("POST", "/actions/generate-offline-proof") EXCEPT !.lacking = "type_error"]
createComponent == Resource("POST", "")
listComponents == Resource("GET", "")
createProcess == Resource("POST", "")
pingProcess == Resource("POST", "/actions/ping")
deleteProcess == Deletion
listMachineProcesses == Resource("GET", "")

(* Entitlements, releases and artifacts.                                   *)

listEntitlements == Resource("GET", "")
getEntitlement == Resource("GET", "")
incrementEntitlementUsage == Resource("POST", "/actions/increment")
decrementEntitlementUsage == Resource("POST", "/actions/decrement")
resetEntitlementUsage == Resource("POST", "/actions/reset")
listReleaseArtifacts == Resource("GET", "")
getArtifact == Resource("GET", "")
\* A redirect is thrown, and so is an artifact without redirectUrl; one
\* without attributes is not looked for.
getArtifactDownloadUrl ==
  [Resource("GET", "/actions/download") EXCEPT
     !.manual = TRUE, !.lacking = "type_error", !.partial = "parse_error"]

\* Mutant: an upgrade check decoded like any other resource.
checkForUpgradeAsResource ==
  Request("GET", "/actions/upgrade", "sendJsonApi", {"envelope", "empty"})

\* 204 is the route's "nothing for you".
checkForUpgrade ==
  Request("GET", "/actions/upgrade", "sendJsonApiOptional", {"envelope", "empty"})

health == Flat("")

Requests ==
  {validateByKey, validateById, quickValidate, checkIn, getLicense, getLicensePolicy,
   getPolicy, listSigningKeys, checkOutLicense, checkOutLicenseJson, checkOutMachine,
   checkOutMachineJson, createMachine, pingHeartbeat, resetHeartbeat, deleteMachine,
   getMachine, listMachines, updateMachine, generateOfflineProof, createComponent,
   listComponents, createProcess, pingProcess, deleteProcess, listMachineProcesses,
   listEntitlements, getEntitlement, incrementEntitlementUsage,
   decrementEntitlementUsage, resetEntitlementUsage, listReleaseArtifacts, getArtifact,
   getArtifactDownloadUrl, checkForUpgrade, health}
=============================================================================
