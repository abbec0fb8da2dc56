----------------------------- MODULE Deployment -----------------------------
(***************************************************************************)
(* A production update (scripts/docker-up.sh), the preflight it runs three *)
(* times (scripts/deployment-preflight.mjs) and the audit of the worker's  *)
(* image (scripts/worker-runtime-inspect.mjs).  Every command reads        *)
(* compose.yaml, .env, the image tags and the host anew, and minutes pass  *)
(* between them: what one has checked, another may find changed.  Nothing  *)
(* is rolled back: a run that fails leaves what it has started.            *)
(***************************************************************************)
EXTENDS Naturals

CONSTANTS
    Port,       \* the ports the Dashboard can be published on
    MaxImages,  \* worker images built
    MaxChanges, \* changes made by others
    Unset

ASSUME DeploymentAssumption == MaxImages \in Nat /\ MaxChanges \in Nat /\ Unset \notin Nat

Service == {"dashboard", "assistant-worker", "searxng"}
Path == {"tailscale", "lan"}

(* What compose.yaml says of a service and docker of its container: as     *)
(* required or not; a mount may also have another source that is allowed.  *)
(* "start" is the restart policy, the build and the command.               *)
Field == {"start", "network", "hardening", "environment", "ports", "mounts"}
Inspected == Field \ {"start"}
Settings == [Field -> {"fit", "moved", "unfit"}]

(* publish gives the ports of the Dashboard's two endpoints, origin those  *)
(* its two origins name.                                                   *)
Configuration == [of : [Service -> Settings], publish : [Path -> Port], origin : [Path -> Port]]

(* Another program that listens: at the address of a path or at all of     *)
(* them, in a container or natively.                                       *)
Listener == [at : Path \cup {"any"}, port : Port, native : BOOLEAN]

UpdatePlace == {"idle", "before", "survey before", "build", "identify", "audit", "check", "survey",
          "searxng", "worker", "compare", "dashboard", "after", "survey after", "inspect", "probe"}

VARIABLES
    config,     \* what compose.yaml and .env resolve to now
    ready,      \* the host passes every other check of the preflight
    tag,        \* the image the worker's tag names
    audited,    \* the images that have passed the run's audit
    deployed,  \* the container of each service
    listeners,  \* the other programs that listen
    phase,      \* the command the run has come to
    cutover,    \* it is the first LAN cutover
    image,      \* worker_image_id
    resolved,   \* the configuration the last preflight resolved
    outcome,    \* how the last run ended
    stale,      \* configuration or listeners have changed since the last survey
    blocked,    \* the Dashboard could not publish an endpoint
    changes

deployVars == <<config, ready, tag, audited, deployed, listeners, phase, cutover, image, resolved,
                outcome, stale, blocked, changes>>
aroundVars == <<config, ready, tag, listeners, changes>>
updateVars == <<phase, cutover, image, resolved, outcome>>

(* A deployment older than the LAN cutover publishes one path.             *)
Deployed == [of : Settings, publish : [Path -> Port \cup {Unset}], origin : [Path -> Port],
              image : 0..MaxImages, running : BOOLEAN]

ASSUME UnsetAssumption == Unset \notin Deployed

DeployTypeOK ==
    /\ config \in Configuration
    /\ ready \in BOOLEAN
    /\ tag \in 0..MaxImages
    /\ audited \subseteq 0..MaxImages
    /\ deployed \in [Service -> Deployed \cup {Unset}]
    /\ listeners \subseteq Listener
    /\ phase \in UpdatePlace
    /\ cutover \in BOOLEAN
    /\ image \in 0..MaxImages \cup {Unset}
    /\ resolved \in Configuration \cup {Unset}
    /\ outcome \in {"none", "failed", "succeeded"}
    /\ stale \in BOOLEAN
    /\ blocked \in BOOLEAN
    /\ changes \in 0..MaxChanges

FitSettings == [f \in Field |-> "fit"]

DeployInit ==
    /\ \E ports \in [Path -> Port] :
          config = [of |-> [s \in Service |-> FitSettings], publish |-> ports, origin |-> ports]
    /\ ready = TRUE
    /\ tag = 0
    /\ audited = {}
    /\ \/ deployed = [s \in Service |-> Unset]
       \/ \E lan \in {Unset, config.publish["lan"]} :
             deployed = [s \in Service |->
                [of |-> FitSettings, publish |-> [config.publish EXCEPT !["lan"] = lan],
                 origin |-> config.origin, image |-> 0, running |-> TRUE]]
    /\ listeners = {}
    /\ phase = "idle"
    /\ cutover = FALSE
    /\ image = Unset
    /\ resolved = Unset
    /\ outcome = "none"
    /\ stale = TRUE
    /\ blocked = FALSE
    /\ changes = 0

-----------------------------------------------------------------------------
(* The preflight's checks of the resolved configuration.                   *)

ValidateServiceShape(c) ==
    \A s \in {"dashboard", "assistant-worker"} :
        c.of[s]["start"] = "fit" /\ c.of[s]["network"] = "fit"

ValidatePorts(c) == c.of["dashboard"]["ports"] = "fit"

(* Each origin names its endpoint's port.                                  *)
ValidateEnvironment(c) ==
    c.of["dashboard"]["environment"] = "fit" /\ c.origin = c.publish

ValidateSecurityConfiguration(c, s) == c.of[s]["hardening"] = "fit"

ValidateMountConfiguration(c) == c.of["dashboard"]["mounts"] \in {"fit", "moved"}

(* The worker's token is the file the Dashboard mounts.                    *)
ValidateWorkerConfiguration(c) ==
    /\ c.of["assistant-worker"]["environment"] = "fit"
    /\ c.of["assistant-worker"]["ports"] = "fit"
    /\ c.of["assistant-worker"]["mounts"] = c.of["dashboard"]["mounts"]

ValidateSearxngConfiguration(c) ==
    /\ \A f \in Field \ {"mounts"} : c.of["searxng"][f] = "fit"
    /\ c.of["searxng"]["mounts"] \in {"fit", "moved"}

ConfigurationIsValid(c) ==
    /\ ValidateServiceShape(c)
    /\ ValidatePorts(c)
    /\ ValidateEnvironment(c)
    /\ \A s \in {"dashboard", "assistant-worker"} : ValidateSecurityConfiguration(c, s)
    /\ ValidateMountConfiguration(c)
    /\ ValidateWorkerConfiguration(c)
    /\ ValidateSearxngConfiguration(c)

-----------------------------------------------------------------------------
(* Its checks of the ports.                                                *)

Overlaps(l, path, port) == l.port = port /\ l.at \in {path, "any"}

(* The running Dashboard itself has published the endpoint.                *)
OwnBinding(path, port) ==
    /\ deployed["dashboard"] # Unset
    /\ deployed["dashboard"].running
    /\ deployed["dashboard"].of["ports"] = "fit"
    /\ deployed["dashboard"].publish[path] = port

InspectPortConflicts(c) ==
    \A path \in Path : ~\E l \in listeners : ~l.native /\ Overlaps(l, path, c.publish[path])

InspectNativeListeners(c) ==
    \A path \in Path :
        OwnBinding(path, c.publish[path]) \/
            ~\E l \in listeners : l.native /\ Overlaps(l, path, c.publish[path])

-----------------------------------------------------------------------------
(* Its inspection of the containers, against the configuration resolved.   *)

ValidateRuntimeHardening(c) == c.of["hardening"] = "fit"

ValidateDashboardInspection(c, r) ==
    /\ c.running
    /\ ValidateRuntimeHardening(c)
    /\ c.of["ports"] = "fit" /\ c.publish = r.publish
    /\ c.of["environment"] = "fit" /\ c.origin = r.origin
    /\ c.of["network"] = "fit"
    /\ c.of["mounts"] = r.of["dashboard"]["mounts"]

ValidateWorkerInspection(c, r) ==
    /\ c.running
    /\ ValidateRuntimeHardening(c)
    /\ \A f \in {"ports", "environment", "network"} : c.of[f] = "fit"
    /\ c.of["mounts"] = r.of["assistant-worker"]["mounts"]

ValidateSearxngInspection(c, r) ==
    /\ c.running
    /\ \A f \in {"hardening", "ports", "environment", "network"} : c.of[f] = "fit"
    /\ c.of["mounts"] = r.of["searxng"]["mounts"]

-----------------------------------------------------------------------------
Proceed(place) == phase' = place /\ UNCHANGED <<cutover, outcome, image, resolved>>

(* The end of a run.                                                       *)
End(how) ==
    /\ phase' = "idle"
    /\ outcome' = how
    /\ cutover' = FALSE
    /\ image' = Unset
    /\ resolved' = Unset

BeginUpdate(first) ==
    /\ phase = "idle"
    /\ phase' = "before"
    /\ cutover' = first
    /\ audited' = {}
    /\ outcome' = "none"
    /\ stale' = TRUE
    /\ blocked' = FALSE
    /\ UNCHANGED <<aroundVars, image, resolved, deployed>>

(* A preflight resolves the configuration and checks it,                   *)
ResolveConfiguration ==
    /\ phase \in {"before", "check", "after"}
    /\ IF ConfigurationIsValid(config)
       THEN /\ resolved' = config
            /\ phase' = CASE phase = "before" -> "survey before"
                       [] phase = "check" -> "survey"
                       [] phase = "after" -> "survey after"
            /\ UNCHANGED <<cutover, outcome, image>>
       ELSE End("failed")
    /\ UNCHANGED <<aroundVars, audited, deployed, stale, blocked>>

(* then surveys the host for it.  The first one of a run also asks the     *)
(* Dashboard that is to be replaced: on both paths, in a cutover on one.   *)
SurveyHost ==
    /\ phase \in {"survey before", "survey", "survey after"}
    /\ IF /\ ready
          /\ InspectPortConflicts(resolved)
          /\ InspectNativeListeners(resolved)
          /\ phase = "survey before" =>
                \A path \in IF cutover THEN {"tailscale"} ELSE Path :
                    OwnBinding(path, resolved.publish[path])
       THEN Proceed(CASE phase = "survey before" -> "build"
                      [] phase = "survey" -> "searxng"
                      [] phase = "survey after" -> "inspect")
       ELSE End("failed")
    /\ stale' = (config # resolved)
    /\ UNCHANGED <<aroundVars, audited, deployed, blocked>>

(* pull and build: a new image, or the layers of the old one.              *)
Build ==
    /\ phase = "build"
    /\ \/ UNCHANGED tag
       \/ tag < MaxImages /\ tag' = tag + 1
    /\ Proceed("identify")
    /\ UNCHANGED <<config, ready, listeners, changes, audited, deployed, stale, blocked>>

Identify ==
    /\ phase = "identify"
    /\ image' = tag
    /\ phase' = "audit"
    /\ UNCHANGED <<aroundVars, audited, deployed, cutover, resolved, outcome, stale, blocked>>

(* worker-runtime-inspect.mjs: what the image declares and contains, and   *)
(* whether a container of it starts isolated, answers and restarts.        *)
Audit ==
    /\ phase = "audit"
    /\ audited' = audited \cup {image}
    /\ Proceed("check")
    /\ UNCHANGED <<aroundVars, deployed, stale, blocked>>

(* docker compose up: a container as configured now, from the image tagged *)
(* now; one that is so already is only started.                            *)
Configured(s) ==
    [of |-> config.of[s], publish |-> config.publish, origin |-> config.origin,
     image |-> IF s = "assistant-worker" THEN tag ELSE 0, running |-> TRUE]

StartSearxng ==
    /\ phase = "searxng"
    /\ deployed' = [deployed EXCEPT !["searxng"] = Configured("searxng")]
    /\ Proceed("worker")
    /\ UNCHANGED <<aroundVars, audited, stale, blocked>>

StartWorker ==
    /\ phase = "worker"
    /\ deployed' = [deployed EXCEPT !["assistant-worker"] = Configured("assistant-worker")]
    /\ Proceed("compare")
    /\ UNCHANGED <<aroundVars, audited, stale, blocked>>

(* Faulty variant: whatever the tag named when the container was made.     *)
CompareNothing ==
    /\ phase = "compare"
    /\ Proceed("dashboard")
    /\ UNCHANGED <<aroundVars, audited, deployed, stale, blocked>>

CompareImage ==
    /\ phase = "compare"
    /\ IF deployed["assistant-worker"].image = image
       THEN Proceed("dashboard")
       ELSE End("failed")
    /\ UNCHANGED <<aroundVars, audited, deployed, stale, blocked>>

(* --force-recreate: the old container is gone when the new one finds an   *)
(* endpoint taken.                                                         *)
StartDashboard ==
    /\ phase = "dashboard"
    /\ LET taken == \E path \in Path, l \in listeners : Overlaps(l, path, config.publish[path]) IN
       /\ deployed' = [deployed EXCEPT !["dashboard"] =
                           [Configured("dashboard") EXCEPT !.running = ~taken]]
       /\ blocked' = taken
       /\ IF taken THEN End("failed") ELSE Proceed("after")
    /\ UNCHANGED <<aroundVars, audited, stale>>

InspectDeployed ==
    /\ phase = "inspect"
    /\ IF /\ ValidateDashboardInspection(deployed["dashboard"], resolved)
          /\ ValidateWorkerInspection(deployed["assistant-worker"], resolved)
          /\ ValidateSearxngInspection(deployed["searxng"], resolved)
       THEN Proceed("probe")
       ELSE End("failed")
    /\ UNCHANGED <<aroundVars, audited, deployed, stale, blocked>>

(* probeBoth, until both paths answer or 30 seconds have passed.           *)
ProbeBoth ==
    /\ phase = "probe"
    /\ IF \A path \in Path : OwnBinding(path, resolved.publish[path])
       THEN End("succeeded")
       ELSE End("failed")
    /\ UNCHANGED <<aroundVars, audited, deployed, stale, blocked>>

(* "set -e": any command that fails ends the run.                          *)
CommandFails ==
    /\ phase # "idle"
    /\ End("failed")
    /\ UNCHANGED <<aroundVars, audited, deployed, stale, blocked>>

-----------------------------------------------------------------------------
(* What others do meanwhile.                                               *)

Change == changes < MaxChanges /\ changes' = changes + 1

EditConfiguration ==
    /\ Change
    /\ \/ \E s \in Service, f \in Field, v \in {"fit", "moved", "unfit"} :
             /\ v = "moved" => f = "mounts"
             /\ config' = [config EXCEPT !.of[s][f] = v]
       \/ \E v \in {"fit", "moved"} :
             config' = [config EXCEPT !.of["dashboard"]["mounts"] = v,
                                      !.of["assistant-worker"]["mounts"] = v]
       \/ \E path \in Path, port \in Port :
             config' = [config EXCEPT !.publish[path] = port, !.origin[path] = port]
    /\ stale' = TRUE
    /\ UNCHANGED <<ready, tag, listeners, audited, deployed, updateVars, blocked>>

(* A certificate expires or is renewed, an interface goes, a rule changes. *)
HostChanges ==
    /\ Change
    /\ ready' = ~ready
    /\ UNCHANGED <<config, tag, listeners, audited, deployed, updateVars, stale, blocked>>

BuildElsewhere ==
    /\ Change
    /\ tag < MaxImages
    /\ tag' = tag + 1
    /\ UNCHANGED <<config, ready, listeners, audited, deployed, updateVars, stale, blocked>>

(* No two programs listen at one endpoint.                                 *)
Listens(l) ==
    /\ Change
    /\ ~\E path \in Path : OwnBinding(path, l.port) /\ l.at \in {path, "any"}
    /\ listeners' = listeners \cup {l}
    /\ stale' = TRUE
    /\ UNCHANGED <<config, ready, tag, audited, deployed, updateVars, blocked>>

ContainerStops(s) ==
    /\ Change
    /\ deployed[s] # Unset
    /\ deployed' = [deployed EXCEPT ![s].running = FALSE]
    /\ stale' = TRUE
    /\ UNCHANGED <<config, ready, tag, listeners, audited, updateVars, blocked>>

DeployNext ==
    \/ \E first \in BOOLEAN : BeginUpdate(first)
    \/ ResolveConfiguration
    \/ SurveyHost
    \/ Build
    \/ Identify
    \/ Audit
    \/ StartSearxng
    \/ StartWorker
    \/ CompareImage
    \/ StartDashboard
    \/ InspectDeployed
    \/ ProbeBoth
    \/ CommandFails
    \/ EditConfiguration
    \/ HostChanges
    \/ BuildElsewhere
    \/ \E l \in Listener : Listens(l)
    \/ \E s \in Service : ContainerStops(s)

DeploySpec == DeployInit /\ [][DeployNext]_deployVars

-----------------------------------------------------------------------------
(* Until the next update, and from the moment the Dashboard is replaced,   *)
(* the worker that runs is of an image that passed the audit, whoever      *)
(* built what in between.                                                  *)
AuditedWorkerRuns ==
    phase \in {"dashboard", "after", "survey after", "inspect", "probe"} \/ outcome = "succeeded" =>
        deployed["assistant-worker"].image \in audited

(* After a successful update nothing that runs was started from a          *)
(* configuration the preflight would refuse, although it was edited        *)
(* between the checks and the starts.  This is what the inspection is for; *)
(* it does not look at what a container is started with.                   *)
DeployedAsRequired ==
    outcome = "succeeded" =>
        /\ \A s \in Service, f \in Inspected : deployed[s].of[f] # "unfit"
        /\ deployed["dashboard"].publish = deployed["dashboard"].origin
        /\ deployed["assistant-worker"].of["mounts"] = deployed["dashboard"].of["mounts"]

(* The Dashboard is lost to a port conflict only when the conflict, or the *)
(* configuration, is newer than the survey.                                *)
SurveyedPortsAreFree == blocked => stale

DeploymentInv ==
    /\ DeployTypeOK
    /\ AuditedWorkerRuns
    /\ DeployedAsRequired
    /\ SurveyedPortsAreFree
=============================================================================
