---------------------------- MODULE HostUpgrade ----------------------------
(***************************************************************************)
(* What an upgrade of the host goes through: the deployment of another     *)
(* version, the opening of the database an older version wrote, a model    *)
(* chosen under another build, the firewall's rules and the LAN            *)
(* certificates.  The parts share no state, so that interleaving them      *)
(* shows nothing: each behaviour is one part's, and part says whose.       *)
(***************************************************************************)
EXTENDS ConversationTimeline, LanCertificates, Ingress, Deployment, AssistantSettings

VARIABLE part

upgradeVars == <<vars, lanVars, ingressVars, deployVars, settingsVars>>

UpgradeInit ==
    /\ part \in {"timeline", "lan", "ingress", "update", "settings"}
    /\ Init /\ (part # "timeline" => turn = 0)
    /\ LanInit
    /\ IngressInit /\ (part # "ingress" => user = Absent)
    /\ DeployInit
    /\ config.publish = [path \in Path |-> CHOOSE port \in Port : TRUE]
    /\ part # "update" => \A s \in Service : deployed[s] = Unset
    /\ SettingsInit /\ (part # "settings" => offered = CHOOSE build \in WorkerBuild : TRUE)

Only(p) ==
    /\ part = p
    /\ part' = p
    /\ p # "timeline" => UNCHANGED vars
    /\ p # "lan" => UNCHANGED lanVars
    /\ p # "ingress" => UNCHANGED ingressVars
    /\ p # "update" => UNCHANGED deployVars
    /\ p # "settings" => UNCHANGED settingsVars

UpgradeNext ==
    \/ Only("timeline") /\ Next
    \/ Only("lan") /\ LanNext
    \/ Only("ingress") /\ IngressNext
    \/ Only("update") /\ DeployNext
    \/ Only("settings") /\ SettingsNext

UpgradeSpec == UpgradeInit /\ [][UpgradeNext]_<<part, upgradeVars>>

(* The invariants of the parts that change the host and of the settings:   *)
(* see LanCertificates, Ingress, Deployment and AssistantSettings.         *)
UpgradeInv ==
    /\ LanInv
    /\ IngressInv
    /\ DeploymentInv
    /\ SettingsInv
=============================================================================
