---------------------------- MODULE HostServices ----------------------------
(***************************************************************************)
(* What runs by itself beside the Assistant and the Dashboard: the media   *)
(* tools' processes, the web tools' requests, the renewal of the           *)
(* certificate and the status file.  The parts share no state, so that     *)
(* interleaving them shows nothing: each behaviour is one part's, and part *)
(* says whose.                                                             *)
(***************************************************************************)
EXTENDS MediaTools, WebTools, Certificates, HostStatus

VARIABLE part

hostVars == <<mediaVars, webVars, certVars, statusVars>>

HostInit ==
    /\ part \in {"media", "web", "certificates", "status"}
    /\ MediaInit /\ (part # "media" => tool = [c \in Call |-> "look"])
    /\ WebInit
    /\ CertInit /\ (part # "certificates" => cert = 1)
    /\ StatusInit

Only(p) ==
    /\ part = p
    /\ part' = p
    /\ p # "media" => UNCHANGED mediaVars
    /\ p # "web" => UNCHANGED webVars
    /\ p # "certificates" => UNCHANGED certVars
    /\ p # "status" => UNCHANGED statusVars

HostNext ==
    \/ Only("media") /\ MediaNext
    \/ Only("web") /\ WebNext
    \/ Only("certificates") /\ CertNext
    \/ Only("status") /\ StatusNext

HostSpec == HostInit /\ [][HostNext]_<<part, hostVars>>

FairHostSpec ==
    /\ HostSpec
    /\ \A c \in Call : WF_mediaVars(MediaStep(c) /\ Only("media"))
    /\ \A f \in Fetch : WF_webVars(DeadlinePasses(f) /\ Only("web"))
    /\ \A r \in Runner : WF_certVars(RunStep(r) /\ Only("certificates"))
    /\ WF_certVars(Begin(Timer, FALSE) /\ Only("certificates"))
    /\ SF_certVars(Acquire(Timer) /\ Only("certificates"))
    /\ WF_certVars(ReadCertificate /\ Only("certificates"))
    /\ WF_certVars(ReadKey /\ Only("certificates"))

(* The invariants of the four parts.                                       *)
HostInv ==
    /\ MediaInv
    /\ WebInv
    /\ CertInv
    /\ StatusInv

(* What goes on whatever the parts meet: tool calls and page reads are     *)
(* answered, and the renewal repairs the certificate and makes a restart   *)
(* that is due.                                                            *)
HostProgress ==
    /\ CallsSettle
    /\ ReadsSettle
    /\ PairIsRepaired
    /\ RestartIsMade
=============================================================================
