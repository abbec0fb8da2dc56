---------------------------- MODULE Certificates ----------------------------
(***************************************************************************)
(* The Tailscale certificate of the Dashboard: the root script that        *)
(* provisions and renews it (scripts/host/voidstation-renew-certificate.sh) *)
(* and the HTTPS server that reads it once, when it starts                 *)
(* (scripts/https-server.mjs).  The daily timer and the owner both run the *)
(* script, under one lock; a run can be interrupted between any two steps. *)
(* Certificate and key are two files, so that an interruption can leave a  *)
(* pair that does not match; a marker file says that the Dashboard has yet *)
(* to be restarted with what has been installed.                           *)
(***************************************************************************)
EXTENDS Naturals

CONSTANTS
    Runner,         \* who runs the script
    Timer,          \* the daily timer among them, which never provisions
    MaxIssued,      \* certificates issued
    MaxContainers,  \* Dashboard containers created
    MaxFaults,      \* interruptions and failed commands
    Nothing

ASSUME CertificateAssumption ==
    /\ Timer \in Runner
    /\ MaxIssued \in Nat \ {0}
    /\ MaxContainers \in Nat \ {0}
    /\ MaxFaults \in Nat
    /\ Nothing \notin Nat \cup Runner

(* A pair is the number of its issue; 0 stands for a file not yet there.   *)
Pair == 1..MaxIssued
Container == 1..MaxContainers

VARIABLES
    cert, key,      \* the pairs the two installed files belong to
    issued,         \* the pairs issued so far
    age,            \* how far each pair has come: fresh, due (< 30 days), expired
    marker,         \* .restart-pending
    lock,           \* who holds .renew.lock
    at,             \* the step each run has come to
    provisioning,   \* the run is --provision
    selected,       \* the Dashboard container it will restart
    candidate,      \* the pair it has been issued
    container,      \* the newest Dashboard container
    server,         \* its HTTPS server: down, starting, up
    readCert,       \* the certificate it has read so far
    serves,         \* the pair it serves
    uncut,          \* a pair was provisioned since: its cutover is the owner's
    faults

certVars == <<cert, key, issued, age, marker, lock, at, provisioning, selected, candidate,
              container, server, readCert, serves, uncut, faults>>
runVars == <<lock, at, provisioning, selected, candidate>>
serverVars == <<container, server, readCert, serves, uncut>>
fileVars == <<cert, key, issued, age>>

Place == {"idle", "lock", "decide", "restart pending", "unmark pending", "check", "issue",
          "select", "mark", "cert", "key", "restart", "unmark"}

CertTypeOK ==
    /\ cert \in 0..MaxIssued
    /\ key \in 0..MaxIssued
    /\ issued \in 0..MaxIssued
    /\ age \in [Pair -> {"fresh", "due", "expired"}]
    /\ marker \in BOOLEAN
    /\ lock \in Runner \cup {Nothing}
    /\ at \in [Runner -> Place]
    /\ provisioning \in [Runner -> BOOLEAN]
    /\ selected \in [Runner -> Container \cup {Nothing}]
    /\ candidate \in [Runner -> Pair \cup {Nothing}]
    /\ container \in Container
    /\ server \in {"down", "starting", "up"}
    /\ readCert \in 0..MaxIssued
    /\ serves \in 0..MaxIssued
    /\ uncut \in BOOLEAN
    /\ faults \in 0..MaxFaults

CertInit ==
    /\ \E p \in {0, 1} : cert = p /\ key = p /\ issued = p
    /\ age = [p \in Pair |-> "fresh"]
    /\ marker = FALSE
    /\ lock = Nothing
    /\ at = [r \in Runner |-> "idle"]
    /\ provisioning = [r \in Runner |-> FALSE]
    /\ selected = [r \in Runner |-> Nothing]
    /\ candidate = [r \in Runner |-> Nothing]
    /\ container = 1
    /\ server = "down"
    /\ readCert = 0
    /\ serves = 0
    /\ uncut = FALSE
    /\ faults = 0

-----------------------------------------------------------------------------
Running == server # "down"

(* certificate_matches of the installed files.                             *)
Matches == cert # 0 /\ cert = key /\ age[cert] # "expired"

Go(r, place) == at' = [at EXCEPT ![r] = place]

(* A run that ends or is interrupted leaves everything but its own         *)
(* temporary files, and its lock goes with it.                             *)
Leave(r) ==
    /\ Go(r, "idle")
    /\ lock' = IF lock = r THEN Nothing ELSE lock
    /\ selected' = [selected EXCEPT ![r] = Nothing]
    /\ candidate' = [candidate EXCEPT ![r] = Nothing]

Begin(r, provision) ==
    /\ at[r] = "idle"
    /\ provision => r # Timer
    /\ Go(r, "lock")
    /\ provisioning' = [provisioning EXCEPT ![r] = provision]
    /\ UNCHANGED <<fileVars, marker, lock, selected, candidate, serverVars, faults>>

Acquire(r) ==
    /\ at[r] = "lock"
    /\ lock = Nothing
    /\ lock' = r
    /\ Go(r, IF provisioning[r] THEN "issue" ELSE "decide")
    /\ UNCHANGED <<fileVars, marker, provisioning, selected, candidate, serverVars, faults>>

(* select_restart_target: at most one running Dashboard container.         *)
SelectTarget(r) ==
    selected' = [selected EXCEPT ![r] = IF Running THEN container ELSE Nothing]

(* Faulty variant: the obligation is not looked at.                        *)
DecideByAge(r) ==
    /\ at[r] = "decide"
    /\ Go(r, "check")
    /\ UNCHANGED <<fileVars, marker, lock, provisioning, selected, candidate, serverVars, faults>>

Decide(r) ==
    /\ at[r] = "decide"
    /\ IF marker /\ Matches
       THEN SelectTarget(r) /\ Go(r, "restart pending")
       ELSE Go(r, "check") /\ UNCHANGED selected
    /\ UNCHANGED <<fileVars, marker, lock, provisioning, candidate, serverVars, faults>>

Check(r) ==
    /\ at[r] = "check"
    /\ IF Matches /\ age[cert] = "fresh"
       THEN Leave(r)
       ELSE Go(r, "issue") /\ UNCHANGED <<lock, selected, candidate>>
    /\ UNCHANGED <<fileVars, marker, provisioning, serverVars, faults>>

(* tailscale cert --min-validity: a new pair, or the newest one again.     *)
Obtain(r) ==
    /\ at[r] = "issue"
    /\ \/ issued < MaxIssued /\ issued' = issued + 1
       \/ issued > 0 /\ age[issued] = "fresh" /\ UNCHANGED issued
    /\ candidate' = [candidate EXCEPT ![r] = issued']
    /\ Go(r, IF provisioning[r] THEN "cert" ELSE "select")
    /\ UNCHANGED <<cert, key, age, marker, lock, provisioning, selected, serverVars, faults>>

(* Faulty variant: no obligation is recorded.                              *)
SelectUnmarked(r) ==
    /\ at[r] = "select"
    /\ SelectTarget(r)
    /\ Go(r, "cert")
    /\ UNCHANGED <<fileVars, marker, lock, provisioning, candidate, serverVars, faults>>

Select(r) ==
    /\ at[r] = "select"
    /\ SelectTarget(r)
    /\ Go(r, "mark")
    /\ UNCHANGED <<fileVars, marker, lock, provisioning, candidate, serverVars, faults>>

(* "Record the obligation before replacement."                             *)
Mark(r) ==
    /\ at[r] = "mark"
    /\ marker' = TRUE
    /\ Go(r, "cert")
    /\ UNCHANGED <<fileVars, lock, provisioning, selected, candidate, serverVars, faults>>

InstallCert(r) ==
    /\ at[r] = "cert"
    /\ cert' = candidate[r]
    /\ uncut' = (uncut \/ provisioning[r])
    /\ Go(r, "key")
    /\ UNCHANGED <<key, issued, age, marker, lock, provisioning, selected, candidate,
                   container, server, readCert, serves, faults>>

InstallKey(r) ==
    /\ at[r] = "key"
    /\ key' = candidate[r]
    /\ IF provisioning[r] THEN Leave(r) ELSE Go(r, "restart") /\ UNCHANGED <<lock, selected, candidate>>
    /\ UNCHANGED <<cert, issued, age, marker, provisioning, serverVars, faults>>

(* restart_selected_dashboard.  A container that has been removed cannot   *)
(* be restarted; one that has only stopped is started.                     *)
Restart(r) ==
    /\ at[r] \in {"restart", "restart pending"}
    /\ IF selected[r] = Nothing
       THEN /\ IF at[r] = "restart" THEN Leave(r)
                                    ELSE Go(r, "check") /\ UNCHANGED <<lock, selected, candidate>>
            /\ UNCHANGED serverVars
       ELSE IF selected[r] # container
       THEN Leave(r) /\ UNCHANGED serverVars
       ELSE /\ Go(r, IF at[r] = "restart" THEN "unmark" ELSE "unmark pending")
            /\ server' = "starting"
            /\ readCert' = 0
            /\ serves' = 0
            /\ uncut' = FALSE
            /\ UNCHANGED <<container, lock, selected, candidate>>
    /\ UNCHANGED <<fileVars, marker, provisioning, faults>>

Unmark(r) ==
    /\ at[r] \in {"unmark", "unmark pending"}
    /\ marker' = FALSE
    /\ IF at[r] = "unmark" THEN Leave(r)
                           ELSE Go(r, "check") /\ UNCHANGED <<lock, selected, candidate>>
    /\ UNCHANGED <<fileVars, provisioning, serverVars, faults>>

(* A signal, the unit's time limit, a failing command, or no lock within   *)
(* 30 seconds.                                                             *)
Interrupted(r) ==
    /\ at[r] # "idle"
    /\ faults < MaxFaults
    /\ faults' = faults + 1
    /\ Leave(r)
    /\ UNCHANGED <<fileVars, marker, provisioning, serverVars>>

RunStep(r) ==
    \/ Acquire(r) \/ Decide(r) \/ Check(r) \/ Obtain(r) \/ Select(r) \/ Mark(r)
    \/ InstallCert(r) \/ InstallKey(r) \/ Restart(r) \/ Unmark(r)

-----------------------------------------------------------------------------
(* The server reads its certificate, then its key, and does not start with *)
(* a pair that does not match.                                             *)

ReadCertificate ==
    /\ server = "starting"
    /\ readCert = 0
    /\ IF cert = 0
       THEN server' = "down" /\ UNCHANGED readCert
       ELSE readCert' = cert /\ UNCHANGED server
    /\ UNCHANGED <<fileVars, marker, runVars, container, serves, uncut, faults>>

ReadKey ==
    /\ server = "starting"
    /\ readCert # 0
    /\ IF readCert = key
       THEN server' = "up" /\ serves' = key
       ELSE server' = "down" /\ UNCHANGED serves
    /\ readCert' = 0
    /\ UNCHANGED <<fileVars, marker, runVars, container, uncut, faults>>

(* docker compose up, or the restart policy after a failed start; a forced *)
(* recreation removes the container and creates another.                   *)
ServerStarts ==
    /\ \/ server = "down" /\ UNCHANGED container
       \/ container < MaxContainers /\ container' = container + 1
    /\ server' = "starting"
    /\ readCert' = 0
    /\ serves' = 0
    /\ uncut' = FALSE
    /\ UNCHANGED <<fileVars, marker, runVars, faults>>

ServerStops ==
    /\ Running
    /\ faults < MaxFaults
    /\ faults' = faults + 1
    /\ server' = "down"
    /\ readCert' = 0
    /\ serves' = 0
    /\ UNCHANGED <<fileVars, marker, runVars, container, uncut>>

(* The newest pair grows old only while another can be issued: the bound   *)
(* on pairs must not stop the renewals.                                    *)
PairAges ==
    /\ \E p \in 1..issued :
          /\ p < MaxIssued
          /\ age[p] # "expired"
          /\ age' = [age EXCEPT ![p] = IF @ = "fresh" THEN "due" ELSE "expired"]
    /\ UNCHANGED <<cert, key, issued, marker, runVars, serverVars, faults>>

CertNext ==
    \/ \E r \in Runner :
          \/ \E provision \in BOOLEAN : Begin(r, provision)
          \/ RunStep(r)
          \/ Interrupted(r)
    \/ ReadCertificate
    \/ ReadKey
    \/ ServerStarts
    \/ ServerStops
    \/ PairAges

CertSpec == CertInit /\ [][CertNext]_certVars

-----------------------------------------------------------------------------
(* Without a marker the Dashboard serves what is installed, during a run   *)
(* or after one: no interruption makes new files look healthy while an old *)
(* certificate is served.  Only a pair provisioned before its cutover is   *)
(* exempt.                                                                 *)
ServesWhatIsInstalled ==
    ~marker /\ ~uncut /\ server = "up" => serves = cert /\ serves = key

(* The files are written under the lock, and only there.                   *)
OneRunAtATime ==
    \A r \in Runner : at[r] \notin {"idle", "lock"} => lock = r

CertInv == CertTypeOK /\ OneRunAtATime

(* The preflight of an update accepts the installed pair.                  *)
ValidateCertificate == cert # 0 /\ cert = key /\ age[cert] # "expired"

(* A pair that is missing, mismatched or expired is replaced, and a due    *)
(* restart carried out, by the timer if by nobody else.                    *)
PairIsRepaired == ~ValidateCertificate ~> ValidateCertificate
RestartIsMade == (marker /\ Running) ~> (~marker \/ ~Running)
=============================================================================
