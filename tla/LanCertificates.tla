--------------------------- MODULE LanCertificates ---------------------------
(***************************************************************************)
(* The LAN certificates (scripts/lan-certificates.py).  On a laptop, issue *)
(* makes a CA once, pins the Server's address beside it, and publishes one *)
(* bundle of certificate, key and CA after another.  On the Server,        *)
(* install copies a bundle file by file from a directory its user may      *)
(* write meanwhile, validates the copy and exchanges it for the installed  *)
(* directory in one rename.  flock allows one issue for each laptop's      *)
(* state and one install at a time; each can be interrupted at any step.   *)
(***************************************************************************)
EXTENDS Naturals

CONSTANTS
    Laptop,     \* the state directories certificates are issued from
    IP,         \* the Server's addresses
    MaxCas,     \* CAs made
    MaxLeaves,  \* leaf certificates issued
    Missing

ASSUME LanAssumption ==
    /\ MaxCas \in Nat
    /\ MaxLeaves \in Nat
    /\ Missing \notin IP
    /\ Missing \notin Nat

Ca == 1..MaxCas
Leaf == [number : 1..MaxLeaves, ca : Ca, address : IP, from : Laptop]

VARIABLES
    ca,         \* the CA in each laptop's state
    pin,        \* the address pinned beside it
    leftover,   \* a half-made CA lies in the state directory
    cas,        \* the CAs made so far
    leaves,     \* the leaf certificates issued so far
    bundles,    \* the bundles published
    public,     \* the CA file each laptop offers to its devices
    issuing,    \* the step the issue has come to, and its address
    installed,  \* /var/lib/voidstation/lan-tls: the files' origins
    staging,    \* the install's private copy
    installing  \* the step the install has come to, its address, --replace-ca

issueVars == <<ca, pin, leftover, cas, leaves, bundles, public, issuing>>
installVars == <<installed, staging, installing>>
lanVars == <<issueVars, installVars>>

Files == [cert : Leaf \cup {Missing}, key : Leaf \cup {Missing}, ca : Ca \cup {Missing}]
NoFiles == [cert |-> Missing, key |-> Missing, ca |-> Missing]
NoInstall == [at |-> "idle", address |-> Missing, replace |-> FALSE]

LanTypeOK ==
    /\ ca \in [Laptop -> Ca \cup {Missing}]
    /\ pin \in [Laptop -> IP \cup {Missing}]
    /\ leftover \in [Laptop -> BOOLEAN]
    /\ cas \in 0..MaxCas
    /\ leaves \in 0..MaxLeaves
    /\ bundles \subseteq Leaf
    /\ public \in [Laptop -> Ca \cup {Missing}]
    /\ issuing \in [Laptop -> [at : {"idle", "create", "pin", "publish", "public"},
                               address : IP \cup {Missing}]]
    /\ installed \in Files
    /\ staging \in Files
    /\ installing \in [at : {"idle", "ca", "cert", "key", "exchange"},
                       address : IP \cup {Missing}, replace : BOOLEAN]

LanInit ==
    /\ ca = [l \in Laptop |-> Missing]
    /\ pin = [l \in Laptop |-> Missing]
    /\ leftover = [l \in Laptop |-> FALSE]
    /\ cas = 0
    /\ leaves = 0
    /\ bundles = {}
    /\ public = [l \in Laptop |-> Missing]
    /\ issuing = [l \in Laptop |-> [at |-> "idle", address |-> Missing]]
    /\ installed = NoFiles
    /\ staging = NoFiles
    /\ installing = NoInstall

-----------------------------------------------------------------------------
IssueGo(l, place) == issuing' = [issuing EXCEPT ![l].at = place]

(* An existing CA is used only with its pinned address, and an incomplete  *)
(* state is never completed by a guess: both fail before anything changes. *)
Issue(l, a) ==
    /\ issuing[l].at = "idle"
    /\ \/ ca[l] # Missing /\ pin[l] = a /\ issuing' = [issuing EXCEPT ![l] = [at |-> "publish", address |-> a]]
       \/ /\ ca[l] = Missing
          /\ pin[l] = Missing
          /\ ~leftover[l]
          /\ issuing' = [issuing EXCEPT ![l] = [at |-> "create", address |-> a]]
    /\ UNCHANGED <<ca, pin, leftover, cas, leaves, bundles, public, installVars>>

CreateCa(l) ==
    /\ issuing[l].at = "create"
    /\ cas < MaxCas
    /\ cas' = cas + 1
    /\ ca' = [ca EXCEPT ![l] = cas']
    /\ IssueGo(l, "pin")
    /\ UNCHANGED <<pin, leftover, leaves, bundles, public, installVars>>

WritePin(l) ==
    /\ issuing[l].at = "pin"
    /\ pin' = [pin EXCEPT ![l] = issuing[l].address]
    /\ IssueGo(l, "publish")
    /\ UNCHANGED <<ca, leftover, cas, leaves, bundles, public, installVars>>

(* The bundle is validated where it is made and renamed into place.        *)
PublishBundle(l) ==
    /\ issuing[l].at = "publish"
    /\ leaves < MaxLeaves
    /\ leaves' = leaves + 1
    /\ bundles' = bundles \cup
          {[number |-> leaves', ca |-> ca[l], address |-> issuing[l].address, from |-> l]}
    /\ IssueGo(l, "public")
    /\ UNCHANGED <<ca, pin, leftover, cas, public, installVars>>

PublishCa(l) ==
    /\ issuing[l].at = "public"
    /\ public' = [public EXCEPT ![l] = ca[l]]
    /\ issuing' = [issuing EXCEPT ![l] = [at |-> "idle", address |-> Missing]]
    /\ UNCHANGED <<ca, pin, leftover, cas, leaves, bundles, installVars>>

(* Ctrl-C removes the temporary directory; a killed process leaves it.     *)
IssueInterrupted(l) ==
    /\ issuing[l].at # "idle"
    /\ \/ UNCHANGED leftover
       \/ issuing[l].at = "create" /\ leftover' = [leftover EXCEPT ![l] = TRUE]
    /\ issuing' = [issuing EXCEPT ![l] = [at |-> "idle", address |-> Missing]]
    /\ UNCHANGED <<ca, pin, cas, leaves, bundles, public, installVars>>

-----------------------------------------------------------------------------
(* validate_bundle: the certificate is signed by the CA beside it, made    *)
(* for the address, and made with the key beside it.                       *)
Valid(files, a) ==
    /\ files.cert # Missing
    /\ files.key = files.cert
    /\ files.ca = files.cert.ca
    /\ files.cert.address = a

Install(a, replace) ==
    /\ installing.at = "idle"
    /\ installed # NoFiles => Valid(installed, a)
    /\ staging' = NoFiles
    /\ installing' = [at |-> "ca", address |-> a, replace |-> replace]
    /\ UNCHANGED <<issueVars, installed>>

(* copy_bundle_snapshot.  Each file may come from another bundle: the      *)
(* directory copied from can be written while it is copied.                *)
CopyFile(b) ==
    /\ \/ /\ installing.at = "ca"
          /\ staging' = [staging EXCEPT !.ca = b.ca]
          /\ installing' = [installing EXCEPT !.at = "cert"]
       \/ /\ installing.at = "cert"
          /\ staging' = [staging EXCEPT !.cert = b]
          /\ installing' = [installing EXCEPT !.at = "key"]
       \/ /\ installing.at = "key"
          /\ staging' = [staging EXCEPT !.key = b]
          /\ installing' = [installing EXCEPT !.at = "exchange"]
    /\ UNCHANGED <<issueVars, installed>>

(* rename_exchange, or the first rename; the same bundle again is left     *)
(* alone, and a CA is replaced only on request.                            *)
Exchange ==
    /\ installing.at = "exchange"
    /\ installing' = NoInstall
    /\ staging' = NoFiles
    /\ IF Valid(staging, installing.address)
          /\ (installed = NoFiles \/ installed.ca = staging.ca \/ installing.replace)
       THEN installed' = staging
       ELSE UNCHANGED installed
    /\ UNCHANGED issueVars

InstallInterrupted ==
    /\ installing.at # "idle"
    /\ installing' = NoInstall
    /\ staging' = NoFiles
    /\ UNCHANGED <<issueVars, installed>>

LanNext ==
    \/ \E l \in Laptop :
          \/ \E a \in IP : Issue(l, a)
          \/ CreateCa(l)
          \/ WritePin(l)
          \/ PublishBundle(l)
          \/ PublishCa(l)
          \/ IssueInterrupted(l)
    \/ \E a \in IP, replace \in BOOLEAN : Install(a, replace)
    \/ \E b \in bundles : CopyFile(b)
    \/ Exchange
    \/ InstallInterrupted

LanSpec == LanInit /\ [][LanNext]_lanVars

-----------------------------------------------------------------------------
(* All bundles of a laptop are of one CA and for one address, whatever was *)
(* interrupted and retried with what: a device that trusts the CA once     *)
(* offered trusts every later certificate.                                 *)
OneCaPerState ==
    /\ \A b \in bundles : b.ca = ca[b.from] /\ b.address = pin[b.from]
    /\ \A l \in Laptop : public[l] \in {Missing, ca[l]}
    /\ \A l, m \in Laptop : l # m /\ ca[l] # Missing => ca[l] # ca[m]

(* The preflight of an update: key and certificate match, the certificate  *)
(* is no CA and is for the address, and the CA beside it has signed it.    *)
ValidateLanCertificate(a) ==
    /\ installed.cert # Missing
    /\ installed.cert.address = a
    /\ installed.ca = installed.cert.ca
    /\ installed.key = installed.cert

(* What is installed was published as one bundle and passes the preflight  *)
(* at every moment, although it is copied file by file from a directory    *)
(* that may change meanwhile.                                              *)
InstalledIsWhole ==
    installed # NoFiles =>
        /\ installed.cert \in bundles
        /\ ValidateLanCertificate(installed.cert.address)

LanInv == LanTypeOK /\ OneCaPerState /\ InstalledIsWhole
=============================================================================
