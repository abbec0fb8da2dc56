------------------------------- MODULE Ingress -------------------------------
(***************************************************************************)
(* The firewall policy in front of the containers                          *)
(* (scripts/host/voidstation-ingress.sh).  The script reads three chains,  *)
(* decides from what it read, and then gives one iptables command after    *)
(* another; each can fail, and nothing keeps a second run, or Docker, from *)
(* changing the chains in between.  A packet for a container goes through  *)
(* FORWARD, from there to DOCKER-USER, and from there to VOIDSTATION.      *)
(***************************************************************************)
EXTENDS Naturals, Sequences

CONSTANTS
    IngressRun,     \* the unit, the owner
    Rules,          \* the number of rules of VOIDSTATION, the last a DROP
    MaxUserRules,   \* bound on DOCKER-USER
    Absent

ASSUME IngressAssumption ==
    /\ Rules \in Nat \ {0}
    /\ MaxUserRules \in Nat
    /\ Absent \notin Nat
    /\ Absent \notin Seq({"hook", "legacy", "other"})

VARIABLES
    forward,    \* FORWARD: "jump" to DOCKER-USER, or an "other" rule that accepts
    user,       \* DOCKER-USER, Absent when absent: "hook", "legacy", or an "other" too
    chain,      \* the rules of VOIDSTATION so far, Absent when absent
    seen,       \* what each run has read of the three
    next,       \* the command each run has come to
    mode        \* apply, check, migrate

ingressVars == <<forward, user, chain, seen, next, mode>>
chains == <<forward, user, chain>>

Places == {"idle", "read user", "read forward", "read chain", "decide", "new chain", "rules",
           "new user", "hook", "legacy", "jump"}
Unread == [forward |-> <<>>, user |-> Absent, chain |-> Absent]

(* The chains a host starts with: nothing, what Docker made, or the rule   *)
(* of the earlier deployment.                                              *)
UserChains == {Absent, <<>>, <<"legacy">>, <<"other", "legacy">>}

Seen == [forward : Seq({"jump", "other"}),
         user : Seq({"hook", "legacy", "other"}) \cup {Absent},
         chain : 0..Rules \cup {Absent}]

IngressTypeOK ==
    /\ forward \in Seq({"jump", "other"})
    /\ user \in Seq({"hook", "legacy", "other"}) \cup {Absent}
    /\ chain \in 0..Rules \cup {Absent}
    /\ seen \in [IngressRun -> Seen]
    /\ next \in [IngressRun -> Places]
    /\ mode \in [IngressRun -> {"apply", "check", "migrate"}]

IngressInit ==
    /\ user \in UserChains
    /\ forward = IF user = Absent THEN <<"other">> ELSE <<"jump", "other">>
    /\ chain = Absent
    /\ seen = [r \in IngressRun |-> Unread]
    /\ next = [r \in IngressRun |-> "idle"]
    /\ mode = [r \in IngressRun |-> "apply"]

-----------------------------------------------------------------------------
Present(rule, rules) == \E i \in DOMAIN rules : rules[i] = rule
PresentOnce(rule, rules) ==
    \E i \in DOMAIN rules : \A j \in DOMAIN rules : rules[j] = rule <=> j = i
Rule(rules) == IF rules = Absent THEN <<>> ELSE rules
HookMissing(r) == ~Present("hook", Rule(seen[r].user))
LegacyPresent(r) == Present("legacy", Rule(seen[r].user))
JumpMissing(r) == ~Present("jump", seen[r].forward)

(* The states the script works on; of any other it refuses to change a     *)
(* rule.                                                                   *)
Understood(r) ==
    LET u == Rule(seen[r].user) IN
    /\ seen[r].chain \in {Absent, Rules}
    /\ JumpMissing(r) \/ (PresentOnce("jump", seen[r].forward) /\ seen[r].forward[1] = "jump")
    /\ HookMissing(r) \/ (PresentOnce("hook", u) /\ u[1] = "hook")
    /\ LegacyPresent(r) => mode[r] = "migrate" /\ PresentOnce("legacy", u)

IsAt(r, place) == next[r] = place
Goto(r, place) == next' = [next EXCEPT ![r] = place] /\ UNCHANGED <<seen, mode>>

(* The end of a run, good or bad.                                          *)
EndRun(r) ==
    /\ next' = [next EXCEPT ![r] = "idle"]
    /\ seen' = [seen EXCEPT ![r] = Unread]
    /\ mode' = [mode EXCEPT ![r] = "apply"]

StartIngress(r, m) ==
    /\ IsAt(r, "idle")
    /\ mode' = [mode EXCEPT ![r] = m]
    /\ next' = [next EXCEPT ![r] = "read user"]
    /\ UNCHANGED <<chains, seen>>

ReadChains(r) ==
    /\ \/ /\ IsAt(r, "read user")
          /\ seen' = [seen EXCEPT ![r] = [Unread EXCEPT !.user = user]]
          /\ next' = [next EXCEPT ![r] = "read forward"]
       \/ /\ IsAt(r, "read forward")
          /\ seen' = [seen EXCEPT ![r].forward = forward]
          /\ next' = [next EXCEPT ![r] = "read chain"]
       \/ /\ IsAt(r, "read chain")
          /\ seen' = [seen EXCEPT ![r].chain = chain]
          /\ next' = [next EXCEPT ![r] = "decide"]
    /\ UNCHANGED <<chains, mode>>

Assess(r) ==
    /\ IsAt(r, "decide")
    /\ IF ~Understood(r) \/ mode[r] = "check"
       THEN EndRun(r)
       ELSE Goto(r, IF seen[r].chain = Absent THEN "new chain" ELSE "new user")
    /\ UNCHANGED chains

(* Faulty variant: connected before it is built.                           *)
NewChainUnfilled(r) ==
    /\ IsAt(r, "new chain")
    /\ chain = Absent
    /\ chain' = 0
    /\ Goto(r, "new user")
    /\ UNCHANGED <<forward, user>>

(* "Build the terminal policy before connecting it to Docker forwarding."  *)
NewChain(r) ==
    /\ IsAt(r, "new chain")
    /\ IF chain = Absent
       THEN chain' = 0 /\ Goto(r, "rules")
       ELSE EndRun(r) /\ UNCHANGED chain
    /\ UNCHANGED <<forward, user>>

AddRule(r) ==
    /\ IsAt(r, "rules")
    /\ chain # Absent
    /\ chain' = chain + 1
    /\ Goto(r, IF chain' = Rules THEN "new user" ELSE "rules")
    /\ UNCHANGED <<forward, user>>

NewUser(r) ==
    /\ IsAt(r, "new user")
    /\ IF seen[r].user # Absent
       THEN Goto(r, "hook") /\ UNCHANGED user
       ELSE IF user = Absent
       THEN user' = <<>> /\ Goto(r, "hook")
       ELSE EndRun(r) /\ UNCHANGED user
    /\ UNCHANGED <<forward, chain>>

Hook(r) ==
    /\ IsAt(r, "hook")
    /\ user # Absent
    /\ HookMissing(r) => Len(user) < MaxUserRules
    /\ user' = IF HookMissing(r) THEN <<"hook">> \o user ELSE user
    /\ Goto(r, "legacy")
    /\ UNCHANGED <<forward, chain>>

Without(rules, k) == [i \in 1..(Len(rules) - 1) |-> IF i < k THEN rules[i] ELSE rules[i + 1]]

(* "The new hook is now first and restrictive.  Removing this exact known  *)
(* legacy rule cannot open a forwarding window."  It deletes the first     *)
(* that matches, and fails if there is none.                               *)
RemoveLegacy(r) ==
    /\ IsAt(r, "legacy")
    /\ \/ ~LegacyPresent(r) /\ Goto(r, "jump") /\ UNCHANGED user
       \/ /\ LegacyPresent(r)
          /\ \E k \in DOMAIN Rule(user) :
                /\ user[k] = "legacy" /\ \A i \in 1..(k - 1) : user[i] # "legacy"
                /\ user' = Without(user, k)
          /\ Goto(r, "jump")
       \/ LegacyPresent(r) /\ ~Present("legacy", Rule(user)) /\ EndRun(r) /\ UNCHANGED user
    /\ UNCHANGED <<forward, chain>>

Jump(r) ==
    /\ IsAt(r, "jump")
    /\ forward' = IF JumpMissing(r) THEN <<"jump">> \o forward ELSE forward
    /\ Len(forward') <= MaxUserRules
    /\ EndRun(r)
    /\ UNCHANGED <<user, chain>>

(* A refused configuration, a command that fails or a stopped run leaves   *)
(* the chains as they are.                                                 *)
RunFails(r) ==
    /\ ~IsAt(r, "idle")
    /\ EndRun(r)
    /\ UNCHANGED chains

(* Docker makes DOCKER-USER and its jump when it starts; it leaves the     *)
(* owner's rules in it.                                                    *)
DockerStarts ==
    /\ user' = Rule(user)
    /\ forward' = IF Present("jump", forward) THEN forward ELSE <<"jump">> \o forward
    /\ UNCHANGED <<chain, seen, next, mode>>

(* The rules are not persisted: the unit runs again after a reboot.        *)
Reboot ==
    /\ forward' = <<"other">>
    /\ user' = Absent
    /\ chain' = Absent
    /\ seen' = [r \in IngressRun |-> Unread]
    /\ next' = [r \in IngressRun |-> "idle"]
    /\ mode' = [r \in IngressRun |-> "apply"]

IngressCommand(r) ==
    \/ ReadChains(r) \/ Assess(r) \/ NewChain(r) \/ AddRule(r) \/ NewUser(r)
    \/ Hook(r) \/ RemoveLegacy(r) \/ Jump(r)

IngressNext ==
    \/ \E r \in IngressRun :
          \/ \E m \in {"apply", "check", "migrate"} : StartIngress(r, m)
          \/ IngressCommand(r)
          \/ RunFails(r)
    \/ DockerStarts
    \/ Reboot

IngressSpec == IngressInit /\ [][IngressNext]_ingressVars

-----------------------------------------------------------------------------
(* A packet comes to a rule of the given kind before one that accepts it.  *)
Reaches(rules, kind) ==
    \E i \in DOMAIN rules : rules[i] = kind /\ \A j \in 1..(i - 1) : rules[j] # "other"

(* A packet the policy does not allow is dropped: by the complete chain,   *)
(* and, unless it comes through Tailscale, by the legacy rule.             *)
Dropped(tailscale) ==
    /\ Reaches(forward, "jump")
    /\ \/ chain = Rules /\ Reaches(Rule(user), "hook")
       \/ ~tailscale /\ Reaches(Rule(user), "legacy")

(* A chain that is still without its DROP is never connected: what         *)
(* consults it would let everything through as if it had been allowed.     *)
HookedChainIsComplete == Present("hook", Rule(user)) => chain = Rules

IngressInv == IngressTypeOK /\ HookedChainIsComplete

(* No command of any run, in whatever order two runs give theirs and       *)
(* wherever one of them fails, stops dropping what was dropped.            *)
NoForwardingWindow ==
    [][\A tailscale \in BOOLEAN :
          Dropped(tailscale) => Dropped(tailscale)' \/ Reboot]_ingressVars
=============================================================================
