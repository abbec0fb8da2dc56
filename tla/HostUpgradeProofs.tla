-------------------------- MODULE HostUpgradeProofs --------------------------
(***************************************************************************)
(* LanCertificates, Ingress, Deployment and AssistantSettings, for any     *)
(* number of laptops, addresses, runs, rules, ports, images, changes by    *)
(* others, models, builds, pages and requests; and that their properties   *)
(* and those of the timeline, proved in ConversationTimelineProofs, hold   *)
(* in every behaviour of HostUpgrade.                                      *)
(***************************************************************************)
EXTENDS HostUpgrade, ConversationTimelineProofs, SequenceTheorems

-----------------------------------------------------------------------------
(* The LAN certificates *)

(* An issue has checked the state it works on: it makes a CA only where    *)
(* there is neither a CA nor a pinned address, and pins an address only    *)
(* where there is none.                                                    *)
IssueInv(l) ==
    /\ issuing[l].at # "idle" => issuing[l].address \in IP
    /\ issuing[l].at = "create" => ca[l] = Missing /\ pin[l] = Missing
    /\ issuing[l].at = "pin" => ca[l] # Missing /\ pin[l] = Missing
    /\ issuing[l].at \in {"publish", "public"} => ca[l] # Missing /\ pin[l] = issuing[l].address
    /\ ca[l] # Missing => ca[l] <= cas

LanIInv ==
    /\ LanInv
    /\ \A l \in Laptop : IssueInv(l)
    /\ staging.cert # Missing => staging.cert \in bundles

\* Nothing has been issued or installed.
LEMMA LanInitInv == LanInit => LanIInv
  BY LanAssumption
     DEF LanInit, LanIInv, LanInv, LanTypeOK, OneCaPerState, InstalledIsWhole, IssueInv,
         Ca, Leaf, Files, NoFiles, NoInstall

\* The steps of an issue.
LEMMA IssueStep ==
  ASSUME LanIInv, NEW l \in Laptop,
         \/ \E a \in IP : Issue(l, a)
         \/ CreateCa(l) \/ WritePin(l) \/ PublishBundle(l) \/ PublishCa(l) \/ IssueInterrupted(l)
  PROVE  LanIInv'
<1> USE LanAssumption
    DEF LanIInv, LanInv, LanTypeOK, OneCaPerState, IssueInv, Ca, installVars, IssueGo
<1>1. ASSUME NEW a \in IP, Issue(l, a) PROVE LanIInv'
  <2>1. UNCHANGED <<ca, pin, leftover, cas, leaves, bundles, public, installed, staging, installing>>
    BY <1>1 DEF Issue
  <2>2. PICK place \in {"publish", "create"} :
          /\ issuing' = [issuing EXCEPT ![l] = [at |-> place, address |-> a]]
          /\ place = "publish" => ca[l] # Missing /\ pin[l] = a
          /\ place = "create" => ca[l] = Missing /\ pin[l] = Missing
    BY <1>1 DEF Issue
  <2>3. LanTypeOK'
    BY <2>1, <2>2
  <2>4. \A m \in Laptop : IssueInv(m)'
    BY <2>1, <2>2
  <2> QED
    BY <2>1, <2>3, <2>4 DEF InstalledIsWhole, ValidateLanCertificate
<1>2. CASE CreateCa(l)
  BY <1>2 DEF CreateCa, Leaf, InstalledIsWhole, ValidateLanCertificate
<1>3. CASE WritePin(l)
  BY <1>3 DEF WritePin, Leaf, InstalledIsWhole, ValidateLanCertificate
<1>4. CASE PublishBundle(l)
  BY <1>4 DEF PublishBundle, Leaf, InstalledIsWhole, ValidateLanCertificate
<1>5. CASE PublishCa(l)
  BY <1>5 DEF PublishCa, InstalledIsWhole, ValidateLanCertificate
<1>6. CASE IssueInterrupted(l)
  BY <1>6 DEF IssueInterrupted, InstalledIsWhole, ValidateLanCertificate
<1> QED
  BY <1>1, <1>2, <1>3, <1>4, <1>5, <1>6

(* The steps of an install: only a validated copy is exchanged.            *)
LEMMA InstallStep ==
  ASSUME LanIInv,
         \/ \E a \in IP, replace \in BOOLEAN : Install(a, replace)
         \/ \E b \in bundles : CopyFile(b)
         \/ Exchange \/ InstallInterrupted
  PROVE  LanIInv'
<1> USE LanAssumption
    DEF LanIInv, LanInv, LanTypeOK, issueVars, Files, NoFiles, NoInstall
<1>1. UNCHANGED issueVars
  BY DEF Install, CopyFile, Exchange, InstallInterrupted
<1>2. OneCaPerState' /\ \A l \in Laptop : IssueInv(l)'
  BY <1>1 DEF OneCaPerState, IssueInv
<1>3. CASE \E a \in IP, replace \in BOOLEAN : Install(a, replace)
  BY <1>1, <1>2, <1>3 DEF Install, InstalledIsWhole, ValidateLanCertificate
<1>4. CASE \E b \in bundles : CopyFile(b)
  BY <1>1, <1>2, <1>4 DEF CopyFile, InstalledIsWhole, ValidateLanCertificate, Leaf
<1>5. CASE Exchange
  BY <1>1, <1>2, <1>5 DEF Exchange, Valid, InstalledIsWhole, ValidateLanCertificate
<1>6. CASE InstallInterrupted
  BY <1>1, <1>2, <1>6 DEF InstallInterrupted, InstalledIsWhole, ValidateLanCertificate
<1> QED
  BY <1>3, <1>4, <1>5, <1>6

\* Every step of an issue or an install preserves the invariant.
LEMMA LanStepInv == LanIInv /\ [LanNext]_lanVars => LanIInv'
<1> SUFFICES ASSUME LanIInv, [LanNext]_lanVars PROVE LanIInv'
  OBVIOUS
<1>1. CASE UNCHANGED lanVars
  BY <1>1 DEF lanVars, issueVars, installVars, LanIInv, LanInv, LanTypeOK, OneCaPerState,
              IssueInv, InstalledIsWhole, ValidateLanCertificate
<1>2. CASE LanNext
  BY <1>2, IssueStep, InstallStep DEF LanNext
<1> QED
  BY <1>1, <1>2

(* Whatever is interrupted and copied, all bundles of a laptop are of one  *)
(* CA and address, and what is installed is one valid bundle.              *)
THEOREM LanCorrect == LanSpec => []LanInv
<1>1. LanIInv => LanInv
  BY DEF LanIInv
<1> QED
  BY <1>1, LanInitInv, LanStepInv, PTL DEF LanSpec

-----------------------------------------------------------------------------
(* The firewall *)

ForwardRule == {"jump", "other"}
UserRule == {"hook", "legacy", "other"}

(* Nothing but a reboot removes a chain, a hook or a rule of VOIDSTATION:  *)
(* what a run has seen of them it may rely on.  One run at most builds the *)
(* chain, and no run comes to the hook before the chain is complete.       *)
ChainInv ==
    /\ \A r, s \in IngressRun : next[r] = "rules" /\ next[s] = "rules" => r = s
    /\ \A r \in IngressRun :
          /\ next[r] = "rules" => chain \in Nat /\ chain < Rules
          /\ next[r] \in {"new user", "hook", "legacy", "jump"} => chain = Rules
          /\ seen[r].chain = Rules => chain = Rules

(* A hook is the first rule.                                               *)
Hooked == user # Absent /\ Present("hook", user)

UserInv ==
    /\ Hooked => chain = Rules /\ user[1] = "hook"
    /\ \A r \in IngressRun :
          /\ ~HookMissing(r) => Hooked
          /\ next[r] \in {"legacy", "jump"} => Hooked

IngressIInv == IngressTypeOK /\ ChainInv /\ UserInv

LEMMA RulesType == Rules \in Nat /\ Rules > 0 /\ Absent \notin Nat
  BY IngressAssumption

\* A run that has read nothing knows of no rule.
LEMMA UnreadSeen == Unread \in Seen /\ ~Present("hook", Rule(Unread.user)) /\ Unread.chain # Rules
<1>1. Unread \in Seen
  BY DEF Unread, Seen
<1> QED
  BY <1>1, IngressAssumption DEF Unread, Rule, Present

\* No run has begun and no chain is hooked.
LEMMA IngressInitInv == IngressInit => IngressIInv
<1> SUFFICES ASSUME IngressInit PROVE IngressIInv
  OBVIOUS
<1>1. forward \in Seq({"jump", "other"})
  <2>1. <<"other">> \in Seq({"jump", "other"}) /\ <<"jump", "other">> \in Seq({"jump", "other"})
    OBVIOUS
  <2> QED
    BY <2>1, Zenon DEF IngressInit
<1>2. user = Absent \/ (user \in Seq(UserRule) /\ ~Present("hook", user))
  <2>1. CASE user = <<>>
    BY <2>1 DEF UserRule, Present
  <2>2. CASE user = <<"legacy">>
    BY <2>2 DEF UserRule, Present
  <2>3. CASE user = <<"other", "legacy">>
    BY <2>3 DEF UserRule, Present
  <2> QED
    BY <2>1, <2>2, <2>3, Zenon DEF IngressInit, UserChains
<1>3. IngressTypeOK
  BY <1>1, <1>2, UnreadSeen DEF IngressInit, IngressTypeOK, Places, UserRule
<1>4. ChainInv
  BY UnreadSeen DEF IngressInit, ChainInv
<1>5. UserInv
  BY <1>2, UnreadSeen DEF IngressInit, UserInv, Hooked, HookMissing
<1> QED
  BY <1>3, <1>4, <1>5 DEF IngressIInv

\* A rule put first is first, and the others are still there.
LEMMA PrependRule ==
  ASSUME NEW S, NEW rules \in Seq(S), NEW rule \in S
  PROVE  /\ <<rule>> \o rules \in Seq(S)
         /\ (<<rule>> \o rules)[1] = rule
         /\ Present(rule, <<rule>> \o rules)
         /\ Reaches(<<rule>> \o rules, rule)
<1> DEFINE longer == <<rule>> \o rules
<1>1. longer \in Seq(S) /\ Len(longer) = Len(rules) + 1 /\ longer[1] = rule
  OBVIOUS
<1>2. 1 \in DOMAIN longer
  BY <1>1
<1> QED
  BY <1>1, <1>2 DEF Present, Reaches

\* A deletion leaves the rule that is first where it is.
LEMMA WithoutRule ==
  ASSUME NEW S, NEW rules \in Seq(S), NEW k \in DOMAIN rules
  PROVE  /\ Without(rules, k) \in Seq(S)
         /\ rules[1] = "hook" /\ rules[k] = "legacy" =>
               Without(rules, k)[1] = "hook" /\ Present("hook", Without(rules, k))
<1>1. k \in Nat /\ k >= 1 /\ k <= Len(rules) /\ Len(rules) \in Nat
  OBVIOUS
<1>2. \A i \in 1..(Len(rules) - 1) : rules[i] \in S /\ rules[i + 1] \in S
  OBVIOUS
<1>3. Without(rules, k) \in Seq(S)
  BY <1>1, <1>2 DEF Without
<1>4. ASSUME rules[1] = "hook", rules[k] = "legacy"
      PROVE  1 \in DOMAIN Without(rules, k) /\ Without(rules, k)[1] = "hook"
  BY <1>1, <1>4 DEF Without
<1> QED
  BY <1>3, <1>4 DEF Present

\* No deletion makes a rule.
LEMMA WithoutPresent ==
  ASSUME NEW S, NEW rules \in Seq(S), NEW k \in DOMAIN rules, NEW rule,
         Present(rule, Without(rules, k))
  PROVE  Present(rule, rules)
<1>1. k \in Nat /\ k >= 1 /\ k <= Len(rules) /\ Len(rules) \in Nat
  OBVIOUS
<1>2. PICK i \in 1..(Len(rules) - 1) : rule = IF i < k THEN rules[i] ELSE rules[i + 1]
  BY DEF Present, Without
<1>3. i \in DOMAIN rules /\ i + 1 \in DOMAIN rules
  BY <1>1, <1>2
<1> QED
  BY <1>2, <1>3 DEF Present

\* A hook is reached, and what it leads to is complete.
LEMMA HookReached ==
  IngressTypeOK /\ UserInv /\ Hooked => Reaches(Rule(user), "hook") /\ chain = Rules
<1> SUFFICES ASSUME IngressTypeOK, UserInv, Hooked
             PROVE  Reaches(Rule(user), "hook") /\ chain = Rules
  OBVIOUS
<1>1. user \in Seq(UserRule) /\ user[1] = "hook" /\ chain = Rules
  BY DEF IngressTypeOK, UserInv, Hooked, UserRule
<1>2. 1 \in DOMAIN user
  BY <1>1 DEF Hooked, Present
<1> QED
  BY <1>1, <1>2 DEF Hooked, Rule, Reaches

-----------------------------------------------------------------------------
IngressStep(r) ==
    \/ \E m \in {"apply", "check", "migrate"} : StartIngress(r, m)
    \/ IngressCommand(r)
    \/ RunFails(r)

\* The commands keep the types.
LEMMA IngressType ==
  ASSUME IngressTypeOK, ChainInv, NEW r \in IngressRun, IngressStep(r)
  PROVE  IngressTypeOK'
<1>1. next' \in [IngressRun -> Places] /\ mode' \in [IngressRun -> {"apply", "check", "migrate"}]
  BY DEF IngressTypeOK, IngressStep, StartIngress, IngressCommand, RunFails, ReadChains, Assess,
         NewChain, AddRule, NewUser, Hook, RemoveLegacy, Jump, Goto, EndRun, Places
<1>2. seen' \in [IngressRun -> Seen]
  <2>1. CASE ReadChains(r)
    <3>1. [Unread EXCEPT !.user = user] \in Seen
      BY UnreadSeen DEF IngressTypeOK, Seen
    <3>2. [seen[r] EXCEPT !.forward = forward] \in Seen /\ [seen[r] EXCEPT !.chain = chain] \in Seen
      BY DEF IngressTypeOK, Seen
    <3>3. \/ seen' = [seen EXCEPT ![r] = [Unread EXCEPT !.user = user]]
          \/ seen' = [seen EXCEPT ![r] = [seen[r] EXCEPT !.forward = forward]]
          \/ seen' = [seen EXCEPT ![r] = [seen[r] EXCEPT !.chain = chain]]
      BY <2>1 DEF ReadChains, IngressTypeOK
    <3> QED
      BY <3>1, <3>2, <3>3 DEF IngressTypeOK
  <2>2. CASE ~ReadChains(r)
    <3>1. seen' = seen \/ seen' = [seen EXCEPT ![r] = Unread]
      BY <2>2 DEF IngressStep, StartIngress, IngressCommand, RunFails, Assess, NewChain, AddRule,
                  NewUser, Hook, RemoveLegacy, Jump, Goto, EndRun
    <3> QED
      BY <3>1, UnreadSeen DEF IngressTypeOK
  <2> QED
    BY <2>1, <2>2
<1>3. chain' \in 0..Rules \cup {Absent}
  <2>1. chain' = chain \/ chain' = 0 \/ (next[r] = "rules" /\ chain' = chain + 1)
    BY DEF IngressStep, StartIngress, IngressCommand, RunFails, ReadChains, Assess, NewChain,
           AddRule, NewUser, Hook, RemoveLegacy, Jump, chains, IsAt
  <2>2. CASE chain' = 0
    BY <2>2, IngressAssumption
  <2>3. CASE next[r] = "rules" /\ chain' = chain + 1
    <3>1. chain \in Nat /\ chain < Rules
      BY <2>3 DEF ChainInv
    <3> QED
      BY <2>3, <3>1, IngressAssumption
  <2> QED
    BY <2>1, <2>2, <2>3 DEF IngressTypeOK
<1>4. forward' \in Seq(ForwardRule)
  <2>1. forward' = forward \/ forward' = <<"jump">> \o forward
    BY DEF IngressStep, StartIngress, IngressCommand, RunFails, ReadChains, Assess, NewChain,
           AddRule, NewUser, Hook, RemoveLegacy, Jump, chains
  <2> QED
    BY <2>1, PrependRule DEF IngressTypeOK, ForwardRule
<1>5. user' \in Seq(UserRule) \cup {Absent}
  <2>1. \/ user' = user \/ user' = <<>>
        \/ user # Absent /\ user' = <<"hook">> \o user
        \/ \E k \in DOMAIN Rule(user) : user' = Without(user, k)
    BY DEF IngressStep, StartIngress, IngressCommand, RunFails, ReadChains, Assess, NewChain,
           AddRule, NewUser, Hook, RemoveLegacy, Jump, chains
  <2>2. user \in Seq(UserRule) \cup {Absent}
    BY DEF IngressTypeOK, UserRule
  <2>3. <<>> \in Seq(UserRule)
    OBVIOUS
  <2>4. user # Absent => <<"hook">> \o user \in Seq(UserRule)
    BY <2>2, PrependRule DEF UserRule
  <2>5. \A k \in DOMAIN Rule(user) : Without(user, k) \in Seq(UserRule)
    BY <2>2, WithoutRule DEF Rule
  <2> QED
    BY <2>1, <2>2, <2>3, <2>4, <2>5
<1> QED
  BY <1>1, <1>2, <1>3, <1>4, <1>5 DEF IngressTypeOK, ForwardRule, UserRule

\* One run builds the chain, and nothing is connected before it is complete.
LEMMA IngressChain ==
  ASSUME IngressTypeOK, ChainInv, NEW r \in IngressRun, IngressStep(r)
  PROVE  ChainInv'
<1>1. CASE AddRule(r)
  <2>1. chain' = chain + 1 /\ next[r] = "rules"
    BY <1>1 DEF AddRule, IsAt
  <2>2. /\ UNCHANGED seen
        /\ next' = [next EXCEPT ![r] = IF chain' = Rules THEN "new user" ELSE "rules"]
    BY <1>1 DEF AddRule, Goto
  <2>3. chain \in Nat /\ chain < Rules
    BY <2>1 DEF ChainInv
  <2>4. chain # Rules /\ chain' \in Nat /\ (chain' = Rules \/ chain' < Rules)
    <3>1. Rules \in Nat
      BY RulesType
    <3>2. chain' = chain + 1
      BY <2>1
    <3> QED
      BY <2>3, <3>1, <3>2
  <2>5. \A s \in IngressRun :
           seen[s].chain # Rules /\ next[s] \notin {"new user", "hook", "legacy", "jump"}
    BY <2>4 DEF ChainInv
  <2>6. \A s \in IngressRun : s # r => next'[s] = next[s] /\ next[s] # "rules"
    BY <2>1, <2>2 DEF IngressTypeOK, ChainInv
  <2>7. next'[r] = IF chain' = Rules THEN "new user" ELSE "rules"
    BY <2>2 DEF IngressTypeOK
  <2>8. \A s \in IngressRun :
           /\ next'[s] = "rules" => s = r /\ chain' < Rules
           /\ next'[s] \in {"new user", "hook", "legacy", "jump"} => chain' = Rules
    BY <2>4, <2>5, <2>6, <2>7
  <2> QED
    BY <2>2, <2>4, <2>5, <2>8 DEF ChainInv
<1>2. CASE NewChain(r)
  <2>1. CASE chain = Absent
    <3>1. chain' = 0 /\ UNCHANGED seen /\ next' = [next EXCEPT ![r] = "rules"]
      BY <1>2, <2>1 DEF NewChain, Goto
    <3>2. \A s \in IngressRun : next[s] \notin {"rules", "new user", "hook", "legacy", "jump"}
                                /\ seen[s].chain # Rules
      BY <2>1, IngressAssumption DEF ChainInv
    <3>3. 0 \in Nat /\ 0 < Rules
      BY IngressAssumption
    <3> QED
      BY <3>1, <3>2, <3>3 DEF ChainInv, IngressTypeOK
  <2>2. CASE chain # Absent
    BY <1>2, <2>2, UnreadSeen DEF NewChain, EndRun, ChainInv, IngressTypeOK
  <2> QED
    BY <2>1, <2>2
<1>3. CASE ReadChains(r)
  <2>1. UNCHANGED chain
    BY <1>3 DEF ReadChains, chains
  <2>2. \A s \in IngressRun : next'[s] \in {"read forward", "read chain", "decide"} \/ next'[s] = next[s]
    BY <1>3 DEF ReadChains, IngressTypeOK
  <2>3. \A s \in IngressRun : seen'[s].chain \in {Absent, seen[s].chain, chain}
    <3>1. [Unread EXCEPT !.user = user].chain = Absent
      BY DEF Unread
    <3>2. [seen[r] EXCEPT !.forward = forward].chain = seen[r].chain
          /\ [seen[r] EXCEPT !.chain = chain].chain = chain
      BY DEF IngressTypeOK, Seen
    <3>3. \/ seen' = [seen EXCEPT ![r] = [Unread EXCEPT !.user = user]]
          \/ seen' = [seen EXCEPT ![r] = [seen[r] EXCEPT !.forward = forward]]
          \/ seen' = [seen EXCEPT ![r] = [seen[r] EXCEPT !.chain = chain]]
      BY <1>3 DEF ReadChains, IngressTypeOK
    <3> QED
      BY <3>1, <3>2, <3>3 DEF IngressTypeOK
  <2> QED
    BY <2>1, <2>2, <2>3, IngressAssumption DEF ChainInv
<1>4. CASE Assess(r)
  <2>1. UNCHANGED chain
    BY <1>4 DEF Assess, chains
  <2>2. CASE next'[r] = "idle"
    BY <1>4, <2>1, <2>2, UnreadSeen DEF Assess, EndRun, Goto, ChainInv, IngressTypeOK
  <2>3. CASE next'[r] # "idle"
    <3>1. /\ UNCHANGED seen
          /\ next' = [next EXCEPT ![r] = IF seen[r].chain = Absent THEN "new chain" ELSE "new user"]
          /\ seen[r].chain \in {Absent, Rules}
      BY <1>4, <2>3 DEF Assess, EndRun, Goto, IngressTypeOK, Understood
    <3> QED
      BY <2>1, <3>1 DEF ChainInv, IngressTypeOK
  <2> QED
    BY <2>2, <2>3
<1>5. CASE NewUser(r) \/ Hook(r) \/ RemoveLegacy(r) \/ Jump(r) \/ RunFails(r)
  <2>1. UNCHANGED chain
    BY <1>5 DEF NewUser, Hook, RemoveLegacy, Jump, RunFails, chains
  <2>2. \/ seen' = [seen EXCEPT ![r] = Unread] /\ next' = [next EXCEPT ![r] = "idle"]
        \/ /\ UNCHANGED seen
           /\ next[r] \in {"new user", "hook", "legacy"}
           /\ \E place \in {"hook", "legacy", "jump"} : next' = [next EXCEPT ![r] = place]
    BY <1>5 DEF NewUser, Hook, RemoveLegacy, Jump, RunFails, EndRun, Goto, IsAt
  <2> QED
    BY <2>1, <2>2, UnreadSeen DEF ChainInv, IngressTypeOK
<1>6. CASE \E m \in {"apply", "check", "migrate"} : StartIngress(r, m)
  BY <1>6 DEF StartIngress, chains, ChainInv, IngressTypeOK
<1> QED
  BY <1>1, <1>2, <1>3, <1>4, <1>5, <1>6 DEF IngressStep, IngressCommand

\* A complete chain stays complete.
LEMMA ChainStays ==
  ASSUME ChainInv, NEW r \in IngressRun, IngressStep(r), chain = Rules
  PROVE  chain' = Rules
<1>1. chain' = chain \/ chain = Absent \/ next[r] = "rules"
  BY DEF IngressStep, StartIngress, IngressCommand, RunFails, ReadChains, Assess, NewChain, AddRule,
         NewUser, Hook, RemoveLegacy, Jump, chains, IsAt
<1> QED
  BY <1>1, RulesType DEF ChainInv

\* A hook stays, and stays first.
LEMMA HookStays ==
  ASSUME IngressTypeOK, ChainInv, UserInv, NEW r \in IngressRun, IngressStep(r), Hooked
  PROVE  Hooked' /\ user'[1] = "hook"
<1>1. CASE Hook(r)
  <2>1. user' = user \/ user' = <<"hook">> \o user
    BY <1>1 DEF Hook
  <2>2. CASE user' = user
    BY <2>2 DEF UserInv, Hooked
  <2>3. CASE Hooked /\ user' = <<"hook">> \o user
    <3>1. user \in Seq({"hook", "legacy", "other"})
      BY <2>3 DEF Hooked, IngressTypeOK
    <3>2. /\ user' \in Seq({"hook", "legacy", "other"})
          /\ user'[1] = "hook" /\ Present("hook", user')
      BY <2>3, <3>1, PrependRule
    <3> QED
      BY <3>2, IngressAssumption DEF Hooked
  <2> QED
    BY <2>1, <2>2, <2>3
<1>2. CASE RemoveLegacy(r)
  <2>1. user' = user \/ \E k \in DOMAIN user : user[k] = "legacy" /\ user' = Without(user, k)
    BY <1>2 DEF RemoveLegacy, Hooked, Rule
  <2>2. user \in Seq(UserRule) /\ user[1] = "hook"
    BY DEF Hooked, IngressTypeOK, UserInv, UserRule
  <2>3. user' # user => user' \in Seq(UserRule)
    BY <2>1, <2>2, WithoutRule
  <2> QED
    BY <2>1, <2>2, <2>3, WithoutRule, IngressAssumption DEF Hooked, UserRule
<1>3. CASE ~Hook(r) /\ ~RemoveLegacy(r)
  BY <1>3 DEF IngressStep, StartIngress, IngressCommand, RunFails, ReadChains, Assess, NewChain,
              AddRule, NewUser, Jump, chains, Hooked, UserInv
<1> QED
  BY <1>1, <1>2, <1>3

\* A hook stays first once it is there, and what a run has seen of it is so.
LEMMA IngressUser ==
  ASSUME IngressTypeOK, ChainInv, UserInv, NEW r \in IngressRun, IngressStep(r)
  PROVE  UserInv'
<1>1. chain = Rules => chain' = Rules
  BY ChainStays
<1>2. Hooked => Hooked' /\ user'[1] = "hook"
  BY HookStays
<1>3. ASSUME Hooked', ~Hooked PROVE chain = Rules /\ user'[1] = "hook"
  <2>1. CASE Hook(r)
    <3>1. next[r] = "hook" /\ user # Absent /\ user' = <<"hook">> \o user
      BY <1>3, <2>1 DEF Hook, IsAt, Hooked
    <3>2. user \in Seq({"hook", "legacy", "other"})
      BY <3>1 DEF IngressTypeOK
    <3>3. user'[1] = "hook"
      BY <3>1, <3>2, PrependRule
    <3> QED
      BY <3>1, <3>3 DEF ChainInv
  <2>2. CASE RemoveLegacy(r)
    <3>1. CASE user' = user
      BY <1>3, <3>1 DEF Hooked
    <3>2. ASSUME NEW k \in DOMAIN Rule(user), user' = Without(user, k) PROVE FALSE
      <4>1. user # Absent
        BY DEF Rule
      <4>2. user \in Seq({"hook", "legacy", "other"}) /\ k \in DOMAIN user
        BY <4>1 DEF IngressTypeOK, Rule
      <4> QED
        BY <1>3, <3>2, <4>1, <4>2, WithoutPresent DEF Hooked
    <3> QED
      BY <2>2, <3>1, <3>2 DEF RemoveLegacy
  <2>3. CASE ~Hook(r) /\ ~RemoveLegacy(r)
    <3>1. user' = user \/ user' = <<>>
      BY <2>3 DEF IngressStep, StartIngress, IngressCommand, RunFails, ReadChains, Assess, NewChain,
                  AddRule, NewUser, Jump, chains
    <3> QED
      BY <1>3, <3>1 DEF Hooked, Present
  <2> QED
    BY <2>1, <2>2, <2>3
<1>4. \A s \in IngressRun : seen'[s].user \in {seen[s].user, Absent, user}
  <2>1. CASE ReadChains(r)
    <3>1. [Unread EXCEPT !.user = user].user = user
      BY DEF Unread
    <3>2. [seen[r] EXCEPT !.forward = forward].user = seen[r].user
          /\ [seen[r] EXCEPT !.chain = chain].user = seen[r].user
      BY DEF IngressTypeOK, Seen
    <3>3. \/ seen' = [seen EXCEPT ![r] = [Unread EXCEPT !.user = user]]
          \/ seen' = [seen EXCEPT ![r] = [seen[r] EXCEPT !.forward = forward]]
          \/ seen' = [seen EXCEPT ![r] = [seen[r] EXCEPT !.chain = chain]]
      BY <2>1 DEF ReadChains, IngressTypeOK
    <3> QED
      BY <3>1, <3>2, <3>3 DEF IngressTypeOK
  <2>2. CASE ~ReadChains(r)
    <3>1. seen' = seen \/ seen' = [seen EXCEPT ![r] = Unread]
      BY <2>2 DEF IngressStep, StartIngress, IngressCommand, RunFails, Assess, NewChain, AddRule,
                  NewUser, Hook, RemoveLegacy, Jump, Goto, EndRun
    <3> QED
      BY <3>1 DEF IngressTypeOK, Unread
  <2> QED
    BY <2>1, <2>2
<1>5. \A s \in IngressRun : ~HookMissing(s)' => Hooked
  <2>1. Present("hook", Rule(user)) => Hooked
    BY DEF Rule, Present, Hooked
  <2>2. ~Present("hook", Rule(Absent))
    BY DEF Rule, Present
  <2>3. \A s \in IngressRun : Present("hook", Rule(seen[s].user)) => Hooked
    BY DEF UserInv, HookMissing
  <2> QED
    BY <1>4, <2>1, <2>2, <2>3 DEF HookMissing
<1>6. \A s \in IngressRun : next'[s] \in {"legacy", "jump"} => Hooked'
  <2>1. CASE Hook(r)
    <3>1. user # Absent /\ user' = IF HookMissing(r) THEN <<"hook">> \o user ELSE user
      BY <2>1 DEF Hook
    <3>2. CASE HookMissing(r)
      <4>1. user \in Seq({"hook", "legacy", "other"}) /\ user' = <<"hook">> \o user
        BY <3>1, <3>2 DEF IngressTypeOK
      <4>2. Present("hook", user') /\ user' \in Seq({"hook", "legacy", "other"})
        BY <4>1, PrependRule
      <4> QED
        BY <4>2, IngressAssumption DEF Hooked
    <3>3. CASE ~HookMissing(r)
      BY <1>2, <3>3 DEF UserInv
    <3> QED
      BY <3>2, <3>3
  <2>2. CASE ~Hook(r)
    <3>1. \A s \in IngressRun : next'[s] \in {"legacy", "jump"} => next[s] \in {"legacy", "jump"}
      BY <2>2 DEF IngressStep, StartIngress, IngressCommand, RunFails, ReadChains, Assess, NewChain,
                  AddRule, NewUser, RemoveLegacy, Jump, Goto, EndRun, IsAt, IngressTypeOK
    <3> QED
      BY <1>2, <3>1 DEF UserInv
  <2> QED
    BY <2>1, <2>2
<1>7. Hooked' => chain' = Rules /\ user'[1] = "hook"
  BY <1>1, <1>2, <1>3 DEF UserInv
<1> QED
  BY <1>2, <1>5, <1>6, <1>7 DEF UserInv

\* Docker's start adds no rule and a reboot ends every run.
LEMMA DockerInv ==
  ASSUME IngressIInv, DockerStarts \/ Reboot
  PROVE  IngressIInv'
<1>1. CASE DockerStarts
  <2>1. user' = Rule(user) /\ UNCHANGED <<chain, seen, next, mode>>
    BY <1>1 DEF DockerStarts
  <2>2. forward' \in Seq({"jump", "other"})
    BY <1>1, PrependRule DEF DockerStarts, IngressIInv, IngressTypeOK
  <2>3. user' \in Seq({"hook", "legacy", "other"})
    BY <2>1 DEF Rule, IngressIInv, IngressTypeOK
  <2>4. IngressTypeOK'
    BY <2>1, <2>2, <2>3 DEF IngressIInv, IngressTypeOK
  <2>5. Hooked' <=> Hooked
    BY <2>1, <2>3, IngressAssumption DEF Hooked, Rule, Present
  <2>6. Hooked => user' = user
    BY <2>1 DEF Hooked, Rule
  <2>7. ChainInv'
    BY <2>1 DEF IngressIInv, ChainInv
  <2>8. UserInv'
    BY <2>1, <2>5, <2>6 DEF IngressIInv, UserInv, HookMissing
  <2> QED
    BY <2>4, <2>7, <2>8 DEF IngressIInv
<1>2. CASE Reboot
  <2>1. <<"other">> \in Seq({"jump", "other"})
    OBVIOUS
  <2>2. IngressTypeOK'
    BY <1>2, <2>1, UnreadSeen DEF Reboot, IngressTypeOK, Places
  <2>3. ChainInv'
    BY <1>2, UnreadSeen DEF Reboot, ChainInv
  <2>4. UserInv'
    BY <1>2, UnreadSeen DEF Reboot, UserInv, Hooked, HookMissing
  <2> QED
    BY <2>2, <2>3, <2>4 DEF IngressIInv
<1> QED
  BY <1>1, <1>2

\* Every step preserves the invariant.
LEMMA IngressStepInv == IngressIInv /\ [IngressNext]_ingressVars => IngressIInv'
<1> SUFFICES ASSUME IngressIInv, [IngressNext]_ingressVars PROVE IngressIInv'
  OBVIOUS
<1>1. CASE UNCHANGED ingressVars
  BY <1>1 DEF ingressVars, IngressIInv, IngressTypeOK, ChainInv, UserInv, Hooked, HookMissing
<1>2. ASSUME NEW r \in IngressRun, IngressStep(r) PROVE IngressIInv'
  BY <1>2, IngressType, IngressChain, IngressUser DEF IngressIInv
<1>3. CASE DockerStarts \/ Reboot
  BY <1>3, DockerInv
<1> QED
  BY <1>1, <1>2, <1>3 DEF IngressNext, IngressStep

(* However many runs there are, and wherever they fail: what is hooked     *)
(* into the forwarding is complete.                                        *)
THEOREM IngressCorrect == IngressSpec => []IngressInv
<1>1. IngressIInv => IngressInv
  BY DEF IngressIInv, IngressInv, UserInv, Hooked, HookedChainIsComplete, Rule, Present
<1> QED
  BY <1>1, IngressInitInv, IngressStepInv, PTL DEF IngressSpec

\* A step keeps what is dropped by the rules, or leaves the hook.
LEMMA RulesStay ==
  ASSUME IngressIInv, NEW r \in IngressRun, IngressStep(r)
  PROVE  Rule(user)' = Rule(user) \/ Hooked'
<1>1. CASE Hook(r)
  <2>1. next[r] = "hook" /\ (HookMissing(r) \/ user' = user)
    BY <1>1 DEF Hook, IsAt
  <2>2. CASE user' # user
    <3>1. user # Absent /\ user' = <<"hook">> \o user
      BY <1>1, <2>2 DEF Hook
    <3>2. user \in Seq({"hook", "legacy", "other"})
      BY <3>1 DEF IngressIInv, IngressTypeOK
    <3>3. Present("hook", user') /\ user' \in Seq({"hook", "legacy", "other"})
      BY <3>1, <3>2, PrependRule
    <3> QED
      BY <3>3, IngressAssumption DEF Hooked
  <2> QED
    BY <2>2
<1>2. CASE RemoveLegacy(r)
  <2>1. Hooked
    BY <1>2 DEF RemoveLegacy, IsAt, IngressIInv, UserInv
  <2> QED
    BY <2>1, HookStays DEF IngressIInv
<1>3. CASE ~Hook(r) /\ ~RemoveLegacy(r)
  <2>1. user' = user \/ (user = Absent /\ user' = <<>>) \/ Hooked'
    BY <1>3 DEF IngressStep, StartIngress, IngressCommand, RunFails, ReadChains, Assess, NewChain,
                AddRule, NewUser, Jump, chains
  <2> QED
    BY <2>1 DEF Rule
<1> QED
  BY <1>1, <1>2, <1>3

\* No step but a reboot opens the forwarding.
LEMMA NoWindow ==
  IngressIInv /\ IngressIInv' /\ [IngressNext]_ingressVars =>
      [\A tailscale \in BOOLEAN : Dropped(tailscale) => Dropped(tailscale)' \/ Reboot]_ingressVars
<1> SUFFICES ASSUME IngressIInv, IngressIInv', IngressNext, ~Reboot,
                    NEW tailscale \in BOOLEAN, Dropped(tailscale)
             PROVE  Dropped(tailscale)'
  OBVIOUS
<1>1. Reaches(forward, "jump")'
  <2>1. forward' = forward \/ forward' = <<"jump">> \o forward
    BY DEF IngressNext, DockerStarts, StartIngress, IngressCommand, RunFails, ReadChains, Assess,
           NewChain, AddRule, NewUser, Hook, RemoveLegacy, Jump, chains
  <2>2. Reaches(<<"jump">> \o forward, "jump")
    BY PrependRule DEF IngressIInv, IngressTypeOK
  <2> QED
    BY <2>1, <2>2 DEF Dropped, Reaches
<1>2. Hooked' => Dropped(tailscale)'
  <2>1. (IngressTypeOK /\ UserInv /\ Hooked => Reaches(Rule(user), "hook") /\ chain = Rules)'
    BY HookReached, PTL
  <2> QED
    BY <1>1, <2>1 DEF Dropped, IngressIInv
<1>3. CASE DockerStarts
  <2>1. user' = Rule(user) /\ UNCHANGED chain
    BY <1>3 DEF DockerStarts
  <2>2. user' # Absent
    <3>1. <<>> \in Seq({"hook", "legacy", "other"})
      OBVIOUS
    <3> QED
      BY <2>1, <3>1, IngressAssumption DEF Rule
  <2>3. Rule(user)' = Rule(user)
    BY <2>1, <2>2 DEF Rule
  <2> QED
    BY <1>1, <2>1, <2>3 DEF Dropped, Reaches
<1>4. ASSUME NEW r \in IngressRun, IngressStep(r) PROVE Dropped(tailscale)'
  <2>1. CASE Hooked'
    BY <1>2, <2>1
  <2>2. CASE Rule(user)' = Rule(user)
    BY <1>1, <1>4, <2>2, ChainStays DEF IngressIInv, Dropped, Reaches
  <2> QED
    BY <1>4, <2>1, <2>2, RulesStay
<1> QED
  BY <1>3, <1>4 DEF IngressNext, IngressStep

(* What is dropped stays dropped, whatever order the commands of any       *)
(* number of runs come in and wherever they fail.                          *)
THEOREM IngressNoWindow == IngressSpec => NoForwardingWindow
  BY IngressInitInv, IngressStepInv, NoWindow, PTL DEF IngressSpec, NoForwardingWindow

-----------------------------------------------------------------------------
(* The deployment *)

(* An update.  Each command of a run relies on what the ones before it     *)
(* have established, as far as nobody else can have changed it since.      *)
Later == {"after", "survey after", "inspect", "probe"}

(* The image that runs is the one that was audited.                        *)
AuditInv ==
    /\ AuditedWorkerRuns
    /\ phase = "audit" => image # Unset
    /\ phase \in {"check", "survey", "searxng", "worker", "compare"} => image \in audited

(* What runs is what was started, and at last what the inspection wants.   *)
AsRequired ==
    /\ \A s \in Service, f \in Inspected : deployed[s].of[f] # "unfit"
    /\ deployed["dashboard"].publish = deployed["dashboard"].origin
    /\ deployed["assistant-worker"].of["mounts"] = deployed["dashboard"].of["mounts"]

StartedInv ==
    /\ phase \in {"worker", "compare", "dashboard"} \cup Later => deployed["searxng"] # Unset
    /\ phase \in {"compare", "dashboard"} \cup Later => deployed["assistant-worker"] # Unset
    /\ phase \in Later => deployed["dashboard"] # Unset

RequiredInv ==
    /\ phase \in {"survey before", "survey", "survey after", "inspect", "probe"} =>
          resolved \in Configuration /\ ConfigurationIsValid(resolved)
    /\ phase = "probe" \/ outcome = "succeeded" => AsRequired

(* A survey holds until somebody changes what it looked at.                *)
Unoccupied(c) == \A path \in Path, l \in listeners : ~Overlaps(l, path, c.publish[path])

PortInv ==
    /\ SurveyedPortsAreFree
    /\ ~stale /\ phase \in {"searxng", "worker", "compare", "dashboard"} => Unoccupied(config)
    /\ \A path \in Path, port \in Port, l \in listeners :
          OwnBinding(path, port) => ~Overlaps(l, path, port)

(* A run that has ended is over. *)
IdleInv == outcome # "none" \/ blocked => phase = "idle"

DeployIInv ==
    /\ DeployTypeOK
    /\ IdleInv
    /\ AuditInv
    /\ StartedInv
    /\ RequiredInv
    /\ PortInv

\* No update has begun.
LEMMA DeployInitInv == DeployInit => DeployIInv
<1> SUFFICES ASSUME DeployInit PROVE DeployIInv
  OBVIOUS
<1>1. PICK ports \in [Path -> Port] :
        config = [of |-> [s \in Service |-> FitSettings], publish |-> ports, origin |-> ports]
  BY DEF DeployInit
<1>2. FitSettings \in Settings
  BY DEF FitSettings, Settings
<1>3. config \in Configuration
  BY <1>1, <1>2 DEF Configuration
<1>4. deployed \in [Service -> Deployed \cup {Unset}]
  <2>1. CASE deployed = [s \in Service |-> Unset]
    BY <2>1
  <2>2. ASSUME NEW lan \in {Unset, config.publish["lan"]},
               deployed = [s \in Service |->
                  [of |-> FitSettings, publish |-> [config.publish EXCEPT !["lan"] = lan],
                   origin |-> config.origin, image |-> 0, running |-> TRUE]]
        PROVE deployed \in [Service -> Deployed \cup {Unset}]
    <3>1. [config.publish EXCEPT !["lan"] = lan] \in [Path -> Port \cup {Unset}]
      BY <1>1 DEF Path
    <3>2. 0 \in 0..MaxImages
      BY DeploymentAssumption
    <3> QED
      BY <1>1, <1>2, <2>2, <3>1, <3>2 DEF Deployed
  <2> QED
    BY <2>1, <2>2 DEF DeployInit
<1>5. tag \in 0..MaxImages /\ changes \in 0..MaxChanges
  BY DeploymentAssumption DEF DeployInit
<1>6. DeployTypeOK
  BY <1>3, <1>4, <1>5 DEF DeployInit, DeployTypeOK, UpdatePlace
<1> QED
  BY <1>6 DEF DeployInit, DeployIInv, IdleInv, AuditInv, AuditedWorkerRuns, StartedInv, RequiredInv, Later,
              PortInv, SurveyedPortsAreFree

\* A container is started with a configuration of the right shape.
LEMMA ConfiguredType ==
  ASSUME DeployTypeOK, NEW s \in Service
  PROVE  Configured(s) \in Deployed
<1>1. config.of[s] \in Settings /\ config.publish \in [Path -> Port] /\ config.origin \in [Path -> Port]
  BY DEF DeployTypeOK, Configuration
<1>2. 0 \in 0..MaxImages /\ tag \in 0..MaxImages
  BY DeploymentAssumption DEF DeployTypeOK
<1> QED
  BY <1>1, <1>2 DEF Configured, Deployed

UpdateStep ==
    \/ (\E first \in BOOLEAN : BeginUpdate(first)) \/ ResolveConfiguration \/ SurveyHost
    \/ Build \/ Identify \/ Audit \/ StartSearxng \/ StartWorker \/ CompareImage
    \/ StartDashboard \/ InspectDeployed \/ ProbeBoth \/ CommandFails

OtherStep ==
    \/ EditConfiguration \/ HostChanges \/ BuildElsewhere
    \/ (\E l \in Listener : Listens(l)) \/ (\E s \in Service : ContainerStops(s))

\* What others do keeps the types of the configuration and of the rest.
LEMMA OthersType ==
  ASSUME DeployTypeOK, OtherStep
  PROVE  DeployTypeOK'
<1>1. changes' \in 0..MaxChanges
  <2>1. changes < MaxChanges /\ changes' = changes + 1
    BY DEF OtherStep, Change, EditConfiguration, HostChanges, BuildElsewhere, Listens, ContainerStops
  <2> QED
    BY <2>1, DeploymentAssumption DEF DeployTypeOK
<1>2. CASE EditConfiguration
  <2>1. config' \in Configuration
    <3>1. ASSUME NEW s \in Service, NEW f \in Field, NEW v \in {"fit", "moved", "unfit"},
                 config' = [config EXCEPT !.of[s][f] = v]
          PROVE  config' \in Configuration
      BY <3>1 DEF DeployTypeOK, Configuration, Settings
    <3>2. ASSUME NEW v \in {"fit", "moved"},
                 config' = [config EXCEPT !.of["dashboard"]["mounts"] = v,
                                          !.of["assistant-worker"]["mounts"] = v]
          PROVE  config' \in Configuration
      BY <3>2 DEF DeployTypeOK, Configuration, Settings, Service, Field
    <3>3. ASSUME NEW path \in Path, NEW port \in Port,
                 config' = [config EXCEPT !.publish[path] = port, !.origin[path] = port]
          PROVE  config' \in Configuration
      BY <3>3 DEF DeployTypeOK, Configuration
    <3> QED
      BY <1>2, <3>1, <3>2, <3>3 DEF EditConfiguration
  <2> QED
    BY <1>1, <1>2, <2>1 DEF EditConfiguration, DeployTypeOK, updateVars
<1>3. CASE HostChanges
  BY <1>1, <1>3 DEF HostChanges, DeployTypeOK, updateVars
<1>4. CASE BuildElsewhere
  <2>1. tag' \in 0..MaxImages
    BY <1>4, DeploymentAssumption DEF BuildElsewhere, DeployTypeOK
  <2> QED
    BY <1>1, <1>4, <2>1 DEF BuildElsewhere, DeployTypeOK, updateVars
<1>5. ASSUME NEW l \in Listener, Listens(l) PROVE DeployTypeOK'
  BY <1>1, <1>5 DEF Listens, DeployTypeOK, updateVars
<1>6. ASSUME NEW s \in Service, ContainerStops(s) PROVE DeployTypeOK'
  <2>1. deployed[s] \in Deployed
    BY <1>6 DEF ContainerStops, DeployTypeOK
  <2>2. deployed' \in [Service -> Deployed \cup {Unset}]
    BY <1>6, <2>1 DEF ContainerStops, DeployTypeOK, Deployed
  <2> QED
    BY <1>1, <1>6, <2>2 DEF ContainerStops, DeployTypeOK, updateVars
<1> QED
  BY <1>2, <1>3, <1>4, <1>5, <1>6 DEF OtherStep

\* Every command keeps the types.
LEMMA UpdateType ==
  ASSUME DeployTypeOK, AuditInv, UpdateStep
  PROVE  DeployTypeOK'
<1>1. config' = config /\ ready' = ready /\ listeners' = listeners /\ changes' = changes
  BY DEF UpdateStep, BeginUpdate, ResolveConfiguration, SurveyHost, Build, Identify, Audit,
         StartSearxng, StartWorker, CompareImage, StartDashboard, InspectDeployed, ProbeBoth,
         CommandFails, aroundVars
<1>2. tag' \in 0..MaxImages
  <2>1. tag' = tag \/ (tag < MaxImages /\ tag' = tag + 1)
    BY DEF UpdateStep, BeginUpdate, ResolveConfiguration, SurveyHost, Build, Identify, Audit,
           StartSearxng, StartWorker, CompareImage, StartDashboard, InspectDeployed, ProbeBoth,
           CommandFails, aroundVars
  <2> QED
    BY <2>1, DeploymentAssumption DEF DeployTypeOK
<1>3. /\ phase' \in UpdatePlace
      /\ cutover' \in BOOLEAN
      /\ outcome' \in {"none", "failed", "succeeded"}
      /\ stale' \in BOOLEAN
      /\ blocked' \in BOOLEAN
  <2> USE DEF DeployTypeOK, Proceed, End
  <2>1. CASE (\E first \in BOOLEAN : BeginUpdate(first)) \/ ResolveConfiguration
    BY <2>1 DEF BeginUpdate, ResolveConfiguration, UpdatePlace
  <2>2. CASE SurveyHost
    BY <2>2 DEF SurveyHost, UpdatePlace
  <2>3. CASE Build \/ Identify \/ Audit \/ StartSearxng \/ StartWorker
    BY <2>3 DEF Build, Identify, Audit, StartSearxng, StartWorker, UpdatePlace
  <2>4. CASE CompareImage \/ InspectDeployed \/ ProbeBoth \/ CommandFails
    BY <2>4 DEF CompareImage, InspectDeployed, ProbeBoth, CommandFails, UpdatePlace
  <2>5. CASE StartDashboard
    BY <2>5 DEF StartDashboard, UpdatePlace
  <2> QED
    BY <2>1, <2>2, <2>3, <2>4, <2>5 DEF UpdateStep
<1>4. image' \in 0..MaxImages \cup {Unset} /\ resolved' \in Configuration \cup {Unset}
  BY DEF DeployTypeOK, UpdateStep, BeginUpdate, ResolveConfiguration, SurveyHost, Build, Identify,
         Audit, StartSearxng, StartWorker, CompareImage, StartDashboard, InspectDeployed, ProbeBoth,
         CommandFails, Proceed, End
<1>5. audited' \subseteq 0..MaxImages
  <2>1. audited' \in {audited, {}} \/ Audit
    BY DEF UpdateStep, BeginUpdate, ResolveConfiguration, SurveyHost, Build, Identify,
         StartSearxng, StartWorker, CompareImage, StartDashboard, InspectDeployed, ProbeBoth,
         CommandFails
  <2> QED
    BY <2>1 DEF Audit, AuditInv, DeployTypeOK
<1>6. deployed' \in [Service -> Deployed \cup {Unset}]
  <2>1. \/ deployed' = deployed
        \/ StartSearxng \/ StartWorker \/ StartDashboard
    BY DEF UpdateStep, BeginUpdate, ResolveConfiguration, SurveyHost, Build, Identify, Audit,
         CompareImage, InspectDeployed, ProbeBoth, CommandFails
  <2>2. \A s \in Service, running \in BOOLEAN : [Configured(s) EXCEPT !.running = running] \in Deployed
    BY ConfiguredType DEF Deployed
  <2> QED
    BY <2>1, <2>2, ConfiguredType
       DEF DeployTypeOK, StartSearxng, StartWorker, StartDashboard, Service
<1> QED
  BY <1>1, <1>2, <1>3, <1>4, <1>5, <1>6 DEF DeployTypeOK

\* A container that has stopped is still the container it was.
LEMMA StoppedContainer ==
  ASSUME NEW c \in Deployed, NEW d, d = [c EXCEPT !.running = FALSE]
  PROVE  /\ c # Unset /\ d # Unset
         /\ d.of = c.of /\ d.publish = c.publish /\ d.origin = c.origin /\ d.image = c.image
         /\ ~d.running
<1>1. /\ d \in Deployed
      /\ d.of = c.of /\ d.publish = c.publish /\ d.origin = c.origin /\ d.image = c.image
      /\ ~d.running
  BY DEF Deployed
<1> QED
  BY <1>1, UnsetAssumption

\* What others do establishes nothing and disturbs no run.
LEMMA OthersInv ==
  ASSUME DeployIInv, OtherStep
  PROVE  DeployIInv'
<1>1. DeployTypeOK'
  BY OthersType DEF DeployIInv
<1>2. UNCHANGED <<phase, cutover, image, resolved, outcome, audited, blocked>>
  BY DEF OtherStep, EditConfiguration, HostChanges, BuildElsewhere, Listens, ContainerStops, updateVars
<1> DEFINE KeptOf(s) ==
       \/ deployed'[s] = deployed[s]
       \/ /\ deployed[s] # Unset /\ deployed'[s] # Unset
          /\ deployed'[s].of = deployed[s].of
          /\ deployed'[s].publish = deployed[s].publish
          /\ deployed'[s].origin = deployed[s].origin
          /\ deployed'[s].image = deployed[s].image
          /\ ~deployed'[s].running
<1>3. \A s \in Service : KeptOf(s)
  <2>1. ASSUME UNCHANGED deployed PROVE \A s \in Service : KeptOf(s)
    BY <2>1 DEF KeptOf
  <2>2. ASSUME NEW t \in Service, ContainerStops(t)
        PROVE  /\ deployed[t] \in Deployed
               /\ deployed' = [deployed EXCEPT ![t] = [deployed[t] EXCEPT !.running = FALSE]]
    BY <2>2 DEF ContainerStops, DeployIInv, DeployTypeOK
  <2>3. ASSUME NEW t \in Service, ContainerStops(t), NEW s \in Service PROVE KeptOf(s)
    <3>1. CASE s = t
      BY <2>2, <2>3, <3>1, StoppedContainer DEF DeployIInv, DeployTypeOK, KeptOf
    <3>2. CASE s # t
      BY <2>2, <2>3, <3>2 DEF DeployIInv, DeployTypeOK, KeptOf
    <3> QED
      BY <3>1, <3>2
  <2> QED
    BY <2>1, <2>3 DEF OtherStep, EditConfiguration, HostChanges, BuildElsewhere, Listens
<1>4. AuditInv' /\ StartedInv'
  BY <1>2, <1>3 DEF KeptOf, DeployIInv, AuditInv, AuditedWorkerRuns, StartedInv, Later, Service
<1>5. RequiredInv'
  BY <1>2, <1>3 DEF KeptOf, DeployIInv, RequiredInv, AsRequired, Service
<1>6. PortInv'
  <2>1. CASE EditConfiguration \/ HostChanges \/ BuildElsewhere
    BY <1>2, <2>1 DEF EditConfiguration, HostChanges, BuildElsewhere, DeployIInv, PortInv,
                      SurveyedPortsAreFree, Unoccupied, Overlaps, OwnBinding
  <2>2. ASSUME NEW l \in Listener, Listens(l) PROVE PortInv'
    BY <1>2, <2>2 DEF Listens, DeployIInv, PortInv, SurveyedPortsAreFree, Unoccupied, Overlaps,
                      OwnBinding
  <2>3. ASSUME NEW s \in Service, ContainerStops(s) PROVE PortInv'
    <3>1. \A path \in Path, port \in Port : OwnBinding(path, port)' => OwnBinding(path, port)
      BY <1>3 DEF KeptOf, OwnBinding, Service
    <3> QED
      BY <1>2, <2>3, <3>1 DEF ContainerStops, DeployIInv, PortInv, SurveyedPortsAreFree,
                              Unoccupied, Overlaps
  <2> QED
    BY <2>1, <2>2, <2>3 DEF OtherStep
<1> QED
  BY <1>1, <1>2, <1>4, <1>5, <1>6 DEF DeployIInv, IdleInv

\* A run ends in the step that says how.
LEMMA UpdateIdle ==
  ASSUME IdleInv, UpdateStep
  PROVE  IdleInv'
<1>1. ASSUME NEW first \in BOOLEAN, BeginUpdate(first) PROVE IdleInv'
  BY <1>1 DEF IdleInv, BeginUpdate
<1>2. CASE ResolveConfiguration
  BY <1>2 DEF IdleInv, ResolveConfiguration, End
<1>3. CASE SurveyHost
  BY <1>3 DEF IdleInv, SurveyHost, Proceed, End
<1>4. CASE Build
  BY <1>4 DEF IdleInv, Build, Proceed
<1>5. CASE Identify
  BY <1>5 DEF IdleInv, Identify
<1>6. CASE Audit
  BY <1>6 DEF IdleInv, Audit, Proceed
<1>7. CASE StartSearxng
  BY <1>7 DEF IdleInv, StartSearxng, Proceed
<1>8. CASE StartWorker
  BY <1>8 DEF IdleInv, StartWorker, Proceed
<1>9. CASE CompareImage
  BY <1>9 DEF IdleInv, CompareImage, Proceed, End
<1>10. CASE StartDashboard
  BY <1>10 DEF IdleInv, StartDashboard, Proceed, End
<1>11. CASE InspectDeployed
  BY <1>11 DEF IdleInv, InspectDeployed, Proceed, End
<1>12. CASE ProbeBoth
  BY <1>12 DEF IdleInv, ProbeBoth, End
<1>13. CASE CommandFails
  BY <1>13 DEF IdleInv, CommandFails, End
<1> QED
  BY <1>1, <1>2, <1>3, <1>4, <1>5, <1>6, <1>7, <1>8, <1>9, <1>10, <1>11, <1>12, <1>13 DEF UpdateStep

\* The commands keep track of the image.
LEMMA UpdateAudit ==
  ASSUME DeployTypeOK, IdleInv, AuditInv, UpdateStep
  PROVE  AuditInv'
<1>1. ASSUME NEW first \in BOOLEAN, BeginUpdate(first) PROVE AuditInv'
  BY <1>1 DEF IdleInv, AuditInv, AuditedWorkerRuns, BeginUpdate
<1>2. CASE ResolveConfiguration
  BY <1>2 DEF IdleInv, AuditInv, AuditedWorkerRuns, ResolveConfiguration, End
<1>3. CASE SurveyHost
  BY <1>3 DEF IdleInv, AuditInv, AuditedWorkerRuns, SurveyHost, Proceed, End
<1>4. CASE Build
  BY <1>4 DEF IdleInv, AuditInv, AuditedWorkerRuns, Build, Proceed
<1>5. CASE Identify
  BY <1>5, DeploymentAssumption DEF DeployTypeOK, AuditInv, AuditedWorkerRuns, IdleInv, Identify
<1>6. CASE Audit
  BY <1>6 DEF IdleInv, AuditInv, AuditedWorkerRuns, Audit, Proceed
<1>7. CASE StartSearxng
  BY <1>7 DEF IdleInv, AuditInv, AuditedWorkerRuns, StartSearxng, Proceed
<1>8. CASE StartWorker
  BY <1>8 DEF IdleInv, AuditInv, AuditedWorkerRuns, StartWorker, Proceed
<1>9. CASE CompareImage
  BY <1>9 DEF IdleInv, AuditInv, AuditedWorkerRuns, CompareImage, Proceed, End
<1>10. CASE StartDashboard
  <2>1. deployed'["assistant-worker"] = deployed["assistant-worker"]
    BY <1>10 DEF StartDashboard, DeployTypeOK, Service
  <2>2. UNCHANGED audited /\ phase' \in {"idle", "after"} /\ phase = "dashboard"
    BY <1>10 DEF StartDashboard, Proceed, End
  <2>3. outcome' # "succeeded" \/ outcome' = outcome
    BY <1>10 DEF StartDashboard, Proceed, End
  <2> QED
    BY <2>1, <2>2, <2>3 DEF IdleInv, AuditInv, AuditedWorkerRuns
<1>11. CASE InspectDeployed
  BY <1>11 DEF IdleInv, AuditInv, AuditedWorkerRuns, InspectDeployed, Proceed, End
<1>12. CASE ProbeBoth
  BY <1>12 DEF IdleInv, AuditInv, AuditedWorkerRuns, ProbeBoth, End
<1>13. CASE CommandFails
  BY <1>13 DEF IdleInv, AuditInv, AuditedWorkerRuns, CommandFails, End
<1> QED
  BY <1>1, <1>2, <1>3, <1>4, <1>5, <1>6, <1>7, <1>8, <1>9, <1>10, <1>11, <1>12, <1>13 DEF UpdateStep

\* The commands start one container after another.
LEMMA UpdateStarted ==
  ASSUME DeployTypeOK, StartedInv, UpdateStep
  PROVE  StartedInv'
<1>1. ASSUME NEW first \in BOOLEAN, BeginUpdate(first) PROVE StartedInv'
  BY <1>1 DEF StartedInv, Later, BeginUpdate
<1>2. CASE ResolveConfiguration
  BY <1>2 DEF StartedInv, Later, ResolveConfiguration, End
<1>3. CASE SurveyHost
  BY <1>3 DEF StartedInv, Later, SurveyHost, Proceed, End
<1>4. CASE Build
  BY <1>4 DEF StartedInv, Later, Build, Proceed
<1>5. CASE Identify
  BY <1>5 DEF StartedInv, Later, Identify
<1>6. CASE Audit
  BY <1>6 DEF StartedInv, Later, Audit, Proceed
<1>7. CASE StartSearxng
  <2>1. Configured("searxng") # Unset
    BY ConfiguredType, UnsetAssumption DEF Service
  <2> QED
    BY <1>7, <2>1 DEF StartedInv, Later, DeployTypeOK, Service, StartSearxng, Proceed
<1>8. CASE StartWorker
  <2>1. Configured("assistant-worker") # Unset
    BY ConfiguredType, UnsetAssumption DEF Service
  <2> QED
    BY <1>8, <2>1 DEF StartedInv, Later, DeployTypeOK, Service, StartWorker, Proceed
<1>9. CASE CompareImage
  BY <1>9 DEF StartedInv, Later, CompareImage, Proceed, End
<1>10. CASE StartDashboard
  <2>1. \A running \in BOOLEAN : [Configured("dashboard") EXCEPT !.running = running] # Unset
    BY ConfiguredType, UnsetAssumption DEF Service, Deployed
  <2> QED
    BY <1>10, <2>1 DEF StartedInv, Later, DeployTypeOK, Service, StartDashboard, Proceed, End
<1>11. CASE InspectDeployed
  BY <1>11 DEF StartedInv, Later, InspectDeployed, Proceed, End
<1>12. CASE ProbeBoth
  BY <1>12 DEF StartedInv, Later, ProbeBoth, End
<1>13. CASE CommandFails
  BY <1>13 DEF StartedInv, Later, CommandFails, End
<1> QED
  BY <1>1, <1>2, <1>3, <1>4, <1>5, <1>6, <1>7, <1>8, <1>9, <1>10, <1>11, <1>12, <1>13 DEF UpdateStep

\* What has passed the inspection is as the configuration requires.
LEMMA InspectedAsRequired ==
  ASSUME NEW r, ConfigurationIsValid(r),
         ValidateDashboardInspection(deployed["dashboard"], r),
         ValidateWorkerInspection(deployed["assistant-worker"], r),
         ValidateSearxngInspection(deployed["searxng"], r)
  PROVE  AsRequired
<1>1. /\ r.of["dashboard"]["mounts"] \in {"fit", "moved"}
      /\ r.of["assistant-worker"]["mounts"] = r.of["dashboard"]["mounts"]
      /\ r.of["searxng"]["mounts"] \in {"fit", "moved"}
      /\ r.origin = r.publish
  BY DEF ConfigurationIsValid, ValidateEnvironment, ValidateMountConfiguration,
         ValidateWorkerConfiguration, ValidateSearxngConfiguration
<1>2. \A f \in Inspected : deployed["dashboard"].of[f] # "unfit"
  BY <1>1 DEF ValidateDashboardInspection, ValidateRuntimeHardening, Inspected, Field
<1>3. \A f \in Inspected : deployed["assistant-worker"].of[f] # "unfit"
  BY <1>1 DEF ValidateWorkerInspection, ValidateRuntimeHardening, Inspected, Field
<1>4. \A f \in Inspected : deployed["searxng"].of[f] # "unfit"
  BY <1>1 DEF ValidateSearxngInspection, Inspected, Field
<1>5. /\ deployed["dashboard"].publish = deployed["dashboard"].origin
      /\ deployed["assistant-worker"].of["mounts"] = deployed["dashboard"].of["mounts"]
  BY <1>1 DEF ValidateDashboardInspection, ValidateWorkerInspection
<1> QED
  BY <1>2, <1>3, <1>4, <1>5 DEF AsRequired, Service

\* A run ends well only after the inspection, of a configuration it has
\* found valid.
LEMMA UpdateRequired ==
  ASSUME DeployTypeOK, IdleInv, RequiredInv, UpdateStep
  PROVE  RequiredInv'
<1>1. CASE ResolveConfiguration
  <2>1. CASE ConfigurationIsValid(config)
    <3>1. /\ resolved' = config /\ config' = config /\ phase # "idle" /\ phase' # "probe"
          /\ outcome' = outcome
      BY <1>1, <2>1 DEF ResolveConfiguration, aroundVars
    <3>2. resolved' \in Configuration /\ ConfigurationIsValid(resolved')
      BY <2>1, <3>1 DEF DeployTypeOK
    <3>3. outcome' # "succeeded"
      BY <3>1 DEF IdleInv
    <3> QED
      BY <3>1, <3>2, <3>3 DEF RequiredInv
  <2>2. CASE ~ConfigurationIsValid(config)
    BY <1>1, <2>2 DEF ResolveConfiguration, End, RequiredInv
  <2> QED
    BY <2>1, <2>2
<1>2. CASE SurveyHost
  <2>1. CASE phase' = "idle"
    BY <1>2, <2>1 DEF SurveyHost, End, Proceed, RequiredInv
  <2>2. CASE phase' # "idle"
    <3>1. /\ resolved' = resolved /\ outcome' = outcome /\ phase # "idle"
          /\ phase' \in {"build", "searxng", "inspect"}
      BY <1>2, <2>2 DEF SurveyHost, End, Proceed
    <3>2. resolved \in Configuration /\ ConfigurationIsValid(resolved)
      BY <1>2 DEF SurveyHost, RequiredInv
    <3> QED
      BY <3>1, <3>2 DEF IdleInv, RequiredInv
  <2> QED
    BY <2>1, <2>2
<1>3. CASE InspectDeployed
  <2>1. CASE phase' = "idle"
    BY <1>3, <2>1 DEF InspectDeployed, End, Proceed, RequiredInv
  <2>2. CASE phase' # "idle"
    <3>1. /\ resolved' = resolved /\ UNCHANGED deployed /\ phase = "inspect"
          /\ ValidateDashboardInspection(deployed["dashboard"], resolved)
          /\ ValidateWorkerInspection(deployed["assistant-worker"], resolved)
          /\ ValidateSearxngInspection(deployed["searxng"], resolved)
      BY <1>3, <2>2 DEF InspectDeployed, End, Proceed
    <3>2. resolved \in Configuration /\ ConfigurationIsValid(resolved)
      BY <3>1 DEF RequiredInv
    <3>3. AsRequired'
      <4>1. AsRequired
        BY <3>1, <3>2, InspectedAsRequired
      <4> QED
        BY <3>1, <4>1 DEF AsRequired
    <3> QED
      BY <3>1, <3>2, <3>3 DEF RequiredInv
  <2> QED
    BY <2>1, <2>2
<1>4. CASE ProbeBoth
  <2>1. AsRequired'
    BY <1>4 DEF ProbeBoth, RequiredInv, AsRequired
  <2> QED
    BY <1>4, <2>1 DEF ProbeBoth, RequiredInv, End
<1>5. CASE \/ \E first \in BOOLEAN : BeginUpdate(first)
           \/ Build \/ Identify \/ Audit \/ StartSearxng \/ StartWorker \/ CompareImage
           \/ StartDashboard \/ CommandFails
  <2>1. /\ phase' \in {"idle", "before", "identify", "audit", "check", "worker", "compare",
                       "dashboard", "after"}
        /\ outcome' \in {"none", "failed"} \/ (outcome' = outcome /\ phase # "idle")
    BY <1>5 DEF BeginUpdate, Build, Identify, Audit, StartSearxng, StartWorker, CompareImage,
                StartDashboard, CommandFails, Proceed, End
  <2> QED
    BY <2>1 DEF IdleInv, RequiredInv
<1> QED
  BY <1>1, <1>2, <1>3, <1>4, <1>5 DEF UpdateStep

\* A survey finds the endpoints free or published by the Dashboard itself,
\* and what the Dashboard has published nothing else has.
LEMMA UpdatePorts ==
  ASSUME DeployTypeOK, IdleInv, RequiredInv, PortInv, UpdateStep
  PROVE  PortInv'
<1>1. CASE SurveyHost
  <2>1. UNCHANGED <<config, listeners, deployed, blocked>> /\ ~blocked /\ stale' = (config # resolved)
    BY <1>1 DEF SurveyHost, IdleInv, aroundVars
  <2>2. ASSUME config = resolved, phase' = "searxng" PROVE Unoccupied(config)
    <3>1. InspectPortConflicts(config) /\ InspectNativeListeners(config)
      BY <1>1, <2>2 DEF SurveyHost, End, Proceed
    <3>2. \A path \in Path : config.publish[path] \in Port
      BY DEF DeployTypeOK, Configuration
    <3> QED
      BY <3>1, <3>2 DEF InspectPortConflicts, InspectNativeListeners, Unoccupied, PortInv
  <2>3. phase' \notin {"worker", "compare", "dashboard"}
    BY <1>1 DEF SurveyHost, End, Proceed
  <2>4. SurveyedPortsAreFree'
    BY <2>1 DEF SurveyedPortsAreFree
  <2>5. (~stale /\ phase \in {"searxng", "worker", "compare", "dashboard"} => Unoccupied(config))'
    BY <2>1, <2>2, <2>3 DEF Unoccupied, Overlaps
  <2>6. \A path \in Path, port \in Port : OwnBinding(path, port)' = OwnBinding(path, port)
    BY <2>1 DEF OwnBinding
  <2> QED
    BY <2>1, <2>4, <2>5, <2>6 DEF PortInv, Overlaps
<1>2. CASE StartDashboard
  <2> DEFINE taken == \E path \in Path, l \in listeners : Overlaps(l, path, config.publish[path])
  <2>1. /\ UNCHANGED <<config, listeners, stale>> /\ blocked' = taken
        /\ phase = "dashboard" /\ phase' \in {"idle", "after"}
        /\ deployed' = [deployed EXCEPT !["dashboard"] =
                            [Configured("dashboard") EXCEPT !.running = ~taken]]
    BY <1>2 DEF StartDashboard, End, Proceed, aroundVars
  <2>2. ~stale => ~taken
    BY <2>1 DEF PortInv, Unoccupied
  <2>3. /\ deployed'["dashboard"].running = ~taken
        /\ deployed'["dashboard"].publish = config.publish
    BY <2>1 DEF DeployTypeOK, Service, Configured
  <2>4. \A path \in Path, port \in Port, l \in listeners :
            OwnBinding(path, port)' => ~Overlaps(l, path, port)
    BY <2>3 DEF OwnBinding
  <2> QED
    BY <2>1, <2>2, <2>4 DEF PortInv, SurveyedPortsAreFree, Overlaps
<1>3. CASE StartSearxng \/ StartWorker
  <2>1. /\ UNCHANGED <<config, listeners, stale, blocked>>
        /\ phase \in {"searxng", "worker"} /\ phase' \in {"worker", "compare"}
    BY <1>3 DEF StartSearxng, StartWorker, Proceed, aroundVars
  <2>2. deployed'["dashboard"] = deployed["dashboard"]
    BY <1>3 DEF StartSearxng, StartWorker, DeployTypeOK, Service
  <2> QED
    BY <2>1, <2>2 DEF PortInv, SurveyedPortsAreFree, Unoccupied, Overlaps, OwnBinding
<1>4. CASE \/ \E first \in BOOLEAN : BeginUpdate(first)
           \/ ResolveConfiguration \/ Build \/ Identify \/ Audit \/ CompareImage
           \/ InspectDeployed \/ ProbeBoth \/ CommandFails
  <2>1. /\ UNCHANGED <<config, listeners, deployed>>
        /\ UNCHANGED <<stale, blocked>> \/ (stale' = TRUE /\ blocked' = FALSE)
        /\ phase' \notin {"searxng", "worker", "compare", "dashboard"} \/ (phase = "compare" /\ phase' = "dashboard")
    BY <1>4 DEF BeginUpdate, ResolveConfiguration, Build, Identify, Audit, CompareImage,
                InspectDeployed, ProbeBoth, CommandFails, Proceed, End, aroundVars
  <2> QED
    BY <2>1 DEF PortInv, SurveyedPortsAreFree, Unoccupied, Overlaps, OwnBinding
<1> QED
  BY <1>1, <1>2, <1>3, <1>4 DEF UpdateStep

\* Every step preserves the invariant.
LEMMA DeployStepInv == DeployIInv /\ [DeployNext]_deployVars => DeployIInv'
<1> SUFFICES ASSUME DeployIInv, [DeployNext]_deployVars PROVE DeployIInv'
  OBVIOUS
<1>1. CASE UNCHANGED deployVars
  <2>1. DeployTypeOK' /\ IdleInv'
    BY <1>1 DEF deployVars, DeployIInv, DeployTypeOK, IdleInv
  <2>2. AuditInv' /\ StartedInv'
    BY <1>1 DEF deployVars, DeployIInv, AuditInv, AuditedWorkerRuns, StartedInv
  <2>3. RequiredInv'
    BY <1>1 DEF deployVars, DeployIInv, RequiredInv, AsRequired
  <2>4. PortInv'
    BY <1>1 DEF deployVars, DeployIInv, PortInv, SurveyedPortsAreFree, Unoccupied, Overlaps, OwnBinding
  <2> QED
    BY <2>1, <2>2, <2>3, <2>4 DEF DeployIInv
<1>2. CASE UpdateStep
  BY <1>2, UpdateType, UpdateIdle, UpdateAudit, UpdateStarted, UpdateRequired, UpdatePorts
     DEF DeployIInv
<1>3. CASE OtherStep
  BY <1>3, OthersInv
<1> QED
  BY <1>1, <1>2, <1>3 DEF DeployNext, UpdateStep, OtherStep

(* Whatever is edited, built, started and stopped between the commands of  *)
(* an update: only an audited worker runs, what was deployed is as         *)
(* required, and no surveyed port is found taken.                          *)
THEOREM DeployCorrect == DeploySpec => []DeploymentInv
<1>1. DeployIInv => DeploymentInv
  BY DEF DeployIInv, DeploymentInv, AuditInv, RequiredInv, AsRequired, DeployedAsRequired, PortInv
<1> QED
  BY <1>1, DeployInitInv, DeployStepInv, PTL DEF DeploySpec

-----------------------------------------------------------------------------
(* The settings *)

(* What is kept, and what the worker uses.                                 *)
RowIsSound == row.lastModels[row.provider] = row.model

WorkerIsSound ==
    /\ working => Offers(offered, selection)
    /\ working /\ ~unsaved => row.provider = selection.provider /\ row.model = selection.model

(* An answer was true of the worker that gave it; a page has one save.     *)
IsSave(r) == asks[r].phase # "none" /\ asks[r].kind = "save"

AnswerIsSound(r) == asks[r].ok => Offers(asks[r].answer.models, asks[r].answer.choice)

OneSave == \A r, s \in Slot : IsSave(r) /\ IsSave(s) /\ asks[r].by = asks[s].by => r = s

(* What a page shows, and what it waits for.                               *)
FormIsSound(dialog) ==
    /\ dialog.state = "ready" => dialog.known
    /\ dialog.known => Offers(dialog.settings.models, dialog.settings.choice)
    /\ dialog.known /\ dialog.settings.models[dialog.draft.provider] # {} =>
          Offers(dialog.settings.models, dialog.draft)

WaitIsSound(d) ==
    /\ dialogs[d].saving <=> Awaits(d, "save")
    /\ dialogs[d].state = "loading" => Awaits(d, "load")

SettingsIInv ==
    /\ SettingsTypeOK
    /\ RowIsSound
    /\ WorkerIsSound
    /\ OneSave
    /\ \A r \in Slot : AnswerIsSound(r)
    /\ \A d \in Dialog : FormIsSound(dialogs[d]) /\ WaitIsSound(d)

\* The inductive invariant has SettingsInv.
LEMMA SettingsIInvSuffices == SettingsIInv => SettingsInv
  BY DEF SettingsIInv, SettingsInv, RowIsSound, WorkerIsSound, FormIsSound, WaitIsSound

\* The choices, rows and answers that there are to begin with.
LEMMA SettingsTypes ==
  /\ \A p \in Provider, m \in Model \cup {NoModel} :
        /\ Chosen(p, m) \in Selection
        /\ Chosen(p, m).provider = p /\ Chosen(p, m).model = m
  /\ NoRow \in RowState /\ NoRow.lastModels[NoRow.provider] = NoRow.model
  /\ NoAnswer \in Answer
<1>1. \A p \in Provider, m \in Model \cup {NoModel} :
        /\ Chosen(p, m) \in Selection
        /\ Chosen(p, m).provider = p /\ Chosen(p, m).model = m
  BY DEF Chosen, Selection
<1>2. NoRow \in RowState /\ NoRow.lastModels[NoRow.provider] = NoRow.model
  BY SettingsAssumption DEF NoRow, RowState, Provider
<1>3. [p \in Provider |-> {}] \in Catalogue
  BY DEF Catalogue
<1>4. /\ Chosen("openai-codex", NoModel) \in Selection
      /\ NoRow.lastModels \in [Provider -> Model \cup {NoModel}]
  BY <1>1, <1>2 DEF Provider, RowState
<1>5. NoAnswer \in Answer
  BY <1>3, <1>4 DEF NoAnswer, Answer
<1> QED
  BY <1>1, <1>2, <1>5

\* A slot that is free.
LEMMA NoAskType ==
  ASSUME NEW d \in Dialog
  PROVE  NoAsk(d) \in AskState /\ NoAsk(d).phase = "none" /\ NoAsk(d).kind = "load"
         /\ NoAsk(d).by = d /\ ~NoAsk(d).ok
  BY SettingsTypes DEF NoAsk, AskState, Provider

\* A page that knows nothing yet.
LEMMA NewDialogType ==
  ASSUME NEW state \in {"left", "loading"}
  PROVE  NewDialog(state) \in DialogState /\ NewDialog(state).state = state
         /\ ~NewDialog(state).known /\ ~NewDialog(state).saving
  BY SettingsTypes, SettingsAssumption DEF NewDialog, DialogState, Provider

\* The worker has not been started and no page is open.
LEMMA SettingsInitInv == SettingsInit => SettingsIInv
<1> SUFFICES ASSUME SettingsInit PROVE SettingsIInv
  OBVIOUS
<1>1. PICK d \in Dialog : asks = [r \in Slot |-> NoAsk(d)]
  BY DEF SettingsInit
<1>2. \A r \in Slot : asks[r] \in AskState /\ asks[r].phase = "none" /\ ~asks[r].ok
  BY <1>1, NoAskType
<1>3. \A e \in Dialog : dialogs[e] \in DialogState /\ dialogs[e].state = "left"
                        /\ ~dialogs[e].known /\ ~dialogs[e].saving
  BY NewDialogType DEF SettingsInit
<1>4. asks \in [Slot -> AskState] /\ dialogs \in [Dialog -> DialogState]
  BY <1>1, <1>2, <1>3 DEF SettingsInit
<1>5. SettingsTypeOK
  BY <1>4, SettingsTypes, SettingsAssumption DEF SettingsInit, SettingsTypeOK, Provider
<1>6. RowIsSound /\ WorkerIsSound
  BY SettingsTypes DEF SettingsInit, RowIsSound, WorkerIsSound
<1>7. OneSave /\ \A r \in Slot : AnswerIsSound(r)
  BY <1>2 DEF OneSave, IsSave, AnswerIsSound
<1>8. \A e \in Dialog : FormIsSound(dialogs[e]) /\ WaitIsSound(e)
  BY <1>2, <1>3 DEF FormIsSound, WaitIsSound, Awaits
<1> QED
  BY <1>5, <1>6, <1>7, <1>8 DEF SettingsIInv

-----------------------------------------------------------------------------
(* The steps of the worker                                                 *)

\* Each request is still the same, and an answer to it is sound.
GoesOn(r) ==
    /\ asks'[r] \in AskState
    /\ asks'[r].by = asks[r].by
    /\ asks'[r].kind = asks[r].kind
    /\ asks'[r].phase = "none" <=> asks[r].phase = "none"
    /\ AnswerIsSound(r)'

\* While its requests go on, a page waits as it did.
LEMMA AsksGoOn ==
  ASSUME SettingsIInv, asks' = [r \in Slot |-> asks'[r]], \A r \in Slot : GoesOn(r), UNCHANGED dialogs
  PROVE  /\ asks' \in [Slot -> AskState] /\ dialogs' \in [Dialog -> DialogState]
         /\ OneSave'
         /\ \A r \in Slot : AnswerIsSound(r)'
         /\ \A d \in Dialog : FormIsSound(dialogs[d])' /\ WaitIsSound(d)'
<1>1. \A r \in Slot : /\ asks'[r] \in AskState
                      /\ asks'[r].by = asks[r].by
                      /\ asks'[r].kind = asks[r].kind
                      /\ asks'[r].phase = "none" <=> asks[r].phase = "none"
                      /\ AnswerIsSound(r)'
  BY DEF GoesOn
<1>2. asks' \in [Slot -> AskState] /\ dialogs' \in [Dialog -> DialogState]
  BY <1>1 DEF SettingsIInv, SettingsTypeOK
<1>3. OneSave'
  BY <1>1 DEF SettingsIInv, OneSave, IsSave
<1>4. \A d \in Dialog : FormIsSound(dialogs[d])'
  BY DEF SettingsIInv, FormIsSound
<1>5. \A d \in Dialog, kind \in {"load", "save"} : Awaits(d, kind)' <=> Awaits(d, kind)
  BY <1>1 DEF Awaits
<1>6. \A d \in Dialog : WaitIsSound(d)'
  BY <1>5 DEF SettingsIInv, WaitIsSound
<1> QED
  BY <1>1, <1>2, <1>3, <1>4, <1>6

\* What does not change goes on.
LEMMA UnchangedGoOn ==
  ASSUME SettingsIInv, UNCHANGED asks
  PROVE  asks' = [r \in Slot |-> asks'[r]] /\ \A r \in Slot : GoesOn(r)
  BY DEF SettingsIInv, SettingsTypeOK, GoesOn, AnswerIsSound

\* What the worker starts with.
LEMMA StartsInv == ASSUME SettingsIInv, Starts PROVE SettingsIInv'
<1> DEFINE choice == IF Offers(offered, row) THEN Chosen(row.provider, row.model)
                     ELSE Chosen(row.provider, DefaultModel(row.provider))
<1>1. /\ offered \in Catalogue /\ row.provider \in Provider /\ row.model \in Model /\ row \in RowState
      /\ offered[row.provider] # {} /\ CodexModel \in offered["openai-codex"] /\ CodexModel \in Model
      /\ offered \in WorkerBuild
  BY SettingsAssumption DEF Starts, SettingsIInv, SettingsTypeOK, RowState
<1>2. DefaultModel(row.provider) \in offered[row.provider]
  BY <1>1 DEF DefaultModel
<1>3. offered[row.provider] \subseteq Model
  BY <1>1 DEF Catalogue
<1>4. /\ choice \in Selection /\ choice.provider = row.provider /\ choice.model \in Model
      /\ choice.model \in offered[row.provider]
  <2>1. CASE Offers(offered, row)
    BY <1>1, <2>1, SettingsTypes DEF Offers
  <2>2. CASE ~Offers(offered, row)
    BY <1>1, <1>2, <1>3, <2>2, SettingsTypes
  <2> QED
    BY <2>1, <2>2
<1>5. /\ working' = TRUE /\ selection' = choice /\ unsaved' = FALSE
      /\ row' = IF row.model # choice.model THEN Written(row, choice) ELSE row
      /\ UNCHANGED <<offered, dialogs, asks>>
  BY DEF Starts
<1> HIDE DEF choice
<1>6. /\ row' \in RowState /\ row'.provider = choice.provider /\ row'.model = choice.model
      /\ RowIsSound'
  <2>1. CASE row.model # choice.model
    <3>1. row' = Written(row, choice)
      BY <1>5, <2>1
    <3> QED
      BY <1>1, <1>4, <3>1 DEF Written, RowState, RowIsSound
  <2>2. CASE row.model = choice.model
    BY <1>1, <1>4, <1>5, <2>2 DEF SettingsIInv, RowIsSound
  <2> QED
    BY <2>1, <2>2
<1>7. WorkerIsSound'
  BY <1>4, <1>5, <1>6 DEF WorkerIsSound, Offers
<1>8. /\ asks' \in [Slot -> AskState] /\ dialogs' \in [Dialog -> DialogState]
      /\ OneSave'
      /\ \A r \in Slot : AnswerIsSound(r)'
      /\ \A d \in Dialog : FormIsSound(dialogs[d])' /\ WaitIsSound(d)'
  BY <1>5, UnchangedGoOn, AsksGoOn
<1>9. SettingsTypeOK'
  BY <1>1, <1>4, <1>5, <1>6, <1>8 DEF SettingsTypeOK
<1> QED
  BY <1>6, <1>7, <1>8, <1>9 DEF SettingsIInv

\* A worker that stops answers nobody.
LEMMA StopsInv == ASSUME SettingsIInv, Stops PROVE SettingsIInv'
<1>1. SettingsTypeOK
  BY DEF SettingsIInv
<1>2. /\ asks' = [r \in Slot |-> IF asks[r].phase \in {"asked", "applied"}
                                  THEN [asks[r] EXCEPT !.phase = "answered", !.ok = FALSE]
                                  ELSE asks[r]]
      /\ working' = FALSE /\ offered' \in WorkerBuild /\ UNCHANGED <<selection, row, unsaved, dialogs>>
  BY DEF Stops
<1>3. ASSUME NEW r \in Slot PROVE GoesOn(r)
  <2>1. asks[r] \in AskState /\ AnswerIsSound(r)
    BY <1>1 DEF SettingsTypeOK, SettingsIInv
  <2>2. CASE asks[r].phase \in {"asked", "applied"}
    <3>1. asks'[r] = [asks[r] EXCEPT !.phase = "answered", !.ok = FALSE]
      BY <1>2, <2>2
    <3> QED
      BY <2>1, <2>2, <3>1 DEF AskState, GoesOn, AnswerIsSound
  <2>3. CASE asks[r].phase \notin {"asked", "applied"}
    <3>1. asks'[r] = asks[r]
      BY <1>2, <2>3
    <3> QED
      BY <2>1, <3>1 DEF GoesOn, AnswerIsSound
  <2> QED
    BY <2>2, <2>3
<1>4. asks' = [r \in Slot |-> asks'[r]]
  BY <1>2
<1>5. /\ asks' \in [Slot -> AskState] /\ dialogs' \in [Dialog -> DialogState]
      /\ OneSave'
      /\ \A r \in Slot : AnswerIsSound(r)'
      /\ \A d \in Dialog : FormIsSound(dialogs[d])' /\ WaitIsSound(d)'
  BY <1>2, <1>3, <1>4, AsksGoOn
<1>6. SettingsTypeOK'
  BY <1>1, <1>2, <1>5 DEF SettingsTypeOK
<1>7. RowIsSound' /\ WorkerIsSound'
  BY <1>2 DEF SettingsIInv, RowIsSound, WorkerIsSound
<1> QED
  BY <1>5, <1>6, <1>7 DEF SettingsIInv

\* The answer that the worker gives.
LEMMA ServedGoesOn ==
  ASSUME SettingsIInv, NEW r \in Slot, NEW ok \in BOOLEAN, asks[r].phase # "none",
         ok => working, Served(r, ok)
  PROVE  asks' = [s \in Slot |-> asks'[s]] /\ \A s \in Slot : GoesOn(s)
<1> DEFINE answer == IF ok THEN Current ELSE asks[r].answer
           ask == [asks[r] EXCEPT !.phase = "answered", !.ok = ok, !.answer = answer]
<1>1. asks \in [Slot -> AskState] /\ asks[r] \in AskState
  BY DEF SettingsIInv, SettingsTypeOK
<1>2. asks' = [asks EXCEPT ![r] = ask]
  BY DEF Served
<1>3. Current \in Answer /\ Current.models = offered /\ Current.choice = selection
  <2>1. /\ selection \in Selection /\ offered \in Catalogue
        /\ row.lastModels \in [Provider -> Model \cup {NoModel}]
    BY SettingsAssumption DEF SettingsIInv, SettingsTypeOK, RowState
  <2> QED
    BY <2>1 DEF Current, Answer
<1>4. answer \in Answer /\ (ok => Offers(answer.models, answer.choice))
  <2>1. asks[r].answer \in Answer
    BY <1>1 DEF AskState
  <2>2. ok => Offers(offered, selection)
    BY DEF SettingsIInv, WorkerIsSound
  <2> QED
    BY <1>3, <2>1, <2>2
<1> HIDE DEF answer
<1>5. /\ ask \in AskState /\ ask.by = asks[r].by /\ ask.kind = asks[r].kind /\ ask.phase = "answered"
      /\ ask.ok = ok /\ ask.answer = answer
  BY <1>1, <1>4 DEF AskState
<1> HIDE DEF ask
<1>6. GoesOn(r)
  <2>1. asks'[r] = ask
    BY <1>1, <1>2
  <2> QED
    BY <1>4, <1>5, <2>1 DEF GoesOn, AnswerIsSound
<1>7. ASSUME NEW s \in Slot \ {r} PROVE GoesOn(s)
  <2>1. asks'[s] = asks[s] /\ asks[s] \in AskState /\ AnswerIsSound(s)
    BY <1>1, <1>2 DEF SettingsIInv
  <2> QED
    BY <2>1 DEF GoesOn, AnswerIsSound
<1>8. asks' = [s \in Slot |-> asks'[s]]
  BY <1>1, <1>2
<1> QED
  BY <1>6, <1>7, <1>8

\* A step that leaves the selection and the row alone.
LEMMA AnswersInv ==
  ASSUME SettingsIInv, NEW r \in Slot, NEW ok \in BOOLEAN, asks[r].phase # "none",
         ok => working, Served(r, ok), UNCHANGED <<offered, working, selection, row, unsaved, dialogs>>
  PROVE  SettingsIInv'
<1>1. /\ asks' \in [Slot -> AskState] /\ dialogs' \in [Dialog -> DialogState]
      /\ OneSave'
      /\ \A s \in Slot : AnswerIsSound(s)'
      /\ \A d \in Dialog : FormIsSound(dialogs[d])' /\ WaitIsSound(d)'
  <2>1. asks' = [s \in Slot |-> asks'[s]] /\ \A s \in Slot : GoesOn(s)
    BY ServedGoesOn
  <2> QED
    BY <2>1, AsksGoOn
<1>2. SettingsTypeOK'
  BY <1>1 DEF SettingsIInv, SettingsTypeOK
<1>3. RowIsSound' /\ WorkerIsSound'
  BY DEF SettingsIInv, RowIsSound, WorkerIsSound
<1> QED
  BY <1>1, <1>2, <1>3 DEF SettingsIInv

\* The settings are sent, to a load or after a save.
LEMMA ServeSettingsInv == ASSUME SettingsIInv, NEW r \in Slot, ServeSettings(r) PROVE SettingsIInv'
<1>1. asks[r].phase # "none"
  BY DEF ServeSettings
<1> QED
  BY <1>1, AnswersInv DEF ServeSettings

\* A choice is refused, or an answer is lost.
LEMMA RefusesInv == ASSUME SettingsIInv, NEW r \in Slot, Refuses(r) PROVE SettingsIInv'
<1>1. asks[r].phase # "none"
  BY DEF Refuses
<1> QED
  BY <1>1, AnswersInv DEF Refuses

\* A choice takes effect, and is written or not.
LEMMA TakesInv ==
  ASSUME SettingsIInv, NEW choice \in Selection, NEW written \in BOOLEAN, Takes(choice, written),
         asks' = [r \in Slot |-> asks'[r]], \A r \in Slot : GoesOn(r),
         UNCHANGED <<offered, working, dialogs>>
  PROVE  SettingsIInv'
<1>1. /\ working /\ Offers(offered, choice) /\ selection' = choice /\ unsaved' = ~written
      /\ row' = IF written THEN Written(row, choice) ELSE row
  BY DEF Takes
<1>2. offered \in Catalogue /\ row \in RowState /\ choice.provider \in Provider
  BY SettingsAssumption DEF SettingsIInv, SettingsTypeOK, Selection
<1>3. choice.model \in Model
  BY <1>1, <1>2 DEF Offers, Catalogue
<1>4. /\ Written(row, choice) \in RowState
      /\ Written(row, choice).provider = choice.provider /\ Written(row, choice).model = choice.model
      /\ Written(row, choice).lastModels[choice.provider] = choice.model
  BY <1>2, <1>3 DEF Written, RowState
<1>5. row' \in RowState /\ RowIsSound'
  <2>1. CASE written
    BY <1>1, <1>4, <2>1 DEF RowIsSound
  <2>2. CASE ~written
    BY <1>1, <1>2, <2>2 DEF RowIsSound, SettingsIInv
  <2> QED
    BY <2>1, <2>2
<1>6. WorkerIsSound'
  BY <1>1, <1>4 DEF WorkerIsSound
<1>7. /\ asks' \in [Slot -> AskState] /\ dialogs' \in [Dialog -> DialogState]
      /\ OneSave'
      /\ \A s \in Slot : AnswerIsSound(s)'
      /\ \A d \in Dialog : FormIsSound(dialogs[d])' /\ WaitIsSound(d)'
  BY AsksGoOn
<1>8. SettingsTypeOK'
  BY <1>1, <1>5, <1>7 DEF SettingsTypeOK, SettingsIInv
<1> QED
  BY <1>5, <1>6, <1>7, <1>8 DEF SettingsIInv

\* A save takes effect, and is answered when it cannot be written.
LEMMA UpdateSettingsInv == ASSUME SettingsIInv, NEW r \in Slot, UpdateSettings(r) PROVE SettingsIInv'
<1>1. asks \in [Slot -> AskState] /\ asks[r] \in AskState
  BY DEF SettingsIInv, SettingsTypeOK
<1>2. asks[r].phase = "asked" /\ asks[r].choice \in Selection /\ UNCHANGED <<offered, working, dialogs>>
  BY <1>1 DEF UpdateSettings, AskState
<1>3. CASE Takes(asks[r].choice, TRUE) /\ asks' = [asks EXCEPT ![r].phase = "applied"]
  <2>1. asks' = [s \in Slot |-> asks'[s]]
    BY <1>1, <1>3
  <2>2. ASSUME NEW s \in Slot PROVE GoesOn(s)
    <3>1. asks[s] \in AskState /\ AnswerIsSound(s)
      BY <1>1 DEF SettingsIInv
    <3>2. CASE s = r
      <4>1. asks'[r] = [asks[r] EXCEPT !.phase = "applied"]
        BY <1>1, <1>3
      <4> QED
        BY <1>2, <3>1, <3>2, <4>1 DEF AskState, GoesOn, AnswerIsSound
    <3>3. CASE s # r
      <4>1. asks'[s] = asks[s]
        BY <1>1, <1>3, <3>3
      <4> QED
        BY <3>1, <4>1 DEF GoesOn, AnswerIsSound
    <3> QED
      BY <3>2, <3>3
  <2> QED
    BY <1>2, <1>3, <2>1, <2>2, TakesInv
<1>4. CASE Takes(asks[r].choice, FALSE) /\ Served(r, FALSE)
  <2>1. asks' = [s \in Slot |-> asks'[s]] /\ \A s \in Slot : GoesOn(s)
    BY <1>2, <1>4, ServedGoesOn
  <2> QED
    BY <1>2, <1>4, <2>1, TakesInv
<1> QED
  BY <1>3, <1>4 DEF UpdateSettings

\* Another device chooses.
LEMMA OtherDeviceSavesInv == ASSUME SettingsIInv, OtherDeviceSaves PROVE SettingsIInv'
<1>1. PICK provider \in Provider, model \in Model, written \in BOOLEAN :
         Takes(Chosen(provider, model), written)
  BY DEF OtherDeviceSaves
<1>2. Chosen(provider, model) \in Selection
  BY SettingsTypes
<1>3. UNCHANGED <<offered, working, dialogs, asks>>
  BY DEF OtherDeviceSaves
<1>4. asks' = [r \in Slot |-> asks'[r]] /\ \A r \in Slot : GoesOn(r)
  BY <1>3, UnchangedGoOn
<1> QED
  BY <1>1, <1>2, <1>3, <1>4, TakesInv

-----------------------------------------------------------------------------
(* The steps of a page                                                     *)

\* A step that leaves the worker alone.
LEMMA PageSteps ==
  ASSUME SettingsIInv, UNCHANGED <<offered, working, selection, row, unsaved>>,
         asks' \in [Slot -> AskState], dialogs' \in [Dialog -> DialogState],
         OneSave', \A r \in Slot : AnswerIsSound(r)',
         \A d \in Dialog : FormIsSound(dialogs[d])' /\ WaitIsSound(d)'
  PROVE  SettingsIInv'
<1>1. SettingsTypeOK'
  BY DEF SettingsIInv, SettingsTypeOK
<1>2. RowIsSound' /\ WorkerIsSound'
  BY DEF SettingsIInv, RowIsSound, WorkerIsSound
<1> QED
  BY <1>1, <1>2 DEF SettingsIInv

\* A step of one page that asks for nothing.
LEMMA OneDialogSteps ==
  ASSUME SettingsIInv, NEW d \in Dialog, NEW dialog \in DialogState,
         dialogs' = [dialogs EXCEPT ![d] = dialog],
         UNCHANGED <<offered, working, selection, row, unsaved, asks>>,
         FormIsSound(dialog), dialog.saving = dialogs[d].saving, dialog.state = dialogs[d].state
  PROVE  SettingsIInv'
<1>1. dialogs \in [Dialog -> DialogState] /\ asks \in [Slot -> AskState]
  BY DEF SettingsIInv, SettingsTypeOK
<1>2. dialogs' \in [Dialog -> DialogState] /\ dialogs'[d] = dialog
      /\ \A e \in Dialog \ {d} : dialogs'[e] = dialogs[e]
  BY <1>1
<1>3. OneSave' /\ \A r \in Slot : AnswerIsSound(r)'
  BY DEF SettingsIInv, OneSave, IsSave, AnswerIsSound
<1>4. ASSUME NEW e \in Dialog PROVE FormIsSound(dialogs[e])'
  <2>1. FormIsSound(dialogs'[e])
    BY <1>2 DEF SettingsIInv
  <2> QED
    BY <2>1 DEF FormIsSound
<1>5. \A e \in Dialog, kind \in {"load", "save"} : Awaits(e, kind)' <=> Awaits(e, kind)
  BY DEF Awaits
<1>6. \A e \in Dialog : WaitIsSound(e)'
  BY <1>2, <1>5 DEF SettingsIInv, WaitIsSound
<1> QED
  BY <1>1, <1>2, <1>3, <1>4, <1>6, PageSteps

\* A page that has been told the settings.
LEMMA KnownIs ==
  ASSUME NEW dialog \in DialogState, NEW answer \in Answer, Offers(answer.models, answer.choice)
  PROVE  /\ Known(dialog, answer) \in DialogState
         /\ FormIsSound(Known(dialog, answer))
         /\ Known(dialog, answer).state = dialog.state
         /\ Known(dialog, answer).saving = dialog.saving
         /\ Known(dialog, answer).open = dialog.open
         /\ Known(dialog, answer).known
<1>1. answer.choice \in Selection
  BY DEF Answer
<1>2. /\ Known(dialog, answer) \in DialogState
      /\ Known(dialog, answer).state = dialog.state
      /\ Known(dialog, answer).saving = dialog.saving
      /\ Known(dialog, answer).open = dialog.open
      /\ Known(dialog, answer).known
      /\ Known(dialog, answer).settings = answer
      /\ Known(dialog, answer).draft = answer.choice
  BY <1>1 DEF Known, DialogState
<1> QED
  BY <1>2 DEF FormIsSound

\* What a form shows does not depend on whether it is open or busy.
LEMMA FormKeeps ==
  ASSUME NEW dialog, NEW other, FormIsSound(dialog), other.known = dialog.known,
         other.settings = dialog.settings, other.draft = dialog.draft,
         other.state = "ready" => dialog.state = "ready"
  PROVE  FormIsSound(other)
  BY DEF FormIsSound

\* The dialog is opened with what was chosen last.
LEMMA OpenSettingsInv == ASSUME SettingsIInv, NEW d \in Dialog, OpenSettings(d) PROVE SettingsIInv'
<1> DEFINE known == Known(dialogs[d], dialogs[d].settings)
           dialog == IF dialogs[d].known THEN [known EXCEPT !.open = TRUE]
                     ELSE [dialogs[d] EXCEPT !.open = TRUE]
<1>1. dialogs[d] \in DialogState /\ FormIsSound(dialogs[d]) /\ dialogs[d].settings \in Answer
  BY DEF SettingsIInv, SettingsTypeOK, DialogState
<1>2. dialogs' = [dialogs EXCEPT ![d] = dialog]
      /\ UNCHANGED <<offered, working, selection, row, unsaved, asks>>
  BY DEF OpenSettings
<1>3. dialog \in DialogState /\ FormIsSound(dialog)
      /\ dialog.saving = dialogs[d].saving /\ dialog.state = dialogs[d].state
  <2>1. CASE dialogs[d].known
    <3>1. /\ known \in DialogState /\ FormIsSound(known) /\ known.state = dialogs[d].state
          /\ known.saving = dialogs[d].saving
      BY <1>1, <2>1, KnownIs DEF FormIsSound
    <3>2. dialog = [known EXCEPT !.open = TRUE]
      BY <2>1
    <3> HIDE DEF known, dialog
    <3> QED
      BY <3>1, <3>2 DEF DialogState, FormIsSound
  <2>2. CASE ~dialogs[d].known
    <3>1. dialog = [dialogs[d] EXCEPT !.open = TRUE]
      BY <2>2
    <3> HIDE DEF dialog
    <3> QED
      BY <1>1, <3>1 DEF DialogState, FormIsSound
  <2> QED
    BY <2>1, <2>2
<1> HIDE DEF dialog
<1> QED
  BY <1>2, <1>3, OneDialogSteps

\* The dialog is closed.
LEMMA CloseSettingsInv == ASSUME SettingsIInv, NEW d \in Dialog, CloseSettings(d) PROVE SettingsIInv'
<1> DEFINE dialog == [dialogs[d] EXCEPT !.open = FALSE]
<1>1. dialogs[d] \in DialogState /\ FormIsSound(dialogs[d])
  BY DEF SettingsIInv, SettingsTypeOK
<1>2. dialogs' = [dialogs EXCEPT ![d] = dialog]
      /\ UNCHANGED <<offered, working, selection, row, unsaved, asks>>
  BY <1>1 DEF CloseSettings, SettingsIInv, SettingsTypeOK, DialogState
<1>3. dialog \in DialogState /\ FormIsSound(dialog)
      /\ dialog.saving = dialogs[d].saving /\ dialog.state = dialogs[d].state
  BY <1>1 DEF DialogState, FormIsSound
<1> HIDE DEF dialog
<1> QED
  BY <1>2, <1>3, OneDialogSteps

\* The model that is proposed is one of the provider's, if it has any.
LEMMA ProposedIsOffered ==
  ASSUME NEW settings \in Answer, NEW provider \in Provider
  PROVE  /\ ProposedModel(settings, provider) \in Model \cup {NoModel}
         /\ settings.models[provider] # {} =>
               ProposedModel(settings, provider) \in settings.models[provider]
<1>1. settings.models[provider] \subseteq Model
  BY DEF Answer, Catalogue
<1> QED
  BY <1>1 DEF ProposedModel

\* Another draft that could be saved.
LEMMA ChangesDraft ==
  ASSUME SettingsIInv, NEW d \in Dialog, NEW draft \in Selection, ShowsForm(d),
         dialogs[d].settings.models[draft.provider] # {} => Offers(dialogs[d].settings.models, draft),
         dialogs' = [dialogs EXCEPT ![d] = [dialogs[d] EXCEPT !.draft = draft]],
         UNCHANGED <<offered, working, selection, row, unsaved, asks>>
  PROVE  SettingsIInv'
<1> DEFINE dialog == [dialogs[d] EXCEPT !.draft = draft]
<1>1. dialogs[d] \in DialogState /\ FormIsSound(dialogs[d])
  BY DEF SettingsIInv, SettingsTypeOK
<1>2. dialog \in DialogState /\ FormIsSound(dialog)
      /\ dialog.saving = dialogs[d].saving /\ dialog.state = dialogs[d].state
  BY <1>1 DEF DialogState, FormIsSound
<1> HIDE DEF dialog
<1> QED
  BY <1>2, OneDialogSteps DEF dialog

\* The other provider, with the model that is proposed.
LEMMA ChangeProviderInv ==
  ASSUME SettingsIInv, NEW d \in Dialog, NEW provider \in Provider, ChangeProvider(d, provider)
  PROVE  SettingsIInv'
<1> DEFINE model == ProposedModel(dialogs[d].settings, provider)
           draft == Chosen(provider, model)
<1>1. dialogs[d] \in DialogState /\ dialogs[d].settings \in Answer
  BY DEF SettingsIInv, SettingsTypeOK, DialogState
<1>2. model \in Model \cup {NoModel}
      /\ (dialogs[d].settings.models[provider] # {} => model \in dialogs[d].settings.models[provider])
  BY <1>1, ProposedIsOffered
<1>3. ShowsForm(d) /\ dialogs' = [dialogs EXCEPT ![d] = [dialogs[d] EXCEPT !.draft = draft]]
      /\ UNCHANGED <<offered, working, selection, row, unsaved, asks>>
  BY <1>1 DEF ChangeProvider, SettingsIInv, SettingsTypeOK
<1> HIDE DEF model
<1>4. draft \in Selection /\ draft.provider = provider /\ draft.model = model
  BY <1>2, SettingsTypes
<1> HIDE DEF draft
<1>5. dialogs[d].settings.models[draft.provider] # {} => Offers(dialogs[d].settings.models, draft)
  BY <1>2, <1>4 DEF Offers
<1> QED
  BY <1>3, <1>4, <1>5, ChangesDraft

\* Another model of the provider.
LEMMA ChangeModelInv ==
  ASSUME SettingsIInv, NEW d \in Dialog, NEW model \in Model, ChangeModel(d, model)
  PROVE  SettingsIInv'
<1> DEFINE draft == [dialogs[d].draft EXCEPT !.model = model]
<1>1. dialogs[d] \in DialogState /\ dialogs[d].draft \in Selection
  BY DEF SettingsIInv, SettingsTypeOK, DialogState
<1>2. ShowsForm(d) /\ model \in dialogs[d].settings.models[dialogs[d].draft.provider]
      /\ UNCHANGED <<offered, working, selection, row, unsaved, asks>>
  BY DEF ChangeModel
<1>3. dialogs' = [dialogs EXCEPT ![d] = [dialogs[d] EXCEPT !.draft = draft]]
  BY <1>1 DEF ChangeModel, SettingsIInv, SettingsTypeOK, DialogState
<1>4. draft \in Selection /\ draft.provider = dialogs[d].draft.provider /\ draft.model = model
  BY <1>1 DEF Selection
<1> HIDE DEF draft
<1>5. Offers(dialogs[d].settings.models, draft)
  BY <1>2, <1>4 DEF Offers
<1> QED
  BY <1>2, <1>3, <1>4, <1>5, ChangesDraft

-----------------------------------------------------------------------------
(* Requests of a page                                                      *)

\* What is asked, of requests that run.
Asked(d, kind) ==
    [NoAsk(d) EXCEPT !.phase = IF working THEN "asked" ELSE "answered", !.kind = kind,
                     !.choice = IF kind = "save" THEN dialogs[d].draft ELSE NoAsk(d).choice]

\* A request that has been made runs.
LEMMA AskedIs ==
  ASSUME SettingsIInv, NEW d \in Dialog, NEW kind \in {"load", "save"}
  PROVE  /\ Asked(d, kind) \in AskState
         /\ Asked(d, kind).phase # "none" /\ Asked(d, kind).kind = kind
         /\ Asked(d, kind).by = d /\ ~Asked(d, kind).ok
<1> DEFINE choice == IF kind = "save" THEN dialogs[d].draft ELSE NoAsk(d).choice
           stage == IF working THEN "asked" ELSE "answered"
<1>1. NoAsk(d) \in AskState /\ NoAsk(d).by = d /\ ~NoAsk(d).ok
  BY NoAskType
<1>2. choice \in Selection
  BY <1>1 DEF SettingsIInv, SettingsTypeOK, DialogState, AskState
<1>3. stage \in {"asked", "answered"}
  OBVIOUS
<1>4. Asked(d, kind) = [NoAsk(d) EXCEPT !.phase = stage, !.kind = kind, !.choice = choice]
  BY DEF Asked
<1> HIDE DEF choice, stage
<1> QED
  BY <1>1, <1>2, <1>3, <1>4 DEF AskState

(* One page asks; of its other requests, running is what is left.          *)
LEMMA AsksOne ==
  ASSUME SettingsIInv, NEW d \in Dialog, NEW kind \in {"load", "save"},
         NEW running \in [Slot -> AskState], NEW dialog \in DialogState,
         \A r \in Slot : \/ running[r] = asks[r]
                         \/ asks[r].by = d /\ running[r].phase = "none" /\ ~running[r].ok,
         Sends(d, kind, running),
         kind = "save" => \A r \in Slot :
            ~(running[r].phase # "none" /\ running[r].kind = "save" /\ running[r].by = d),
         dialogs' = [dialogs EXCEPT ![d] = dialog],
         UNCHANGED <<offered, working, selection, row, unsaved>>,
         FormIsSound(dialog),
         dialog.saving <=> \/ kind = "save"
                           \/ \E r \in Slot : running[r].phase # "none" /\ running[r].kind = "save"
                                             /\ running[r].by = d,
         dialog.state = "loading" => \/ kind = "load"
                                     \/ \E r \in Slot : running[r].phase # "none"
                                              /\ running[r].kind = "load" /\ running[r].by = d
  PROVE  SettingsIInv'
<1>1. PICK r \in Slot : running[r].phase = "none" /\ asks' = [running EXCEPT ![r] = Asked(d, kind)]
  BY DEF Sends, Asked
<1>2. /\ Asked(d, kind) \in AskState
      /\ Asked(d, kind).phase # "none" /\ Asked(d, kind).kind = kind
      /\ Asked(d, kind).by = d /\ ~Asked(d, kind).ok
  BY AskedIs
<1>3. /\ asks' \in [Slot -> AskState] /\ asks'[r] = Asked(d, kind)
      /\ \A s \in Slot \ {r} : asks'[s] = running[s]
  BY <1>1, <1>2
<1>4. dialogs \in [Dialog -> DialogState]
  BY DEF SettingsIInv, SettingsTypeOK
<1>5. dialogs' \in [Dialog -> DialogState] /\ dialogs'[d] = dialog
      /\ \A e \in Dialog \ {d} : dialogs'[e] = dialogs[e]
  BY <1>4
<1>6. ASSUME NEW s \in Slot, IsSave(s)' PROVE s = r \/ (IsSave(s) /\ asks'[s] = asks[s])
  <2> SUFFICES ASSUME s # r PROVE IsSave(s) /\ asks'[s] = asks[s]
    OBVIOUS
  <2>1. asks'[s] = running[s] /\ running[s].phase # "none"
    BY <1>3, <1>6 DEF IsSave
  <2>2. running[s] = asks[s]
    BY <2>1
  <2> QED
    BY <1>6, <2>1, <2>2 DEF IsSave
<1>7. OneSave'
  <2> SUFFICES ASSUME NEW s \in Slot, NEW t \in Slot, IsSave(s)', IsSave(t)', asks'[s].by = asks'[t].by,
                      s # t
               PROVE  FALSE
    BY DEF OneSave, IsSave
  <2>1. \/ s = r /\ IsSave(t) /\ asks'[t] = asks[t]
        \/ t = r /\ IsSave(s) /\ asks'[s] = asks[s]
        \/ IsSave(s) /\ IsSave(t) /\ asks'[s] = asks[s] /\ asks'[t] = asks[t]
    BY <1>6
  <2>2. CASE IsSave(s) /\ IsSave(t) /\ asks'[s] = asks[s] /\ asks'[t] = asks[t]
    BY <2>2 DEF SettingsIInv, OneSave
  <2>3. CASE s = r
    <3>1. kind = "save" /\ asks'[t].by = d /\ asks'[t] = running[t]
      BY <1>2, <1>3, <2>3 DEF IsSave
    <3> QED
      BY <3>1 DEF IsSave
  <2>4. CASE t = r
    <3>1. kind = "save" /\ asks'[s].by = d /\ asks'[s] = running[s]
      BY <1>2, <1>3, <2>4 DEF IsSave
    <3> QED
      BY <3>1 DEF IsSave
  <2> QED
    BY <2>1, <2>2, <2>3, <2>4
<1>8. ASSUME NEW s \in Slot PROVE AnswerIsSound(s)'
  <2>1. CASE s = r
    BY <1>2, <1>3, <2>1 DEF AnswerIsSound
  <2>2. CASE s # r
    <3>1. asks'[s] = running[s] /\ AnswerIsSound(s)
      BY <1>3, <2>2 DEF SettingsIInv
    <3> QED
      BY <3>1 DEF AnswerIsSound
  <2> QED
    BY <2>1, <2>2
<1>9. ASSUME NEW e \in Dialog PROVE FormIsSound(dialogs[e])'
  <2>1. FormIsSound(dialogs'[e])
    BY <1>5 DEF SettingsIInv
  <2> QED
    BY <2>1 DEF FormIsSound
<1>10. WaitIsSound(d)'
  <2>1. \A k \in {"load", "save"} : Awaits(d, k)' <=>
           \/ kind = k
           \/ \E s \in Slot : running[s].phase # "none" /\ running[s].kind = k /\ running[s].by = d
    BY <1>1, <1>2, <1>3 DEF Awaits
  <2> QED
    BY <1>5, <2>1 DEF WaitIsSound
<1>11. ASSUME NEW e \in Dialog \ {d} PROVE WaitIsSound(e)'
  <2>1. \A s \in Slot \ {r} : asks[s].by = e => running[s] = asks[s] /\ asks'[s] = asks[s]
    BY <1>3
  <2>2. \A s \in Slot : asks'[s].by = e /\ asks'[s].phase # "none" => asks'[s] = asks[s]
    BY <1>2, <1>3
  <2>3. asks[r].by = e => asks[r].phase = "none"
    BY <1>1
  <2>4. \A k \in {"load", "save"} : Awaits(e, k)' <=> Awaits(e, k)
    BY <2>1, <2>2, <2>3 DEF Awaits
  <2> QED
    BY <1>5, <2>4 DEF SettingsIInv, WaitIsSound
<1> QED
  BY <1>3, <1>5, <1>7, <1>8, <1>9, <1>10, <1>11, PageSteps

\* A page is loaded: nobody waits for what it had asked.
LEMMA MountDialogInv == ASSUME SettingsIInv, NEW d \in Dialog, MountDialog(d) PROVE SettingsIInv'
<1> DEFINE running == [r \in Slot |-> IF asks[r].by = d THEN NoAsk(d) ELSE asks[r]]
           dialog == NewDialog("loading")
<1>1. asks \in [Slot -> AskState]
  BY DEF SettingsIInv, SettingsTypeOK
<1>2. running \in [Slot -> AskState]
  BY <1>1, NoAskType
<1>3. \A r \in Slot : \/ running[r] = asks[r] /\ asks[r].by # d
                      \/ asks[r].by = d /\ running[r].phase = "none" /\ ~running[r].ok
  BY NoAskType
<1>4. dialog \in DialogState /\ dialog.state = "loading" /\ ~dialog.known /\ ~dialog.saving
  BY NewDialogType
<1>5. dialogs' = [dialogs EXCEPT ![d] = dialog] /\ Sends(d, "load", running)
      /\ UNCHANGED <<offered, working, selection, row, unsaved>>
  BY DEF MountDialog
<1> HIDE DEF running, dialog
<1>6. FormIsSound(dialog)
  BY <1>4 DEF FormIsSound
<1>7. \A r \in Slot : ~(running[r].phase # "none" /\ running[r].kind = "save" /\ running[r].by = d)
  BY <1>3
<1> QED
  BY <1>2, <1>3, <1>4, <1>5, <1>6, <1>7, AsksOne

\* Another load beside those that run.
LEMMA RetrySettingsInv == ASSUME SettingsIInv, NEW d \in Dialog, RetrySettings(d) PROVE SettingsIInv'
<1>1. asks \in [Slot -> AskState] /\ dialogs[d] \in DialogState /\ FormIsSound(dialogs[d])
      /\ WaitIsSound(d) /\ dialogs \in [Dialog -> DialogState]
  BY DEF SettingsIInv, SettingsTypeOK
<1>2. Sends(d, "load", asks) /\ UNCHANGED <<offered, working, selection, row, unsaved, dialogs>>
  BY DEF RetrySettings
<1>3. dialogs' = [dialogs EXCEPT ![d] = dialogs[d]]
  BY <1>1, <1>2
<1>4. dialogs[d].saving <=>
         \E r \in Slot : asks[r].phase # "none" /\ asks[r].kind = "save" /\ asks[r].by = d
  BY <1>1 DEF WaitIsSound, Awaits
<1> QED
  BY <1>1, <1>2, <1>3, <1>4, AsksOne

\* A save, when none runs.
LEMMA SaveSettingsInv == ASSUME SettingsIInv, NEW d \in Dialog, SaveSettings(d) PROVE SettingsIInv'
<1> DEFINE dialog == [dialogs[d] EXCEPT !.saving = TRUE, !.error = FALSE]
<1>1. asks \in [Slot -> AskState] /\ dialogs[d] \in DialogState /\ FormIsSound(dialogs[d])
      /\ WaitIsSound(d) /\ dialogs \in [Dialog -> DialogState]
  BY DEF SettingsIInv, SettingsTypeOK
<1>2. ~dialogs[d].saving /\ Sends(d, "save", asks) /\ dialogs[d].state = "ready"
      /\ UNCHANGED <<offered, working, selection, row, unsaved>>
  BY DEF SaveSettings, ShowsForm
<1>3. dialogs' = [dialogs EXCEPT ![d] = dialog]
  BY <1>1 DEF SaveSettings, DialogState
<1>4. dialog \in DialogState /\ FormIsSound(dialog) /\ dialog.saving /\ dialog.state = "ready"
  BY <1>1, <1>2 DEF DialogState, FormIsSound
<1>5. \A r \in Slot : ~(asks[r].phase # "none" /\ asks[r].kind = "save" /\ asks[r].by = d)
  BY <1>1, <1>2 DEF WaitIsSound, Awaits
<1> HIDE DEF dialog
<1> QED
  BY <1>1, <1>2, <1>3, <1>4, <1>5, AsksOne

\* An answer is read: it is no longer awaited.
LEMMA ReadsAnswer ==
  ASSUME SettingsIInv, NEW r \in Slot, NEW dialog \in DialogState, asks[r].phase # "none",
         dialogs' = [dialogs EXCEPT ![asks[r].by] = dialog],
         asks' = [asks EXCEPT ![r] = NoAsk(asks[r].by)],
         UNCHANGED <<offered, working, selection, row, unsaved>>,
         FormIsSound(dialog),
         dialog.state = "loading" => asks[r].kind = "save" /\ dialogs[asks[r].by].state = "loading",
         dialog.saving <=> asks[r].kind # "save" /\ dialogs[asks[r].by].saving
  PROVE  SettingsIInv'
<1>1. PICK d \in Dialog :
        /\ d = asks[r].by /\ asks[r].kind \in {"load", "save"}
        /\ asks \in [Slot -> AskState] /\ dialogs \in [Dialog -> DialogState]
  BY DEF SettingsIInv, SettingsTypeOK, AskState
<1>2. NoAsk(d) \in AskState /\ NoAsk(d).phase = "none" /\ ~NoAsk(d).ok
  BY <1>1, NoAskType
<1>3. /\ asks' \in [Slot -> AskState] /\ asks'[r] = NoAsk(d)
      /\ \A s \in Slot \ {r} : asks'[s] = asks[s]
  BY <1>1, <1>2
<1>4. dialogs' \in [Dialog -> DialogState] /\ dialogs'[d] = dialog
      /\ \A e \in Dialog \ {d} : dialogs'[e] = dialogs[e]
  BY <1>1
<1>5. OneSave'
  BY <1>2, <1>3 DEF SettingsIInv, OneSave, IsSave
<1>6. \A s \in Slot : AnswerIsSound(s)'
  BY <1>2, <1>3 DEF SettingsIInv, AnswerIsSound
<1>7. ASSUME NEW e \in Dialog PROVE FormIsSound(dialogs[e])'
  <2>1. FormIsSound(dialogs'[e])
    BY <1>4 DEF SettingsIInv
  <2> QED
    BY <2>1 DEF FormIsSound
<1>8. \A e \in Dialog, kind \in {"load", "save"} :
        Awaits(e, kind)' <=>
           \E s \in Slot \ {r} : asks[s].phase # "none" /\ asks[s].kind = kind /\ asks[s].by = e
  BY <1>2, <1>3 DEF Awaits
<1>9. \A e \in Dialog, kind \in {"load", "save"} :
        (e # d \/ kind # asks[r].kind) => (Awaits(e, kind)' <=> Awaits(e, kind))
  <2> SUFFICES ASSUME NEW e \in Dialog, NEW kind \in {"load", "save"}, e # d \/ kind # asks[r].kind
               PROVE  Awaits(e, kind)' <=> Awaits(e, kind)
    OBVIOUS
  <2>1. Awaits(e, kind)' <=>
           \E s \in Slot \ {r} : asks[s].phase # "none" /\ asks[s].kind = kind /\ asks[s].by = e
    BY <1>8
  <2>2. ~(asks[r].kind = kind /\ asks[r].by = e)
    BY <1>1
  <2> QED
    BY <2>1, <2>2 DEF Awaits
<1>10. asks[r].kind = "save" => ~Awaits(d, "save")'
  <2> SUFFICES ASSUME asks[r].kind = "save", Awaits(d, "save")' PROVE FALSE
    OBVIOUS
  <2>1. PICK s \in Slot \ {r} : asks[s].phase # "none" /\ asks[s].kind = "save" /\ asks[s].by = d
    BY <1>8
  <2>2. IsSave(s) /\ IsSave(r) /\ asks[s].by = asks[r].by /\ s # r
    BY <1>1, <2>1 DEF IsSave
  <2> QED
    BY <2>2 DEF SettingsIInv, OneSave
<1>11. WaitIsSound(d)
  BY DEF SettingsIInv
<1>12. WaitIsSound(d)'
  BY <1>1, <1>4, <1>9, <1>10, <1>11 DEF WaitIsSound
<1>13. \A e \in Dialog \ {d} : WaitIsSound(e)'
  BY <1>4, <1>9 DEF SettingsIInv, WaitIsSound
<1> QED
  BY <1>3, <1>4, <1>5, <1>6, <1>7, <1>12, <1>13, PageSteps

\* The answer to a load is read.
LEMMA LoadAnsweredInv == ASSUME SettingsIInv, NEW r \in Slot, LoadAnswered(r) PROVE SettingsIInv'
<1> DEFINE d == asks[r].by
           old == dialogs[d]
           known == Known(old, asks[r].answer)
           dialog == IF asks[r].ok THEN [known EXCEPT !.state = "ready"]
                     ELSE [old EXCEPT !.state = "unavailable", !.error = TRUE]
<1>1. asks[r] \in AskState /\ d \in Dialog /\ old \in DialogState /\ FormIsSound(old)
      /\ asks[r].answer \in Answer /\ AnswerIsSound(r)
  BY DEF SettingsIInv, SettingsTypeOK, AskState
<1>2. asks[r].phase # "none" /\ asks[r].kind = "load" /\ dialogs' = [dialogs EXCEPT ![d] = dialog]
      /\ asks' = [asks EXCEPT ![r] = NoAsk(d)]
      /\ UNCHANGED <<offered, working, selection, row, unsaved>>
  BY DEF LoadAnswered
<1>3. /\ dialog \in DialogState /\ FormIsSound(dialog)
      /\ dialog.state # "loading" /\ dialog.saving = old.saving
  <2>1. CASE asks[r].ok
    <3>1. /\ known \in DialogState /\ FormIsSound(known) /\ known.saving = old.saving /\ known.known
      BY <1>1, <2>1, KnownIs DEF AnswerIsSound
    <3>2. dialog = [known EXCEPT !.state = "ready"]
      BY <2>1
    <3> HIDE DEF known, dialog
    <3> QED
      BY <3>1, <3>2 DEF DialogState, FormIsSound
  <2>2. CASE ~asks[r].ok
    <3>1. dialog = [old EXCEPT !.state = "unavailable", !.error = TRUE]
      BY <2>2
    <3> HIDE DEF dialog, old
    <3> QED
      BY <1>1, <3>1 DEF DialogState, FormIsSound
  <2> QED
    BY <2>1, <2>2
<1> HIDE DEF dialog
<1>4. dialog.saving <=> asks[r].kind # "save" /\ dialogs[asks[r].by].saving
  BY <1>2, <1>3
<1> QED
  BY <1>2, <1>3, <1>4, ReadsAnswer

\* The answer to a save is read.
LEMMA SaveAnsweredInv == ASSUME SettingsIInv, NEW r \in Slot, SaveAnswered(r) PROVE SettingsIInv'
<1> DEFINE d == asks[r].by
           old == dialogs[d]
           known == Known(old, asks[r].answer)
           dialog == IF asks[r].ok THEN [known EXCEPT !.saving = FALSE, !.open = FALSE]
                     ELSE [old EXCEPT !.saving = FALSE, !.error = TRUE]
<1>1. asks[r] \in AskState /\ d \in Dialog /\ old \in DialogState /\ FormIsSound(old)
      /\ asks[r].answer \in Answer /\ AnswerIsSound(r)
  BY DEF SettingsIInv, SettingsTypeOK, AskState
<1>2. asks[r].phase # "none" /\ asks[r].kind = "save" /\ dialogs' = [dialogs EXCEPT ![d] = dialog]
      /\ asks' = [asks EXCEPT ![r] = NoAsk(d)]
      /\ UNCHANGED <<offered, working, selection, row, unsaved>>
  BY DEF SaveAnswered
<1>3. /\ dialog \in DialogState /\ FormIsSound(dialog)
      /\ dialog.state = old.state /\ ~dialog.saving
  <2>1. CASE asks[r].ok
    <3>1. /\ known \in DialogState /\ FormIsSound(known) /\ known.state = old.state
      BY <1>1, <2>1, KnownIs DEF AnswerIsSound
    <3>2. dialog = [known EXCEPT !.saving = FALSE, !.open = FALSE]
      BY <2>1
    <3> HIDE DEF known, dialog
    <3> QED
      BY <3>1, <3>2 DEF DialogState, FormIsSound
  <2>2. CASE ~asks[r].ok
    <3>1. dialog = [old EXCEPT !.saving = FALSE, !.error = TRUE]
      BY <2>2
    <3> HIDE DEF dialog, old
    <3> QED
      BY <1>1, <3>1 DEF DialogState, FormIsSound
  <2> QED
    BY <2>1, <2>2
<1> HIDE DEF dialog
<1>4. dialog.saving <=> asks[r].kind # "save" /\ dialogs[asks[r].by].saving
  BY <1>2, <1>3
<1>5. dialog.state = "loading" => asks[r].kind = "save" /\ dialogs[asks[r].by].state = "loading"
  BY <1>2, <1>3
<1> QED
  BY <1>2, <1>3, <1>4, <1>5, ReadsAnswer

\* Every step of the worker or a page preserves the invariant.
LEMMA SettingsStepInv == SettingsIInv /\ [SettingsNext]_settingsVars => SettingsIInv'
<1> SUFFICES ASSUME SettingsIInv, [SettingsNext]_settingsVars PROVE SettingsIInv'
  OBVIOUS
<1>1. CASE Starts \/ Stops \/ OtherDeviceSaves
  BY <1>1, StartsInv, StopsInv, OtherDeviceSavesInv
<1>2. ASSUME NEW r \in Slot,
             ServeSettings(r) \/ UpdateSettings(r) \/ Refuses(r) \/ LoadAnswered(r) \/ SaveAnswered(r)
      PROVE  SettingsIInv'
  BY <1>2, ServeSettingsInv, UpdateSettingsInv, RefusesInv, LoadAnsweredInv, SaveAnsweredInv
<1>3. ASSUME NEW d \in Dialog,
             MountDialog(d) \/ RetrySettings(d) \/ OpenSettings(d) \/ CloseSettings(d) \/ SaveSettings(d)
      PROVE  SettingsIInv'
  BY <1>3, MountDialogInv, RetrySettingsInv, OpenSettingsInv, CloseSettingsInv, SaveSettingsInv
<1>4. ASSUME NEW d \in Dialog, \/ \E provider \in Provider : ChangeProvider(d, provider)
                               \/ \E model \in Model : ChangeModel(d, model)
      PROVE  SettingsIInv'
  BY <1>4, ChangeProviderInv, ChangeModelInv
<1>5. CASE UNCHANGED settingsVars
  <2>1. \A d \in Dialog : FormIsSound(dialogs[d])' /\ WaitIsSound(d)'
    BY <1>5 DEF settingsVars, SettingsIInv, FormIsSound, WaitIsSound, Awaits
  <2> QED
    BY <1>5, <2>1 DEF settingsVars, SettingsIInv, SettingsTypeOK, RowIsSound, WorkerIsSound, OneSave,
                  IsSave, AnswerIsSound
<1> QED
  BY <1>1, <1>2, <1>3, <1>4, <1>5 DEF SettingsNext

(* The worker uses models that it has, and a form can be saved.            *)
THEOREM SettingsCorrect == SettingsSpec => []SettingsInv
<1>1. SettingsSpec => []SettingsIInv
  BY SettingsInitInv, SettingsStepInv, PTL DEF SettingsSpec
<1> QED
  BY <1>1, SettingsIInvSuffices, PTL

-----------------------------------------------------------------------------
(* The upgrade *)

\* Each behaviour is a behaviour of each part.
LEMMA UpgradeParts ==
  /\ UpgradeInit => Init /\ LanInit /\ IngressInit /\ DeployInit /\ SettingsInit
  /\ [UpgradeNext]_<<part, upgradeVars>> =>
        /\ [Next]_vars /\ [LanNext]_lanVars /\ [IngressNext]_ingressVars
        /\ [DeployNext]_deployVars /\ [SettingsNext]_settingsVars
<1>1. UpgradeInit => Init /\ LanInit /\ IngressInit /\ DeployInit /\ SettingsInit
  BY DEF UpgradeInit
<1>2. ASSUME UpgradeNext \/ UNCHANGED <<part, upgradeVars>>
      PROVE  /\ [Next]_vars /\ [LanNext]_lanVars /\ [IngressNext]_ingressVars
             /\ [DeployNext]_deployVars /\ [SettingsNext]_settingsVars
  <2>1. CASE UNCHANGED <<part, upgradeVars>>
    BY <2>1 DEF upgradeVars
  <2>2. CASE Only("timeline") /\ Next
    BY <2>2 DEF Only
  <2>3. CASE Only("lan") /\ LanNext
    BY <2>3 DEF Only
  <2>4. CASE Only("ingress") /\ IngressNext
    BY <2>4 DEF Only
  <2>5. CASE Only("update") /\ DeployNext
    BY <2>5 DEF Only
  <2>6. CASE Only("settings") /\ SettingsNext
    BY <2>6 DEF Only
  <2> QED
    BY <1>2, <2>1, <2>2, <2>3, <2>4, <2>5, <2>6 DEF UpgradeNext
<1> QED
  BY <1>1, <1>2

\* So each part's theorems are about it.
LEMMA UpgradeSpecs ==
  UpgradeSpec => Spec /\ LanSpec /\ IngressSpec /\ DeploySpec /\ SettingsSpec
  BY UpgradeParts, PTL DEF UpgradeSpec, Spec, LanSpec, IngressSpec, DeploySpec, SettingsSpec

(* Certificates, firewall, deployment and settings: the four invariants    *)
(* together.                                                               *)
THEOREM UpgradeCorrect == UpgradeSpec => []UpgradeInv
<1>1. LanInv /\ IngressInv /\ DeploymentInv /\ SettingsInv => UpgradeInv
  BY DEF UpgradeInv
<1> QED
  BY <1>1, UpgradeSpecs, LanCorrect, IngressCorrect, DeployCorrect, SettingsCorrect, PTL

(* What the firewall drops stays dropped, in every upgrade.                *)
THEOREM UpgradeNoWindow == UpgradeSpec => NoForwardingWindow
  BY UpgradeSpecs, IngressNoWindow, PTL

(* The timeline stays whole and in order, in every upgrade.                *)
THEOREM UpgradeTimeline ==
  UpgradeSpec => /\ []TimelineInv /\ []TimelineFollowsTurns /\ []ToolsInStartOrder
                 /\ SnapshotsAgree
  BY UpgradeSpecs, TimelineCorrect, TurnsStayTogether, ToolsAreInStartOrder, ThreadsAgree, PTL
=============================================================================
