------------------------- MODULE HostServicesProofs -------------------------
(***************************************************************************)
(* HostServices, for any number of tool calls, page reads, runs of the     *)
(* renewal and drives, and every value of the limits: the invariants of    *)
(* the four parts, by themselves and together, and that the Dashboard      *)
(* serves what is installed.  What must eventually happen is left to model *)
(* checking.                                                               *)
(***************************************************************************)
EXTENDS HostServices, TLAPS

-----------------------------------------------------------------------------
(* Media tools.  Until a process of it runs a call has changed nothing;    *)
(* only its last process changes anything, and an answered exit of that    *)
(* one comes after the change.                                             *)
CallInv(c) ==
    /\ result[c] # "none" => stage[c] = "done"
    /\ result[c] = "value" => child[c] = "gone"
    /\ changed[c] => Changes(c)
    /\ stage[c] \in {"idle", "config", "key"} => ~changed[c] /\ child[c] \in {"none", "gone"}
    /\ child[c] = "exited" /\ exit[c] = "answered" /\ Changes(c) => changed[c]

MediaIInv == MediaInv /\ \A c \in Call : CallInv(c)

\* No call has begun.
LEMMA MediaInitInv == MediaInit => MediaIInv
  BY DEF MediaInit, MediaIInv, MediaInv, MediaTypeOK, CallInv, Changes, Steps, Tool, Code,
         NoProcessOutlivesItsCall, ResultsAreAnswers, RefusalsChangeNothing

(* A step of one call keeps the types, variable by variable.               *)
LEMMA MediaTypeStep ==
  ASSUME MediaTypeOK, NEW c \in Call,
         \/ Execute(c) \/ MediaStep(c) \/ Cancel(c) \/ OutputTooLarge(c)
         \/ ChangesLibrary(c) \/ Exits(c) \/ Close(c)
  PROVE  MediaTypeOK'
<1> USE DEF MediaTypeOK, Finish, KillChild, KillAndFinish, RunPython, Code, Steps, Tool,
            Execute, ConfigRead, KeyRead, ProcessTimesOut, OutputTooLarge, Cancel,
            ChangesLibrary, Exits, SigKill, Close, MediaStep
<1>1. tool' \in [Call -> Tool] /\ cancelled' \in [Call -> BOOLEAN]
  OBVIOUS
<1>2. stage' \in [Call -> {"idle", "config", "key", "running", "done"}]
  OBVIOUS
<1>3. step' \in [Call -> 1..2]
  OBVIOUS
<1>4. listening' \in [Call -> BOOLEAN]
  OBVIOUS
<1>5. child' \in [Call -> {"none", "running", "stopping", "exited", "gone"}]
  OBVIOUS
<1>6. exit' \in [Call -> {"none", "answered", "unreadable", "failed"}]
  OBVIOUS
<1>7. changed' \in [Call -> BOOLEAN]
  OBVIOUS
<1>8. result' \in [Call -> Code]
  OBVIOUS
<1> QED
  BY <1>1, <1>2, <1>3, <1>4, <1>5, <1>6, <1>7, <1>8

(* What is said of one call: the conjuncts of CallInv and of MediaInv.     *)
CallIsSound(c) ==
    /\ CallInv(c)
    /\ child[c] = "running" => stage[c] = "running"
    /\ result[c] = "value" =>
          /\ step[c] = Steps(c)
          /\ exit[c] = "answered"
          /\ tool[c] # "look" => changed[c]
    /\ result[c] \in {"invalid_request", "configuration"} =>
          ~changed[c] /\ child[c] \in {"none", "gone"}

\* A step of one call keeps what is said of it.
LEMMA OwnCallStep ==
  ASSUME MediaIInv, NEW c \in Call,
         \/ Execute(c) \/ MediaStep(c) \/ Cancel(c) \/ OutputTooLarge(c)
         \/ ChangesLibrary(c) \/ Exits(c) \/ Close(c)
  PROVE  CallIsSound(c)'
<1> USE DEF MediaIInv, MediaInv, MediaTypeOK, Finish, KillChild, KillAndFinish, RunPython, Code,
            CallIsSound, CallInv, Changes, Steps, Tool,
            NoProcessOutlivesItsCall, ResultsAreAnswers, RefusalsChangeNothing
<1>1. CASE Execute(c)
  BY <1>1 DEF Execute
<1>2. CASE ConfigRead(c)
  BY <1>2 DEF ConfigRead
<1>3. CASE KeyRead(c)
  BY <1>3 DEF KeyRead
<1>4. CASE ProcessTimesOut(c) \/ OutputTooLarge(c)
  BY <1>4 DEF ProcessTimesOut, OutputTooLarge
<1>5. CASE Cancel(c)
  BY <1>5 DEF Cancel
<1>6. CASE ChangesLibrary(c) \/ Exits(c) \/ SigKill(c)
  BY <1>6 DEF ChangesLibrary, Exits, SigKill
<1>7. CASE Close(c)
  BY <1>7 DEF Close
<1> QED
  BY <1>1, <1>2, <1>3, <1>4, <1>5, <1>6, <1>7 DEF MediaStep

\* A step of one call leaves the others alone.
LEMMA OtherCallStep ==
  ASSUME MediaIInv, NEW c \in Call, NEW d \in Call, d # c,
         \/ Execute(c) \/ MediaStep(c) \/ Cancel(c) \/ OutputTooLarge(c)
         \/ ChangesLibrary(c) \/ Exits(c) \/ Close(c)
  PROVE  CallIsSound(d)'
<1>1. /\ tool'[d] = tool[d] /\ stage'[d] = stage[d] /\ step'[d] = step[d]
      /\ child'[d] = child[d] /\ exit'[d] = exit[d] /\ changed'[d] = changed[d]
      /\ result'[d] = result[d]
  BY DEF MediaIInv, MediaInv, MediaTypeOK, MediaStep, Execute, ConfigRead, KeyRead, Cancel,
         ProcessTimesOut, OutputTooLarge, ChangesLibrary, Exits, SigKill, Close,
         Finish, KillChild, KillAndFinish, RunPython
<1> QED
  BY <1>1 DEF MediaIInv, MediaInv, CallIsSound, CallInv, Changes, Steps,
              NoProcessOutlivesItsCall, ResultsAreAnswers, RefusalsChangeNothing

\* Every step of the media tools preserves the invariant.
LEMMA MediaStepInv == MediaIInv /\ [MediaNext]_mediaVars => MediaIInv'
<1> SUFFICES ASSUME MediaIInv, [MediaNext]_mediaVars PROVE MediaIInv'
  OBVIOUS
<1>1. CASE UNCHANGED mediaVars
  BY <1>1 DEF mediaVars, MediaIInv, MediaInv, MediaTypeOK, CallInv, Changes, Steps,
              NoProcessOutlivesItsCall, ResultsAreAnswers, RefusalsChangeNothing
<1>2. CASE MediaNext
  <2>1. PICK c \in Call :
          \/ Execute(c) \/ MediaStep(c) \/ Cancel(c) \/ OutputTooLarge(c)
          \/ ChangesLibrary(c) \/ Exits(c) \/ Close(c)
    BY <1>2 DEF MediaNext
  <2>2. MediaTypeOK'
    BY <2>1, MediaTypeStep DEF MediaIInv, MediaInv
  <2>3. \A d \in Call : CallIsSound(d)'
    BY <2>1, OwnCallStep, OtherCallStep
  <2> QED
    BY <2>2, <2>3 DEF MediaIInv, MediaInv, CallIsSound,
                      NoProcessOutlivesItsCall, ResultsAreAnswers, RefusalsChangeNothing
<1> QED
  BY <1>1, <1>2

(* Whatever the processes do, no process outlives its call, a result is    *)
(* the last process's own answer, and a refusal has changed nothing.       *)
THEOREM MediaCorrect == MediaSpec => []MediaInv
<1>1. MediaIInv => MediaInv
  BY DEF MediaIInv
<1> QED
  BY <1>1, MediaInitInv, MediaStepInv, PTL DEF MediaSpec

-----------------------------------------------------------------------------
(* Web tools.  What is about to be connected to has been checked: a name,  *)
(* or an address that is public.                                           *)
FetchInv(f) ==
    /\ reading[f] = "lookup" => url[f] \in {"name"} \cup Public
    /\ peer[f] \in Public \cup {None}
    /\ over[f] => reading[f] \in {"stuck", "done"}
    /\ reading[f] \in {"stuck", "done"} => peer[f] = None

WebIInv == WebTypeOK /\ \A f \in Fetch : FetchInv(f)

FetchStep(f, target) ==
    \/ FetchPage(f, target) \/ Redirects(f, target) \/ Connect(f) \/ Responds(f)
    \/ BodyGrows(f) \/ BodyEnds(f) \/ CutShort(f)
    \/ Search(f) \/ SearchGrows(f) \/ SearchEnds(f) \/ DeadlinePasses(f)

\* Nothing is being read.
LEMMA WebInitInv == WebInit => WebIInv
  BY WebAssumption DEF WebInit, WebIInv, WebTypeOK, FetchInv

\* A step of one read keeps its counters within their limits.
LEMMA WebCounters ==
  ASSUME WebTypeOK, NEW f \in Fetch, NEW target \in Target, FetchStep(f, target)
  PROVE  hop' \in [Fetch -> 0..MaxRedirects] /\ size' \in [Fetch -> 0..MaxSize]
<1>1. hop' = hop \/ (hop[f] < MaxRedirects /\ hop' = [hop EXCEPT ![f] = hop[f] + 1])
  BY DEF FetchStep, FetchPage, Redirects, Connect, Responds, BodyGrows, BodyEnds, CutShort,
         Search, SearchGrows, SearchEnds, DeadlinePasses, Settle
<1>2. size' = size \/ (size[f] # MaxSize /\ size' = [size EXCEPT ![f] = size[f] + 1])
  BY DEF FetchStep, FetchPage, Redirects, Connect, Responds, BodyGrows, BodyEnds, CutShort,
         Search, SearchGrows, SearchEnds, DeadlinePasses, Settle
<1>3. hop[f] \in 0..MaxRedirects /\ size[f] \in 0..MaxSize
  BY DEF WebTypeOK
<1>4. hop[f] < MaxRedirects => hop[f] + 1 \in 0..MaxRedirects
  BY <1>3, WebAssumption
<1>5. size[f] # MaxSize => size[f] + 1 \in 0..MaxSize
  BY <1>3, WebAssumption
<1> QED
  BY <1>1, <1>2, <1>4, <1>5 DEF WebTypeOK

\* A step of one read keeps the types, variable by variable.
LEMMA WebTypeStep ==
  ASSUME WebTypeOK, NEW f \in Fetch, NEW target \in Target, FetchStep(f, target)
  PROVE  WebTypeOK'
<1> USE DEF WebTypeOK, Settle, Settled, FetchStep, FetchPage, Redirects, Connect, Responds,
            BodyGrows, BodyEnds, CutShort, Search, SearchGrows, SearchEnds, DeadlinePasses, Request
<1>1. reading' \in [Fetch -> {"idle", "lookup", "response", "body", "search", "stuck", "done"}]
  OBVIOUS
<1>2. url' \in [Fetch -> Target \cup {None}]
  OBVIOUS
<1>3. peer' \in [Fetch -> Address \cup {None}]
  OBVIOUS
<1>4. packed' \in [Fetch -> BOOLEAN] /\ over' \in [Fetch -> BOOLEAN]
  OBVIOUS
<1>5. answer' \in [Fetch -> Settled \cup {"none"}]
  OBVIOUS
<1> QED
  BY <1>1, <1>2, <1>3, <1>4, <1>5, WebCounters

\* A step of one read keeps what is said of it.
LEMMA OwnFetchStep ==
  ASSUME WebIInv, NEW f \in Fetch, NEW target \in Target, FetchStep(f, target)
  PROVE  FetchInv(f)'
<1> USE WebAssumption DEF WebIInv, WebTypeOK, FetchInv, Settle, Target
<1>1. CASE FetchPage(f, target)
  BY <1>1 DEF FetchPage, Request
<1>2. CASE Redirects(f, target)
  BY <1>2 DEF Redirects, Request
<1>3. CASE Connect(f)
  BY <1>3 DEF Connect
<1>4. CASE Responds(f) \/ CutShort(f)
  BY <1>4 DEF Responds, CutShort
<1>5. CASE BodyGrows(f) \/ BodyEnds(f)
  BY <1>5 DEF BodyGrows, BodyEnds
<1>6. CASE Search(f) \/ SearchGrows(f) \/ SearchEnds(f)
  BY <1>6 DEF Search, SearchGrows, SearchEnds
<1>7. CASE DeadlinePasses(f)
  BY <1>7 DEF DeadlinePasses
<1> QED
  BY <1>1, <1>2, <1>3, <1>4, <1>5, <1>6, <1>7 DEF FetchStep

\* A step of one read leaves the others alone.
LEMMA OtherFetchStep ==
  ASSUME WebIInv, NEW f \in Fetch, NEW g \in Fetch, g # f,
         NEW target \in Target, FetchStep(f, target)
  PROVE  FetchInv(g)'
<1>1. reading'[g] = reading[g] /\ url'[g] = url[g] /\ peer'[g] = peer[g] /\ over'[g] = over[g]
  BY DEF WebIInv, WebTypeOK, Settle, FetchStep, FetchPage, Redirects, Connect, Responds,
         BodyGrows, BodyEnds, CutShort, Search, SearchGrows, SearchEnds, DeadlinePasses, Request
<1> QED
  BY <1>1 DEF WebIInv, FetchInv

\* Every step of a read or a search preserves the invariant.
LEMMA WebStepInv == WebIInv /\ [WebNext]_webVars => WebIInv'
<1> SUFFICES ASSUME WebIInv, [WebNext]_webVars PROVE WebIInv'
  OBVIOUS
<1>1. CASE UNCHANGED webVars
  BY <1>1 DEF webVars, WebIInv, WebTypeOK, FetchInv
<1>2. CASE WebNext
  <2>1. PICK f \in Fetch, target \in Target : FetchStep(f, target)
    BY <1>2 DEF WebNext, FetchStep, Target
  <2> QED
    BY <2>1, WebTypeStep, OwnFetchStep, OtherFetchStep DEF WebIInv
<1> QED
  BY <1>1, <1>2

(* However pages redirect and names resolve, no connection is open to an   *)
(* address that is not public, and nothing is requested after the          *)
(* deadline.                                                               *)
THEOREM WebCorrect == WebSpec => []WebInv
<1>1. WebIInv => WebInv
  BY DEF WebIInv, FetchInv, WebInv, EveryHopIsChecked, NothingAfterDeadline
<1> QED
  BY <1>1, WebInitInv, WebStepInv, PTL DEF WebSpec

-----------------------------------------------------------------------------
(* Certificates.  What a run has come to says what it has done: it holds   *)
(* the lock, has been issued a pair, has recorded the obligation before it *)
(* replaces a file, and removes the record only after the Dashboard that   *)
(* runs has been started on the installed pair.                            *)
ServerIsCurrent ==
    /\ server = "up" => serves = cert /\ serves = key
    /\ server = "starting" /\ readCert # 0 => readCert = cert

RunInv(r) ==
    /\ at[r] \notin {"idle", "lock"} => lock = r
    /\ at[r] \in {"select", "mark", "cert", "key"} => candidate[r] \in Pair
    /\ at[r] \in {"cert", "key", "restart"} => marker \/ provisioning[r]
    /\ at[r] = "key" => cert = candidate[r]
    /\ at[r] \in {"restart", "unmark", "restart pending", "unmark pending"} => cert = key
    /\ at[r] \in {"unmark", "unmark pending"} => ServerIsCurrent

CertIInv ==
    /\ CertTypeOK
    /\ ~marker /\ ~uncut => ServerIsCurrent
    /\ \A r \in Runner : RunInv(r)

\* No run has begun and no server is up.
LEMMA CertInitInv == CertInit => CertIInv
<1> SUFFICES ASSUME CertInit PROVE CertIInv
  OBVIOUS
<1>1. cert \in 0..MaxIssued /\ key \in 0..MaxIssued /\ issued \in 0..MaxIssued
  BY CertificateAssumption DEF CertInit
<1>2. container \in Container /\ faults \in 0..MaxFaults /\ readCert \in 0..MaxIssued /\ serves \in 0..MaxIssued
  BY CertificateAssumption DEF CertInit, Container
<1>3. age \in [Pair -> {"fresh", "due", "expired"}] /\ at \in [Runner -> Place]
  BY DEF CertInit, Place
<1>4. /\ candidate \in [Runner -> Pair \cup {Nothing}]
      /\ selected \in [Runner -> Container \cup {Nothing}]
      /\ provisioning \in [Runner -> BOOLEAN]
  BY DEF CertInit
<1>5. marker \in BOOLEAN /\ lock \in Runner \cup {Nothing} /\ server \in {"down", "starting", "up"} /\ uncut \in BOOLEAN
  BY DEF CertInit
<1>6. CertTypeOK
  BY <1>1, <1>2, <1>3, <1>4, <1>5 DEF CertTypeOK
<1> QED
  BY <1>6 DEF CertInit, CertIInv, RunInv, ServerIsCurrent

CertStep(r) ==
    (\E provision \in BOOLEAN : Begin(r, provision)) \/ RunStep(r) \/ Interrupted(r)

ServerStep == ReadCertificate \/ ReadKey \/ ServerStarts \/ ServerStops \/ PairAges

(* What a step of a run does to the numbers it works with.                 *)
LEMMA RunNumbers ==
  ASSUME CertIInv, NEW r \in Runner, CertStep(r)
  PROVE  /\ cert' \in 0..MaxIssued /\ key' \in 0..MaxIssued
         /\ issued' \in 0..MaxIssued /\ faults' \in 0..MaxFaults
         /\ candidate' \in [Runner -> Pair \cup {Nothing}]
         /\ readCert' \in 0..MaxIssued /\ serves' \in 0..MaxIssued
<1>1. /\ cert' = cert \/ (at[r] = "cert" /\ cert' = candidate[r])
      /\ key' = key \/ (at[r] = "key" /\ key' = candidate[r])
  BY DEF CertStep, RunStep, Begin, Acquire, Decide, Check, Obtain, Select, Mark, InstallCert,
         InstallKey, Restart, Unmark, Interrupted, fileVars
<1>2. at[r] \in {"cert", "key"} => candidate[r] \in 1..MaxIssued
  BY DEF CertIInv, RunInv, Pair
<1>3. \/ UNCHANGED issued
      \/ issued < MaxIssued /\ issued' = issued + 1
  BY DEF CertStep, RunStep, Begin, Acquire, Decide, Check, Obtain, Select, Mark, InstallCert,
         InstallKey, Restart, Unmark, Interrupted, fileVars
<1>4. faults' = faults \/ (faults < MaxFaults /\ faults' = faults + 1)
  BY DEF CertStep, RunStep, Begin, Acquire, Decide, Check, Obtain, Select, Mark, InstallCert,
         InstallKey, Restart, Unmark, Interrupted
<1>5. issued' \in 0..MaxIssued /\ faults' \in 0..MaxFaults
  BY <1>3, <1>4, CertificateAssumption DEF CertIInv, CertTypeOK
<1>6. \/ candidate' = candidate
      \/ candidate' = [candidate EXCEPT ![r] = Nothing]
      \/ Obtain(r)
  BY DEF CertStep, RunStep, Begin, Acquire, Decide, Check, Select, Mark, InstallCert,
         InstallKey, Restart, Unmark, Interrupted, Leave
<1>7. candidate' \in [Runner -> Pair \cup {Nothing}]
  <2>1. CASE Obtain(r)
    <3>1. issued' \in 1..MaxIssued
      BY <1>5, <2>1 DEF Obtain, CertIInv, CertTypeOK
    <3> QED
      BY <2>1, <3>1 DEF Obtain, CertIInv, CertTypeOK, Pair
  <2> QED
    BY <1>6, <2>1 DEF CertIInv, CertTypeOK
<1>8. \/ readCert' = readCert /\ serves' = serves
      \/ readCert' = 0 /\ serves' = 0
  BY DEF CertStep, RunStep, Begin, Acquire, Decide, Check, Obtain, Select, Mark, InstallCert,
         InstallKey, Restart, Unmark, Interrupted, serverVars
<1> QED
  BY <1>1, <1>2, <1>5, <1>7, <1>8, CertificateAssumption DEF CertIInv, CertTypeOK

\* A step of a run keeps the types, variable by variable.
LEMMA RunTypeStep ==
  ASSUME CertIInv, NEW r \in Runner, CertStep(r)
  PROVE  CertTypeOK'
<1>1. CertTypeOK
  BY DEF CertIInv
<1> USE <1>1
    DEF CertTypeOK, CertStep, RunStep, Begin, Acquire, Decide, Check, Obtain, Select, Mark,
        InstallCert, InstallKey, Restart, Unmark, Interrupted, Go, Leave, SelectTarget,
        fileVars, serverVars
<1>2. age' = age /\ container' = container
  OBVIOUS
<1>3. marker' \in BOOLEAN /\ uncut' \in BOOLEAN
  OBVIOUS
<1>4. lock' \in Runner \cup {Nothing}
  OBVIOUS
<1>5. at' \in [Runner -> Place]
  <2>1. CASE (\E provision \in BOOLEAN : Begin(r, provision)) \/ Acquire(r) \/ Interrupted(r)
    BY <2>1 DEF Place
  <2>2. CASE Decide(r) \/ Check(r) \/ Obtain(r)
    BY <2>2 DEF Place
  <2>3. CASE Select(r) \/ Mark(r) \/ InstallCert(r) \/ InstallKey(r)
    BY <2>3 DEF Place
  <2>4. CASE Restart(r) \/ Unmark(r)
    BY <2>4 DEF Place
  <2> QED
    BY <2>1, <2>2, <2>3, <2>4
<1>6. provisioning' \in [Runner -> BOOLEAN]
  OBVIOUS
<1>7. selected' \in [Runner -> Container \cup {Nothing}]
  OBVIOUS
<1>8. server' \in {"down", "starting", "up"}
  OBVIOUS
<1> QED
  BY ONLY <1>1, <1>2, <1>3, <1>4, <1>5, <1>6, <1>7, <1>8, RunNumbers, CertIInv, CertStep(r), r \in Runner
     DEF CertTypeOK

\* A step of a run keeps what is said of it, and of the server.
LEMMA OwnRunStep ==
  ASSUME CertIInv, NEW r \in Runner, CertStep(r)
  PROVE  RunInv(r)' /\ (~marker /\ ~uncut => ServerIsCurrent)'
<1> USE CertificateAssumption DEF CertTypeOK, Go, Leave, SelectTarget, fileVars, serverVars
<1>0. CertTypeOK /\ RunInv(r) /\ (~marker /\ ~uncut => ServerIsCurrent)
  BY DEF CertIInv
<1>1. CASE (\E provision \in BOOLEAN : Begin(r, provision)) \/ Acquire(r) \/ Interrupted(r)
  <2>1. UNCHANGED <<fileVars, marker, serverVars>>
    BY <1>1 DEF Begin, Acquire, Interrupted
  <2>2. at'[r] \in {"idle", "lock", "issue", "decide"} /\ (at'[r] \in {"issue", "decide"} => lock' = r)
    BY <1>0, <1>1 DEF Begin, Acquire, Interrupted
  <2> QED
    BY <1>0, <2>1, <2>2 DEF RunInv, ServerIsCurrent
<1>2. CASE Decide(r) \/ Check(r) \/ Select(r) \/ Mark(r)
  <2>1. UNCHANGED <<cert, key, serverVars, provisioning>> /\ (marker => marker')
    BY <1>0, <1>2 DEF Decide, Check, Select, Mark
  <2>2. at'[r] # "idle" => UNCHANGED <<lock, candidate>>
    BY <1>0, <1>2 DEF Decide, Check, Select, Mark
  <2>3. /\ at'[r] \in {"idle", "check", "restart pending", "issue", "mark", "cert"}
        /\ at'[r] = "restart pending" => cert = key
        /\ at'[r] \in {"mark", "cert"} => at[r] \in {"select", "mark"}
        /\ at'[r] = "cert" => marker'
    BY <1>0, <1>2 DEF Decide, Check, Select, Mark, Matches
  <2> QED
    BY <1>0, <1>2, <2>1, <2>2, <2>3 DEF Decide, Check, Select, Mark, RunInv, ServerIsCurrent
<1>3. CASE Obtain(r)
  <2>1. candidate'[r] \in Pair /\ at'[r] \in {"cert", "select"} /\ (at'[r] = "cert" => provisioning'[r])
    BY <1>0, <1>3 DEF Obtain, Pair
  <2> QED
    BY <1>0, <1>3, <2>1 DEF Obtain, RunInv, ServerIsCurrent
<1>4. CASE InstallCert(r) \/ InstallKey(r)
  BY <1>0, <1>4 DEF InstallCert, InstallKey, RunInv, ServerIsCurrent
<1>5. CASE Restart(r)
  BY <1>0, <1>5 DEF Restart, RunInv, ServerIsCurrent
<1>6. CASE Unmark(r)
  BY <1>0, <1>6 DEF Unmark, RunInv, ServerIsCurrent
<1> QED
  BY <1>1, <1>2, <1>3, <1>4, <1>5, <1>6 DEF CertStep, RunStep

(* While one run holds the lock the others have done nothing yet.          *)
LEMMA OtherRunStep ==
  ASSUME CertIInv, NEW r \in Runner, NEW d \in Runner, d # r, CertStep(r)
  PROVE  RunInv(d)'
<1>1. at'[d] = at[d] /\ candidate'[d] = candidate[d] /\ provisioning'[d] = provisioning[d]
  BY DEF CertIInv, CertTypeOK, CertStep, Begin, RunStep, Acquire, Decide, Check, Obtain, Select, Mark,
         InstallCert, InstallKey, Restart, Unmark, Interrupted, Go, Leave, SelectTarget
<1>2. CASE at[d] \in {"idle", "lock"}
  BY <1>1, <1>2 DEF RunInv
<1>3. CASE at[d] \notin {"idle", "lock"}
  <2>1. lock = d /\ at[r] \in {"idle", "lock"}
    BY <1>3 DEF CertIInv, RunInv
  <2>2. (\E provision \in BOOLEAN : Begin(r, provision)) \/ Interrupted(r)
    BY <2>1, CertificateAssumption DEF CertStep, RunStep, Acquire, Decide, Check, Obtain, Select, Mark,
         InstallCert, InstallKey, Restart, Unmark
  <2>3. lock' = lock /\ UNCHANGED <<fileVars, marker, serverVars>>
    BY <2>1, <2>2 DEF Begin, Interrupted, Leave
  <2> QED
    BY <1>1, <2>3 DEF CertIInv, RunInv, ServerIsCurrent, fileVars, serverVars
<1> QED
  BY <1>2, <1>3

\* The containers and faults that a step of the server counts.
LEMMA ServerNumbers ==
  ASSUME CertTypeOK, ServerStep
  PROVE  container' \in Container /\ uncut' \in BOOLEAN /\ faults' \in 0..MaxFaults
<1>1. container' = container \/ (container < MaxContainers /\ container' = container + 1)
  BY DEF ServerStep, ReadCertificate, ReadKey, ServerStarts, ServerStops, PairAges, serverVars
<1>2. faults' = faults \/ (faults < MaxFaults /\ faults' = faults + 1)
  BY DEF ServerStep, ReadCertificate, ReadKey, ServerStarts, ServerStops, PairAges
<1>3. uncut' \in {uncut, FALSE}
  BY DEF ServerStep, ReadCertificate, ReadKey, ServerStarts, ServerStops, PairAges, serverVars
<1>4. container \in Container /\ faults \in 0..MaxFaults /\ uncut \in BOOLEAN
  BY DEF CertTypeOK
<1>5. container' \in Container
  BY <1>1, <1>4, CertificateAssumption DEF Container
<1>6. faults' \in 0..MaxFaults
  BY <1>2, <1>4, CertificateAssumption
<1> QED
  BY <1>3, <1>4, <1>5, <1>6

(* The server reads its files at any moment of a run.                      *)
LEMMA ServerStepInv ==
  ASSUME CertIInv, ServerStep
  PROVE  CertIInv'
<1> USE CertificateAssumption
    DEF ServerStep, ReadCertificate, ReadKey, ServerStarts, ServerStops, PairAges,
        CertIInv, fileVars, runVars, serverVars
<1>0. CertTypeOK
  OBVIOUS
<1>1. UNCHANGED <<cert, key, issued, marker, runVars>>
  OBVIOUS
<1>2. age' \in [Pair -> {"fresh", "due", "expired"}]
  BY DEF CertTypeOK, Pair
<1>3. container' \in Container /\ uncut' \in BOOLEAN /\ faults' \in 0..MaxFaults
  BY ServerNumbers
<1>4. server' \in {"down", "starting", "up"} /\ readCert' \in 0..MaxIssued /\ serves' \in 0..MaxIssued
  BY DEF CertTypeOK
<1>5. CertTypeOK'
  BY <1>1, <1>2, <1>3, <1>4 DEF CertTypeOK
<1>6. ServerIsCurrent => ServerIsCurrent'
  BY DEF ServerIsCurrent, CertTypeOK
<1>7. (~marker /\ ~uncut => ServerIsCurrent)'
  BY <1>6 DEF ServerIsCurrent, CertTypeOK
<1>8. ASSUME NEW r \in Runner PROVE RunInv(r)'
  BY <1>1, <1>6 DEF RunInv
<1> QED
  BY <1>5, <1>7, <1>8

\* Every step of the renewal and of the server preserves the invariant.
LEMMA CertStepInv == CertIInv /\ [CertNext]_certVars => CertIInv'
<1> SUFFICES ASSUME CertIInv, [CertNext]_certVars PROVE CertIInv'
  OBVIOUS
<1>1. CASE UNCHANGED certVars
  BY <1>1 DEF certVars, CertIInv, CertTypeOK, RunInv, ServerIsCurrent
<1>2. ASSUME NEW r \in Runner, CertStep(r) PROVE CertIInv'
  BY <1>2, RunTypeStep, OwnRunStep, OtherRunStep DEF CertIInv
<1>3. CASE ServerStep
  BY <1>3, ServerStepInv
<1> QED
  BY <1>1, <1>2, <1>3 DEF CertNext, CertStep, ServerStep

(* One run at a time writes the files.                                     *)
THEOREM CertCorrect == CertSpec => []CertInv
<1>1. CertIInv => CertInv
  BY DEF CertIInv, CertInv, RunInv, OneRunAtATime
<1> QED
  BY <1>1, CertInitInv, CertStepInv, PTL DEF CertSpec

(* The Dashboard serves the installed pair whenever no restart is due,     *)
(* wherever runs and restarts are interrupted.                             *)
THEOREM DashboardServesInstalled == CertSpec => []ServesWhatIsInstalled
<1>1. CertIInv => ServesWhatIsInstalled
  BY DEF CertIInv, ServerIsCurrent, ServesWhatIsInstalled
<1> QED
  BY <1>1, CertInitInv, CertStepInv, PTL DEF CertSpec

-----------------------------------------------------------------------------
(* Status file.  The helper writes no more drives than the Dashboard       *)
(* accepts.                                                                *)
StatusIInv ==
    /\ StatusInv
    /\ file # Null /\ file.drives # Null => Len(file.drives) <= MaxDrives

\* The helper has not run.
LEMMA StatusInitInv == StatusInit => StatusIInv
  BY StatusAssumption
     DEF StatusInit, StatusIInv, StatusInv, StatusTypeOK, HelperIsUnderstood, DrivesFollowScan

\* A scan lists at most MaxDrives drives.
LEMMA ScansAreBounded == \A s \in Scans : s \in Seq(Drive) /\ Len(s) \in Nat /\ Len(s) <= MaxDrives
  BY StatusAssumption DEF Scans

(* Whatever a drive reports, what is written of it can be read.            *)
LEMMA MappedDrives == \A d \in Drive, report \in Report : MapDrive(d, report) \in Mapped
  BY StatusAssumption DEF Report, MapDrive, Count, Mapped

\* Each step of the helper keeps the types and the order of the drives.
LEMMA HelperStep ==
  ASSUME StatusIInv, StatusNext
  PROVE  /\ StatusTypeOK' /\ DrivesFollowScan'
         /\ (file # Null /\ file.drives # Null => Len(file.drives) <= MaxDrives)'
<1> USE StatusAssumption DEF StatusIInv, StatusInv, StatusTypeOK, DrivesFollowScan
<1>1. CASE HelperBegins
  BY <1>1 DEF HelperBegins
<1>2. CASE AskDrive
  <2>1. PICK report \in Report : drives' = Append(drives, MapDrive(scan[Len(drives) + 1], report))
    BY <1>2 DEF AskDrive
  <2>2. scan \in Scans /\ scan \in Seq(Drive) /\ Len(drives) + 1 \in DOMAIN scan
    BY <1>2, ScansAreBounded DEF AskDrive
  <2>3. MapDrive(scan[Len(drives) + 1], report) \in Mapped
    BY <2>1, <2>2, MappedDrives
  <2>4. MapDrive(scan[Len(drives) + 1], report).device = scan[Len(drives) + 1]
    BY DEF MapDrive
  <2> QED
    BY <1>2, <2>1, <2>2, <2>3, <2>4 DEF AskDrive
<1>3. CASE WriteStatus
  <2> DEFINE n == IF Len(drives) < MaxFit THEN Len(drives) ELSE MaxFit
  <2>1. n \in 0..Len(drives)
    OBVIOUS
  <2>2. SubSeq(drives, 1, n) \in Seq(Mapped) /\ Len(SubSeq(drives, 1, n)) = n
    BY <2>1
  <2>3. scan # Null => n <= MaxDrives
    BY <1>3, <2>1, ScansAreBounded DEF WriteStatus
  <2>4. file' \in File
    BY <1>3, <2>2 DEF WriteStatus, File
  <2>5. file'.drives = IF scan = Null THEN Null ELSE SubSeq(drives, 1, n)
    BY <1>3 DEF WriteStatus
  <2> QED
    BY <1>3, <2>2, <2>3, <2>4, <2>5 DEF WriteStatus
<1>4. CASE HelperStops
  BY <1>4 DEF HelperStops
<1>5. CASE ClockMoves
  BY <1>5 DEF ClockMoves
<1> QED
  BY <1>1, <1>2, <1>3, <1>4, <1>5 DEF StatusNext

(* A file of the helper's is refused for its age alone.                    *)
LEMMA WrittenIsAccepted ==
  /\ StatusTypeOK
  /\ file # Null /\ file.drives # Null => Len(file.drives) <= MaxDrives
  => HelperIsUnderstood
<1> SUFFICES ASSUME StatusTypeOK, file # Null, file.drives # Null => Len(file.drives) <= MaxDrives
             PROVE  HelperIsUnderstood
  BY DEF HelperIsUnderstood
<1>1. file \in File
  BY DEF StatusTypeOK
<1>2. Accepts(file)
  <2>1. ASSUME file.drives # Null, NEW i \in DOMAIN file.drives PROVE AcceptsDrive(file.drives[i])
    <3>1. file.drives[i] \in Mapped
      BY <1>1, <2>1 DEF File
    <3> QED
      BY <3>1 DEF Mapped, AcceptsDrive
  <2> QED
    BY <2>1 DEF Accepts
<1>3. clock \in Nat /\ file.checkedAt \in Nat
  BY <1>1, StatusAssumption DEF StatusTypeOK, File
<1> QED
  BY <1>2, <1>3, StatusAssumption DEF HelperIsUnderstood, Shown

\* Every step of the helper preserves the invariant.
LEMMA StatusStepInv == StatusIInv /\ [StatusNext]_statusVars => StatusIInv'
<1> SUFFICES ASSUME StatusIInv, [StatusNext]_statusVars PROVE StatusIInv'
  OBVIOUS
<1>1. CASE UNCHANGED statusVars
  BY <1>1 DEF statusVars, StatusIInv, StatusInv, StatusTypeOK, HelperIsUnderstood, Shown, Accepts,
              DrivesFollowScan
<1>2. CASE StatusNext
  <2>1. /\ StatusTypeOK' /\ DrivesFollowScan'
        /\ (file # Null /\ file.drives # Null => Len(file.drives) <= MaxDrives)'
    BY <1>2, HelperStep
  <2>2. HelperIsUnderstood'
    BY <2>1, WrittenIsAccepted, PTL
  <2> QED
    BY <2>1, <2>2 DEF StatusIInv, StatusInv
<1> QED
  BY <1>1, <1>2

(* Whatever the drives answer, the Dashboard hides the helper's file for   *)
(* its age alone.                                                          *)
THEOREM StatusCorrect == StatusSpec => []StatusInv
<1>1. StatusIInv => StatusInv
  BY DEF StatusIInv
<1> QED
  BY <1>1, StatusInitInv, StatusStepInv, PTL DEF StatusSpec

-----------------------------------------------------------------------------
(* The parts together.                                                     *)
HostIInv == MediaIInv /\ WebIInv /\ CertIInv /\ StatusIInv

\* A step of one part leaves the other three alone.
LEMMA HostStepInv == HostIInv /\ [HostNext]_<<part, hostVars>> => HostIInv'
<1> SUFFICES ASSUME HostIInv, [HostNext]_<<part, hostVars>> PROVE HostIInv'
  OBVIOUS
<1>1. /\ [MediaNext]_mediaVars
      /\ [WebNext]_webVars
      /\ [CertNext]_certVars
      /\ [StatusNext]_statusVars
  BY DEF HostNext, Only, hostVars
<1> QED
  BY <1>1, MediaStepInv, WebStepInv, CertStepInv, StatusStepInv DEF HostIInv

\* The parts start as they do by themselves.
LEMMA HostInitInv == HostInit => HostIInv
  BY MediaInitInv, WebInitInv, CertInitInv, StatusInitInv DEF HostInit, HostIInv

(* HostInv of the run over the four parts, for every instance.             *)
THEOREM HostCorrect == HostSpec => []HostInv
<1>1. HostIInv => HostInv
  BY DEF HostIInv, HostInv, MediaIInv, WebIInv, FetchInv, WebInv, EveryHopIsChecked,
         NothingAfterDeadline, CertIInv, CertInv, RunInv, OneRunAtATime, StatusIInv
<1> QED
  BY <1>1, HostInitInv, HostStepInv, PTL DEF HostSpec

(* ServesWhatIsInstalled of that run, for every instance.                  *)
THEOREM HostServesInstalled == HostSpec => []ServesWhatIsInstalled
<1>1. HostIInv => ServesWhatIsInstalled
  BY DEF HostIInv, CertIInv, ServerIsCurrent, ServesWhatIsInstalled
<1> QED
  BY <1>1, HostInitInv, HostStepInv, PTL DEF HostSpec
=============================================================================
