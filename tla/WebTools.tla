------------------------------ MODULE WebTools ------------------------------
(***************************************************************************)
(* Reading a public page for the Assistant (worker/src/web-fetch.ts) and   *)
(* asking the search service (worker/src/web-search.ts).  A page may send  *)
(* the reader on to other pages; every hop is checked before it is         *)
(* requested, the addresses a name resolves to as well as those written in *)
(* a URL, and one deadline holds for all hops together.                    *)
(***************************************************************************)
EXTENDS Naturals

CONSTANTS
    Fetch,          \* the reads and searches under way
    Address,        \* the addresses a connection can be made to
    Public,         \* those a page may be read from
    MaxRedirects,   \* MAX_REDIRECTS
    MaxSize,        \* MAX_PAGE_BYTES, in chunks
    None

ASSUME WebAssumption ==
    /\ Public \subseteq Address
    /\ None \notin Address
    /\ MaxRedirects \in Nat
    /\ MaxSize \in Nat

(* A URL names a host, which is resolved when it is requested, or an       *)
(* address; one that targetFor refuses for its scheme, port or host name   *)
(* is "refused".                                                           *)
Target == {"name", "refused"} \cup Address

VARIABLES
    reading,    \* what fetchPage or search waits for
    url,        \* the target of the current hop
    hop,        \* the redirects followed
    peer,       \* the address of the current connection
    size,       \* the chunks of the body so far
    packed,     \* the body is compressed, and read through a decoder
    over,       \* the deadline has passed or the owner has cancelled
    answer      \* how it settled

webVars == <<reading, url, hop, peer, size, packed, over, answer>>

Settled == {"page", "hits", "blocked", "invalid_request", "invalid_response", "too_large",
            "unsupported", "unavailable", "configuration", "cancelled or timed_out"}

WebTypeOK ==
    /\ reading \in [Fetch -> {"idle", "lookup", "response", "body", "search", "stuck", "done"}]
    /\ url \in [Fetch -> Target \cup {None}]
    /\ hop \in [Fetch -> 0..MaxRedirects]
    /\ peer \in [Fetch -> Address \cup {None}]
    /\ size \in [Fetch -> 0..MaxSize]
    /\ packed \in [Fetch -> BOOLEAN]
    /\ over \in [Fetch -> BOOLEAN]
    /\ answer \in [Fetch -> Settled \cup {"none"}]

WebInit ==
    /\ reading = [f \in Fetch |-> "idle"]
    /\ url = [f \in Fetch |-> None]
    /\ hop = [f \in Fetch |-> 0]
    /\ peer = [f \in Fetch |-> None]
    /\ size = [f \in Fetch |-> 0]
    /\ packed = [f \in Fetch |-> FALSE]
    /\ over = [f \in Fetch |-> FALSE]
    /\ answer = [f \in Fetch |-> "none"]

-----------------------------------------------------------------------------
Settle(f, how) ==
    /\ reading' = [reading EXCEPT ![f] = "done"]
    /\ peer' = [peer EXCEPT ![f] = None]
    /\ answer' = [answer EXCEPT ![f] = how]
    /\ UNCHANGED <<url, hop, size, packed, over>>

(* targetFor, and the request it allows.                                   *)
Request(f, target) ==
    /\ target \notin {"refused"} \cup (Address \ Public)
    /\ reading' = [reading EXCEPT ![f] = "lookup"]
    /\ url' = [url EXCEPT ![f] = target]
    /\ peer' = [peer EXCEPT ![f] = None]

FetchPage(f, target) ==
    /\ reading[f] = "idle"
    /\ \/ Request(f, target) /\ UNCHANGED <<hop, size, packed, over, answer>>
       \/ target = "refused" /\ \E how \in {"invalid_request", "blocked"} : Settle(f, how)
       \/ target \in Address \ Public /\ Settle(f, "blocked")

(* guardedLookup: one answer that is not public refuses the name.          *)
Connect(f) ==
    /\ reading[f] = "lookup"
    /\ \/ \E addresses \in (SUBSET Address) \ {{}} :
             /\ url[f] \in Address => addresses = {url[f]}
             /\ url[f] = "name" => addresses \subseteq Public
             /\ \E a \in addresses : peer' = [peer EXCEPT ![f] = a]
          /\ reading' = [reading EXCEPT ![f] = "response"]
          /\ UNCHANGED <<url, hop, size, packed, over, answer>>
       \/ url[f] = "name" /\ Settle(f, "blocked")
       \/ Settle(f, "unavailable")

(* A redirect's destination is resolved against the current URL and        *)
(* checked like the first one.                                             *)
Redirects(f, target) ==
    /\ reading[f] = "response"
    /\ \/ /\ hop[f] < MaxRedirects
          /\ Request(f, target)
          /\ hop' = [hop EXCEPT ![f] = @ + 1]
          /\ UNCHANGED <<size, packed, over, answer>>
       \/ /\ hop[f] < MaxRedirects
          /\ target = "refused"
          /\ \E how \in {"invalid_response", "invalid_request", "blocked"} : Settle(f, how)
       \/ hop[f] < MaxRedirects /\ target \in Address \ Public /\ Settle(f, "blocked")
       \/ hop[f] = MaxRedirects /\ Settle(f, "invalid_response")

(* An answer with a body.  The declared length counts only when the body   *)
(* is not compressed.                                                      *)
Responds(f) ==
    /\ reading[f] = "response"
    /\ \/ /\ reading' = [reading EXCEPT ![f] = "body"]
          /\ \E p \in BOOLEAN : packed' = [packed EXCEPT ![f] = p]
          /\ UNCHANGED <<url, hop, peer, size, over, answer>>
       \/ Settle(f, "too_large")
       \/ Settle(f, "unsupported")

BodyGrows(f) ==
    /\ reading[f] = "body"
    /\ IF size[f] = MaxSize
       THEN Settle(f, "too_large")
       ELSE /\ size' = [size EXCEPT ![f] = @ + 1]
            /\ UNCHANGED <<reading, url, hop, peer, packed, over, answer>>

BodyEnds(f) ==
    /\ reading[f] = "body"
    /\ \E how \in {"page", "unavailable", "unsupported", "invalid_response"} : Settle(f, how)

(* The peer closes the connection before the body is complete.  Without a  *)
(* decoder the response itself reports the error; a decoder behind pipe()  *)
(* is told nothing, and the request is destroyed already when the deadline *)
(* aborts it.                                                              *)
CutShort(f) ==
    /\ reading[f] = "body"
    /\ IF packed[f]
       THEN /\ reading' = [reading EXCEPT ![f] = "stuck"]
            /\ peer' = [peer EXCEPT ![f] = None]
            /\ UNCHANGED <<url, hop, size, packed, over, answer>>
       ELSE Settle(f, "invalid_response")

-----------------------------------------------------------------------------
(* SearxngProvider.search: the configured endpoint, no redirects.          *)
Search(f) ==
    /\ reading[f] = "idle"
    /\ \/ /\ reading' = [reading EXCEPT ![f] = "search"]
          /\ UNCHANGED <<url, hop, peer, size, packed, over, answer>>
       \/ \E how \in {"invalid_request", "configuration"} : Settle(f, how)

(* readBounded.                                                            *)
SearchGrows(f) ==
    /\ reading[f] = "search"
    /\ IF size[f] = MaxSize
       THEN Settle(f, "too_large")
       ELSE /\ size' = [size EXCEPT ![f] = @ + 1]
            /\ UNCHANGED <<reading, url, hop, peer, packed, over, answer>>

SearchEnds(f) ==
    /\ reading[f] = "search"
    /\ \E how \in {"hits", "unavailable", "invalid_response", "too_large"} : Settle(f, how)

-----------------------------------------------------------------------------
(* The deadline or the owner's cancel: the request under way is aborted.   *)
DeadlinePasses(f) ==
    /\ reading[f] \in {"lookup", "response", "body", "search", "stuck"}
    /\ ~over[f]
    /\ over' = [over EXCEPT ![f] = TRUE]
    /\ IF reading[f] = "stuck"
       THEN UNCHANGED <<reading, peer, answer>>
       ELSE /\ reading' = [reading EXCEPT ![f] = "done"]
            /\ peer' = [peer EXCEPT ![f] = None]
            /\ answer' = [answer EXCEPT ![f] = "cancelled or timed_out"]
    /\ UNCHANGED <<url, hop, size, packed>>

WebNext ==
    \E f \in Fetch :
        \/ \E target \in Target : FetchPage(f, target) \/ Redirects(f, target)
        \/ Connect(f)
        \/ Responds(f)
        \/ BodyGrows(f)
        \/ BodyEnds(f)
        \/ CutShort(f)
        \/ Search(f)
        \/ SearchGrows(f)
        \/ SearchEnds(f)
        \/ DeadlinePasses(f)

WebSpec == WebInit /\ [][WebNext]_webVars

-----------------------------------------------------------------------------
(* "Every hop is checked against the policy, including redirects and DNS   *)
(* answers": no connection is ever open to an address that is not public.  *)
EveryHopIsChecked == \A f \in Fetch : peer[f] \in Public \cup {None}

(* The deadline is not renewed by a redirect: after it nothing is          *)
(* requested any more.                                                     *)
NothingAfterDeadline ==
    \A f \in Fetch : over[f] => reading[f] \in {"stuck", "done"} /\ peer[f] = None

WebInv == WebTypeOK /\ EveryHopIsChecked /\ NothingAfterDeadline

(* Every read and search settles by its deadline, except a compressed page *)
(* whose connection ended early.                                           *)
ReadsSettle ==
    \A f \in Fetch : (reading[f] # "idle") ~> (reading[f] \in {"done", "stuck"})
=============================================================================
