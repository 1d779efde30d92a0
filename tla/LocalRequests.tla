---------------------------- MODULE LocalRequests ----------------------------
(***************************************************************************)
(* The local features /encrypt, /decrypt and /aggregate, and the public    *)
(* keys of other services that an aggregation needs (src/rest_handler.cpp, *)
(* getPublicKey in src/vicinity_handler.cpp, sum in src/seal_handler.cpp,  *)
(* PUBLIC_KEYS and PRIVACY_SERVICE in src/db_access.cpp).                  *)
(*                                                                         *)
(* An aggregation of foreign data looks its service up, looks the key of   *)
(* the service up, and fetches it from the agent if there is none.  The    *)
(* fetch processes events while it waits, so that other requests, other    *)
(* fetches among them, are handled inside the wait: fetches form a stack.  *)
(*                                                                         *)
(* No handler catches what SEAL throws: input that cannot be loaded ends   *)
(* the process, and with it every request that waits.                      *)
(***************************************************************************)
EXTENDS Naturals, Sequences

CONSTANTS
    Requests,         \* requests for local features; each is made at most once
    Sources,          \* objects whose ids are named in the header sourceOid
    Services,         \* other privacy services; each stands for its public key, too
    ServiceOf,        \* the rows of PRIVACY_SERVICE
    KeysForNoObject,  \* keys an agent may send if no object is named to it
    ListenPort,       \* where the agent listens
    MaxFaults         \* bound on the writes to the database that fail

Null == "null"        \* a QString that is null: the database takes it for NULL
Empty == "empty"      \* a QString that is empty, and not null
Unusable == "unusable"

ASSUME ServicesAssumption ==
    /\ ServiceOf \in [Sources -> Services]
    /\ KeysForNoObject \subseteq Services
    /\ Services \cap {Null, Empty, Unusable, "own", "none", "nothing", "refused"} = {}
    /\ "none" \notin Sources
ASSUME NumbersAssumption == ListenPort \in Nat /\ MaxFaults \in Nat

VARIABLES
    up,             \* the process runs
    calls,          \* the fetches that wait, the innermost one last
    known,          \* PUBLIC_KEYS: the rows whose ID is a service
    orphans,        \* PUBLIC_KEYS: how many rows have the ID NULL
    outcome,        \* what became of each request
    source,         \* the source of an aggregation, "none" for any other request
    usedKey,        \* the public key that the sum of a request is encrypted under
    sent,           \* history: the key that the agent sent for a request
    faults          \* writes that have failed

tableVars == <<known, orphans, faults>>
vars == <<up, calls, tableVars, outcome, source, usedKey, sent>>

Init ==
    /\ up = TRUE
    /\ calls = <<>>
    /\ known = [s \in Services |-> Null] /\ orphans = 0
    /\ outcome = [r \in Requests |-> "none"]
    /\ source = [r \in Requests |-> "none"]
    /\ usedKey = [r \in Requests |-> "none"]
    /\ sent = [r \in Requests |-> Null]
    /\ faults = 0

Waiting == {calls[k].request : k \in DOMAIN calls}

\* The HTTP server hands a request over: while nothing waits, or from within
\* processEvents.
Handled(r) == up /\ outcome[r] = "none" /\ r \notin Waiting

Answered(r, o) == outcome' = [outcome EXCEPT ![r] = o] /\ UNCHANGED up

\* Something is thrown that nobody catches: all requests in progress are lost.
Terminate(r) ==
    /\ up' = FALSE
    /\ calls' = <<>>
    /\ outcome' = [q \in Requests |->
                      IF q \in Waiting \cup {r} THEN "lost" ELSE outcome[q]]
    /\ UNCHANGED usedKey

-----------------------------------------------------------------------------
(* Requests that are served at once *)

\* A request has a Content-Type ("text/plain" stands for none, too), and a body:
\* a JSON object with a number, a ciphertext or neither in it, JSON that is no
\* object, or a text that is no JSON document and may be a number.
Objects == {"number", "ciphertext", "other object"}
Bodies == [type : {"application/json", "text/plain", "other"},
           content : Objects \cup {"array", "digits", "letters"}]

\* The conversions throw an invalid_argument where these do not hold.
extractJsonFromRequest(body) == body.content \in Objects

extract_double_from_request(body) ==
    \/ body.type = "application/json" /\ body.content = "number"
    \/ body.type = "text/plain" /\ body.content = "digits"

\* The value of any JSON object will do; what is no text becomes an empty one.
extract_ctxt_from_request(body) ==
    body.type = "application/json" /\ extractJsonFromRequest(body)

\* The value is encrypted with the own key, which throws if it is too large.  An
\* error is returned but not written: the client gets no answer.
handle_local_encrypt(r) ==
    /\ Handled(r)
    /\ \E body \in Bodies :
         \/ /\ Answered(r, IF extract_double_from_request(body) THEN "answered" ELSE "dropped")
            /\ UNCHANGED <<calls, usedKey>>
         \/ /\ extract_double_from_request(body)
            /\ Terminate(r)
    /\ UNCHANGED <<tableVars, source, sent>>

\* A text that is not a ciphertext throws.
handle_local_decrypt(r) ==
    /\ Handled(r)
    /\ \E body \in Bodies :
         \/ /\ ~extract_ctxt_from_request(body)
            /\ Answered(r, "refused")
            /\ UNCHANGED <<calls, usedKey>>
         \/ /\ extract_ctxt_from_request(body) /\ body.content = "ciphertext"
            /\ Answered(r, "answered")
            /\ UNCHANGED <<calls, usedKey>>
         \/ /\ extract_ctxt_from_request(body) /\ body.content # "ciphertext"
            /\ Terminate(r)
    /\ UNCHANGED <<tableVars, source, sent>>

-----------------------------------------------------------------------------
(* Keys of other services *)

\* HE_SERVICE_OID is selected, and PUBLICKEY read from the result: the invalid
\* QVariant of a column that is not there becomes a null string, as does the
\* missing row of an object that is not listed.
getPrivacyService(src) == Null

\* No row, whose ID is NULL, equals the text that is compared with it.
get_public_key(id) == IF id \in Services THEN known[id] ELSE Null

\* INSERT OR REPLACE.  The primary key of a TEXT column admits any number of
\* NULLs; PUBLICKEY is NOT NULL, so a null key fails.  The result is dropped.
insert_public_key(id, key) ==
    \/ /\ key # Null
       /\ IF id \in Services
            THEN known' = [known EXCEPT ![id] = key] /\ UNCHANGED orphans
            ELSE orphans' = orphans + 1 /\ UNCHANGED known
       /\ UNCHANGED faults
    \/ /\ key = Null
       /\ UNCHANGED tableVars
    \/ /\ faults < MaxFaults
       /\ faults' = faults + 1
       /\ UNCHANGED <<known, orphans>>

isEmpty(key) == key \in {Null, Empty}

\* Mutant: the sum is encrypted under whatever was found.
sum_Strict(r, key, rest) ==
    /\ usedKey' = [usedKey EXCEPT ![r] = key]
    /\ Answered(r, "answered")
    /\ calls' = rest

\* sum: without a key the own one is used.  A key or a summand that cannot be
\* loaded throws.
sum(r, key, rest) ==
    \/ /\ key # Unusable
       /\ usedKey' = [usedKey EXCEPT ![r] = IF isEmpty(key) THEN "own" ELSE key]
       /\ Answered(r, "answered")
       /\ calls' = rest
    \/ Terminate(r)

\* The fetch of a key begins.
Call(r, src) ==
    [request |-> r, source |-> src, id |-> getPrivacyService(src), reply |-> "none"]

\* handle_local_aggregate up to the fetch, if there is one: the key of the
\* service of sourceOid is looked up; without a sourceOid the own one is used.
handle_local_aggregate(r) ==
    /\ Handled(r)
    /\ \E body \in Bodies :
         \/ /\ body.type # "application/json"
            /\ Answered(r, "refused")
            /\ UNCHANGED <<calls, source, usedKey>>
         \/ /\ body.type = "application/json" /\ ~extractJsonFromRequest(body)
            /\ Terminate(r)
            /\ UNCHANGED source
         \/ /\ body.type = "application/json" /\ extractJsonFromRequest(body)
            /\ \/ sum(r, Empty, calls) /\ UNCHANGED source
               \/ \E src \in Sources :
                    LET key == get_public_key(getPrivacyService(src)) IN
                      /\ source' = [source EXCEPT ![r] = src]
                      /\ IF isEmpty(key)
                           THEN /\ calls' = Append(calls, Call(r, src))
                                /\ UNCHANGED <<up, outcome, usedKey>>
                           ELSE sum(r, key, calls)
    /\ UNCHANGED <<tableVars, sent>>

-----------------------------------------------------------------------------
(* The agent *)

\* 9997 in a uint8_t.
m_agentPort == 9997 % 2^8

\* What an agent that is asked for the key of an object may send.
KeysFor(id) == IF id = Null THEN KeysForNoObject ELSE {id} \cap Services

\* A reply to any of the waiting fetches is received: a key, a text that is not
\* one, a publickey that is no text ("null"), or nothing of use: an error, JSON
\* without a publickey, no JSON ("nothing").  If the agent listens elsewhere,
\* the connection is refused.
AgentReplies(k) ==
    /\ k \in DOMAIN calls
    /\ calls[k].reply = "none"
    /\ \E reply \in IF ListenPort = m_agentPort
                     THEN KeysFor(calls[k].id) \cup {Unusable, Null, "nothing"}
                     ELSE {"refused"} :
         /\ calls' = [calls EXCEPT ![k].reply = reply]
         /\ sent' = [sent EXCEPT ![calls[k].request] = reply]
    /\ UNCHANGED <<up, tableVars, outcome, source, usedKey>>

\* Mutant: the key is looked up again instead of being returned.
receivedKey_LookedUp(c) == get_public_key(c.id)

\* Mutant: the reply is kept in a member that all fetches share.
receivedKey_Shared(c) == 
    LET first == calls[1].reply
    IN  IF first \in Services \cup {Unusable, Null} THEN first ELSE Empty

\* The key in the reply, or the empty string it was initialized with.
receivedKey(c) == IF c.reply \in Services \cup {Unusable, Null} THEN c.reply ELSE Empty

\* Mutant: there is no timeout.
Return_NoTimeout ==
    /\ calls # <<>>
    /\ LET c == calls[Len(calls)] IN
         /\ c.reply # "none"
         /\ insert_public_key(c.id, receivedKey(c))
         /\ sum(c.request, receivedKey(c), SubSeq(calls, 1, Len(calls) - 1))
    /\ UNCHANGED <<source, sent>>

\* Mutant: the fetch that began first ends first.
Return_Outermost ==
    /\ calls # <<>>
    /\ LET c == calls[1] IN
         /\ insert_public_key(c.id, receivedKey(c))
         /\ sum(c.request, receivedKey(c), Tail(calls))
    /\ UNCHANGED <<source, sent>>

\* The innermost fetch ends, with its reply or by its timeout; the key is
\* inserted, and the sum encrypted under it.
Return ==
    /\ calls # <<>>
    /\ LET c == calls[Len(calls)] IN
         /\ insert_public_key(c.id, receivedKey(c))
         /\ sum(c.request, receivedKey(c), SubSeq(calls, 1, Len(calls) - 1))
    /\ UNCHANGED <<source, sent>>

\* The process is started again; the database is as it was.
Restart ==
    /\ ~up
    /\ up' = TRUE
    /\ UNCHANGED <<calls, tableVars, outcome, source, usedKey, sent>>

Next ==
    \/ \E r \in Requests :
         handle_local_encrypt(r) \/ handle_local_decrypt(r) \/ handle_local_aggregate(r)
    \/ \E k \in DOMAIN calls : AgentReplies(k)
    \/ Return \/ Restart

Spec == Init /\ [][Next]_vars

\* The innermost fetch ends at the latest by its timeout.
FairSpec == Spec /\ WF_vars(Return)

-----------------------------------------------------------------------------
(* Properties *)

Replies == Services \cup {"none", Unusable, Null, "nothing", "refused"}

TypeOK ==
    /\ up \in BOOLEAN
    /\ calls \in Seq([request : Requests, source : Sources,
                      id : Services \cup {Null}, reply : Replies])
    /\ ~up => calls = <<>>
    /\ known \in [Services -> Services \cup {Null, Empty, Unusable}]
    /\ orphans \in Nat
    /\ outcome \in [Requests -> {"none", "answered", "refused", "dropped", "lost"}]
    /\ source \in [Requests -> Sources \cup {"none"}]
    /\ usedKey \in [Requests -> Services \cup {"none", "own"}]
    /\ sent \in [Requests -> Replies \ {"none"}]
    /\ faults \in 0..MaxFaults

\* However the fetches of several aggregations are nested, and whatever became
\* of their writes to the database: the sum for a foreign source is under the
\* key that the agent sent for this very request, or under the own key if it
\* sent none.
SumUnderFetchedKey ==
    \A r \in Requests :
        outcome[r] = "answered" /\ source[r] # "none" =>
            usedKey[r] = IF sent[r] \in Services THEN sent[r] ELSE "own"

\* An aggregation that waits for a key ends, although the agent may not reply
\* and other aggregations are handled inside its wait.
EveryFetchEnds ==
    \A r \in Requests : (r \in Waiting) ~> (outcome[r] # "none")

Nested == INSTANCE NestedRequests WITH
    Outcomes <- {"answered", "refused", "dropped"},
    stack <- [k \in DOMAIN calls |-> calls[k].request]

\* However fetches are nested, and wherever something is thrown: each request has one
\* outcome, and all that wait are lost together, but none that was answered.
ImplementsNested == Nested!NestedSpec

\* db_access.cpp:287: getPrivacyService gets "the corresponding privacy service
\* oid of input oid", which is the service that is asked for its key.
ServiceOfSourceIsAsked ==
    \A k \in DOMAIN calls : calls[k].id = ServiceOf[calls[k].source]

\* README.md: agent-port is the "Port of your locally running agent".
AgentIsReached == \A k \in DOMAIN calls : calls[k].reply # "refused"
=============================================================================
