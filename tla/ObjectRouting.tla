---------------------------- MODULE ObjectRouting ----------------------------
(***************************************************************************)
(* How the objects of the adapters get their names, and how a request that *)
(* uses such a name finds its way (src/vicinity_handler.cpp).              *)
(*                                                                         *)
(* The configuration names the adapters; an adapter names itself and its   *)
(* objects in its thing description; a client names an object by the oid   *)
(* that was composed from both.  A request takes the oid apart again and   *)
(* looks the adapter up among those of the configuration.                  *)
(*                                                                         *)
(* A name is a sequence of tokens: a colon, "_enc", or a stretch of text   *)
(* without these two.  How long requests to adapters take, and which       *)
(* replies get lost, is in AdapterBridge; here each takes one step.        *)
(***************************************************************************)
EXTENDS Integers, Sequences, FiniteSetsExt

CONSTANTS
    Texts,          \* the tokens that are text
    NumAdapters,    \* the length of the list in config_adapters.json
    AdapterIds,     \* what an adapter may be called, by itself or the configuration
    ObjectIds,      \* what an adapter may call an object
    MaxObjects,     \* bound on the objects of one adapter
    OwnOid,         \* the oid in ServiceThingDescription.json
    OtherOids,      \* what clients may ask for although it is not listed
    Requesters,     \* who may want to see data
    DataAccess      \* the rows of DATA_ACCESS: a requester and an object

Colon == ":"
Enc == "_enc"
Tokens == Texts \cup {Colon, Enc}
Names == Seq(Tokens)
Adapters == 1..NumAdapters

ASSUME NamesAssumption ==
    /\ Texts \cap {Colon, Enc} = {}
    /\ AdapterIds \subseteq Names /\ ObjectIds \subseteq Names
    /\ OwnOid \in Names /\ OtherOids \subseteq Names
ASSUME NumberAssumption == {NumAdapters, MaxObjects} \subseteq Nat

VARIABLES
    up,             \* initialize has run, and the process still does
    config,         \* the adapter-id of each entry of the configuration
    m_endpoints,    \* adapter-ids that are known, each with its entry
    m_ownServiceOid,
    asked,          \* adapters whose thing description has not come
    td,             \* the objects listed in m_ownTD
    answer          \* what became of the last request

vars == <<up, config, m_endpoints, m_ownServiceOid, asked, td, answer>>

NoName == <<>>
NoAnswer == [oid |-> NoName, pid |-> "none", result |-> "none", adapter |-> 0, object |-> NoName]

\* Mutant: the entries are counted from 0.
Endpoints_FromZero ==
    [id \in {config[n] : n \in Adapters} |-> Max({n \in Adapters : config[n] = id}) - 1]

\* The last entry of the configuration with an id replaces the ones before.
Endpoints ==
    [id \in {config[n] : n \in Adapters} |-> Max({n \in Adapters : config[n] = id})]

NoEndpoints == [id \in {} |-> 0]

Init ==
    /\ up = FALSE
    /\ config \in [Adapters -> AdapterIds]
    /\ m_endpoints = NoEndpoints
    /\ m_ownServiceOid = NoName
    /\ asked = {} /\ td = {}
    /\ answer = NoAnswer

-----------------------------------------------------------------------------
(* Names *)

\* Mutant: the last colon an id may have is not looked for, but the first.
Separator_First(oid) ==
    Min({j \in 2..Len(oid) : oid[j] = Colon /\ \E k \in (j + 2)..Len(oid) : oid[k] = Enc})

\* adapterid + ":" + objectid + "_enc"
Composed(adapterid, objectid) == adapterid \o <<Colon>> \o objectid \o <<Enc>>

\* The pattern (.+):(.+)_enc finds a match: something, a colon, something, _enc.
Separators(oid) ==
    {j \in 2..Len(oid) : oid[j] = Colon /\ \E k \in (j + 2)..Len(oid) : oid[k] = Enc}

hasMatch(oid) == Separators(oid) # {}

\* The first group is as long as possible, then the second is.
Separator(oid) == Max(Separators(oid))

EndOfObject(oid) == Max({k \in 1..Len(oid) : oid[k] = Enc})

AdapterOf(oid) == SubSeq(oid, 1, Separator(oid) - 1)

ObjectOf(oid) == SubSeq(oid, Separator(oid) + 1, EndOfObject(oid) - 1)

Forwarded(oid) == hasMatch(oid) /\ AdapterOf(oid) \in DOMAIN m_endpoints

-----------------------------------------------------------------------------
(* The thing description *)

\* The configuration is read, or cannot be opened and counts as an empty one, or
\* is no JSON, and nothing else is done.  The same for the service's own thing
\* description, without which the service does not know its oid.
initialize ==
    /\ ~up
    /\ up' = TRUE
    /\ td' = {} /\ answer' = NoAnswer
    /\ \E configuration, own \in {"read", "missing", "no JSON"} :
         /\ m_endpoints' = IF configuration = "read" THEN Endpoints ELSE NoEndpoints
         /\ m_ownServiceOid' = IF configuration # "no JSON" /\ own = "read"
                               THEN OwnOid ELSE NoName
         /\ asked' = IF configuration = "read" /\ own # "no JSON" THEN Adapters ELSE {}
    /\ UNCHANGED config

\* Nothing listed, also for an error or a reply that is no JSON.
Lists == {objects \in SUBSET ObjectIds : Cardinality(objects) <= MaxObjects}

\* An adapter's thing description comes.  It is listed under the id that the
\* adapter gives itself.
getAdapterTDFinished(n) ==
    /\ up /\ n \in asked
    /\ asked' = asked \ {n}
    /\ \E claimed \in AdapterIds, objects \in Lists :
         td' = td \cup {[oid |-> Composed(claimed, o), adapter |-> n,
                         claimed |-> claimed, object |-> o] : o \in objects}
    /\ UNCHANGED <<up, config, m_endpoints, m_ownServiceOid, answer>>

-----------------------------------------------------------------------------
(* Properties of objects *)

OwnPids == {"publickey", "relinkeys", "galoiskeys", "trustedparties",
            "recrypt", "recrypt_svm", "hasaccess"}

\* What is done for any other object does not depend on the pid.
Pids(oid) == {"other"} \cup IF oid = OwnOid THEN OwnPids ELSE {}

\* An object of an adapter, one that was listed before a restart or that nobody
\* has listed, or the service itself.
Oids == {Composed(a, o) : a \in AdapterIds, o \in ObjectIds} \cup {OwnOid} \cup OtherOids

Answered(oid, pid, result) ==
    /\ answer' = [NoAnswer EXCEPT !.oid = oid, !.pid = pid, !.result = result]
    /\ UNCHANGED up

\* Something is thrown that nobody catches.
Terminate ==
    /\ up' = FALSE
    /\ answer' = NoAnswer

\* The oid is taken apart, and the property of the object is requested from its
\* adapter.  An adapter that the configuration does not name gives an empty answer.
Forward(oid, pid) ==
    \/ ~hasMatch(oid) /\ Answered(oid, pid, "invalid oid")
    \/ /\ hasMatch(oid) /\ AdapterOf(oid) \notin DOMAIN m_endpoints
       /\ Answered(oid, pid, "empty")
    \/ /\ Forwarded(oid)
       /\ answer' = [oid |-> oid, pid |-> pid, result |-> "forwarded",
                     adapter |-> m_endpoints[AdapterOf(oid)], object |-> ObjectOf(oid)]
       /\ UNCHANGED up

\* A key of the service may be missing, or the value too large to be encrypted
\* (KeyStore): both end the process.  Of the pids of the service, only the four
\* keys and lists are not looked for among the adapters.
readProperty(oid, pid) ==
    /\ up
    /\ IF oid = m_ownServiceOid /\ pid \in {"publickey", "relinkeys", "galoiskeys"}
         THEN Answered(oid, pid, "key") \/ Terminate
         ELSE IF oid = m_ownServiceOid /\ pid = "trustedparties"
         THEN Answered(oid, pid, "empty")
         ELSE Forward(oid, pid) \/ (Forwarded(oid) /\ Terminate)
    /\ UNCHANGED <<config, m_endpoints, m_ownServiceOid, asked, td>>

\* A failing query is a no, as is a missing row.
hasAccessToData(requester, destination) ==
    {FALSE, <<requester, destination>> \in DataAccess}

\* A text that is no ciphertext is thrown at (KeyStore, SplitVector), for an
\* adapter before anything is sent to it.
writeProperty(oid, pid) ==
    /\ up
    /\ \/ /\ oid = m_ownServiceOid /\ pid \in {"recrypt", "recrypt_svm"}
          /\ Answered(oid, pid, "recrypted") \/ Terminate
       \/ /\ oid = m_ownServiceOid /\ pid = "hasaccess"
          /\ \E requester \in Requesters, destination \in Oids :
               \E granted \in hasAccessToData(requester, destination) :
                  Answered(oid, pid, IF granted THEN "granted" ELSE "denied")
       \/ /\ oid = m_ownServiceOid /\ pid \notin {"recrypt", "recrypt_svm", "hasaccess"}
          /\ Answered(oid, pid, "no property")
       \/ /\ oid # m_ownServiceOid
          /\ Forward(oid, pid) \/ (Forwarded(oid) /\ Terminate)
    /\ UNCHANGED <<config, m_endpoints, m_ownServiceOid, asked, td>>

Next ==
    \/ initialize
    \/ \E n \in Adapters : getAdapterTDFinished(n)
    \/ \E oid \in Oids : \E pid \in Pids(oid) : readProperty(oid, pid) \/ writeProperty(oid, pid)

Spec == Init /\ [][Next]_vars

-----------------------------------------------------------------------------
(* Properties *)

Results == {"none", "key", "empty", "invalid oid", "forwarded", "recrypted",
            "granted", "denied", "no property"}

TypeOK ==
    /\ up \in BOOLEAN
    /\ config \in [Adapters -> AdapterIds]
    /\ DOMAIN m_endpoints \subseteq AdapterIds
    /\ m_endpoints \in [DOMAIN m_endpoints -> Adapters]
    /\ m_ownServiceOid \in {NoName, OwnOid}
    /\ asked \subseteq Adapters
    /\ td \subseteq [oid : Names, adapter : Adapters, claimed : AdapterIds, object : ObjectIds]
    /\ answer \in [oid : Names, pid : OwnPids \cup {"other", "none"}, result : Results,
                   adapter : Adapters \cup {0}, object : Names]

\* An object with an id, of an adapter that gives itself the very id, and not an
\* empty one, that the configuration has for it alone.
AsConfigured(e) ==
    /\ e.object # NoName /\ e.claimed # NoName
    /\ \A n \in Adapters : config[n] = e.claimed <=> n = e.adapter

\* Such an object, whose id has no colon.
Regular(e) == AsConfigured(e) /\ \A k \in DOMAIN e.object : e.object[k] # Colon

\* Whatever the other adapters list or are called: a request for an object that
\* is regular goes to this object of this adapter.
RoutedToItsObject ==
    \A e \in td : Regular(e) /\ answer.oid = e.oid /\ e.oid # m_ownServiceOid =>
        answer.adapter = e.adapter /\ answer.object = e.object

\* The oid of two objects is never the same if they are regular.
RegularOidsDiffer ==
    \A e, f \in td : Regular(e) /\ Regular(f) /\ e.oid = f.oid => e = f

\* README.md:176: "If a property of an encrypted device was requested, the plain
\* value is fetched" - from the device that is listed under this oid.
RoutedToListedObject ==
    \A e \in td : AsConfigured(e) /\ answer.oid = e.oid /\ e.oid # m_ownServiceOid =>
        answer.adapter = e.adapter /\ answer.object = e.object

\* README.md:42: the property trustedparties "Returns a list of all parties,
\* which are trusted parties for an aggregation".
TrustedPartiesAreReturned ==
    answer.oid = m_ownServiceOid /\ answer.pid = "trustedparties" => answer.result # "empty"
=============================================================================
