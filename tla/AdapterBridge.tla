---------------------------- MODULE AdapterBridge ----------------------------
(***************************************************************************)
(* The Qt thread between its clients and the adapters behind the service   *)
(* (src/rest_handler.cpp, src/vicinity_handler.cpp).                       *)
(*                                                                         *)
(* At start the thing descriptions of all adapters are requested, and a    *)
(* slot adds the objects of each reply to the service's own description.   *)
(* A client's request for a property is forwarded by get_blocking or       *)
(* put_blocking, which process events while they wait: other requests are  *)
(* handled inside the wait, so the calls form a stack, and only the        *)
(* innermost one can return.                                               *)
(*                                                                         *)
(* Timeout stands for the 10 s of the code; QTime only knows the time of   *)
(* the day.  One round of the waiting loop may handle events that take     *)
(* some time, at most MaxTurn.                                             *)
(*                                                                         *)
(* What SEAL throws is caught nowhere.  It ends the process, with all      *)
(* requests that wait; the service may then be started again.              *)
(***************************************************************************)
EXTENDS Naturals, Sequences, FiniteSets

CONSTANTS
    Adapters,       \* the adapters of config_adapters.json
    Clients,        \* requests for properties; each is made at most once
    Timeout,        \* the 10 seconds that a blocking call waits
    Day,            \* the length of a day
    MaxTurn,        \* the longest round of the waiting loop
    MaxTime         \* bound on the time that passes

ASSUME TimeAssumption ==
    /\ {Timeout, Day, MaxTurn, MaxTime} \subseteq Nat \ {0}
    /\ Timeout < Day /\ MaxTurn < Day
ASSUME AdaptersAssumption == IsFiniteSet(Adapters)

VARIABLES
    up,             \* initialize has run
    connections,    \* how often the slot is connected to the signal finished
    asked,          \* adapters whose /objects was requested, not finished yet
    told,           \* adapters that answered this request with their objects
    td,             \* how often an adapter's objects are in m_ownTD
    calls,          \* the stack of blocking calls, the innermost one last
    now,            \* the time since the first midnight
    answer          \* what a client was sent, or "lost"

tdVars == <<asked, told, td>>
vars == <<up, connections, tdVars, calls, now, answer>>

\* A call that get_blocking or put_blocking is waiting for.  In the first of
\* the two calls of a property read, `again` is true.
Call(c, again) ==
    [client |-> c, again |-> again, start |-> now,
     reply |-> "none", at |-> "check", nested |-> FALSE]

top == calls[Len(calls)]

Init ==
    /\ up = FALSE
    /\ connections = 0
    /\ asked = {} /\ told = {} /\ td = [a \in Adapters |-> 0]
    /\ calls = <<>>
    /\ now \in 0..(Day - 1)
    /\ answer = [c \in Clients |-> "none"]

\* Something is thrown: the process ends.  The requests in progress, and those in
\* s, are lost unless they were answered.
Terminate(s) ==
    /\ up' = FALSE /\ connections' = 0
    /\ asked' = {} /\ told' = {} /\ td' = [a \in Adapters |-> 0]
    /\ calls' = <<>>
    /\ answer' = [c \in Clients |->
                     IF /\ answer[c] = "none"
                        /\ c \in s \/ \E k \in DOMAIN calls : calls[k].client = c
                       THEN "lost" ELSE answer[c]]
    /\ UNCHANGED now

-----------------------------------------------------------------------------
(* The thing description *)

\* Mutant: the slot is connected before the loop, too.
GenerateThingDescription_Twice ==
    /\ ~up
    /\ up' = TRUE
    /\ asked' = Adapters
    /\ connections' = Cardinality(Adapters) + 1
    /\ UNCHANGED <<told, td, calls, now, answer>>

\* At each start: one GET, and one more connection of the slot, per adapter.
GenerateThingDescription ==
    /\ ~up
    /\ up' = TRUE
    /\ asked' = Adapters
    /\ connections' = Cardinality(Adapters)
    /\ UNCHANGED <<told, td, calls, now, answer>>

\* The event loop runs: nothing is waiting, or the innermost wait processes events.
InEvents == up /\ (calls # <<>> => top.at = "events")

\* Mutant: the slot reads the reply without consuming it.
Appended_Peek(n) == n

\* How often n runs of getAdapterTDFinished add the objects of one reply: the
\* first reads the whole reply, the others find it empty.
Appended(n) == IF n = 0 THEN 0 ELSE 1

\* The request for a thing description finishes.
getAdapterTDFinished(a) ==
    /\ InEvents
    /\ a \in asked
    /\ asked' = asked \ {a}
    /\ \/ /\ told' = told \cup {a}
          /\ td' = [td EXCEPT ![a] = @ + Appended(connections)]
       \/ UNCHANGED <<told, td>>             \* an error, or no JSON
    /\ UNCHANGED <<up, connections, calls, now, answer>>

-----------------------------------------------------------------------------
(* Blocking calls *)

\* The calls in which a new one is nested.
Outer == [k \in DOMAIN calls |-> [calls[k] EXCEPT !.nested = TRUE]]

\* Mutant: the slot stays connected.
Forward_Connected(c) ==
    /\ \E again \in BOOLEAN : calls' = Append(Outer, Call(c, again))
    /\ UNCHANGED <<up, connections, tdVars, now, answer>>

\* A read makes two calls.  All connections of the slot are removed before the
\* request is sent.
Forward(c) ==
    /\ \E again \in BOOLEAN : calls' = Append(Outer, Call(c, again))
    /\ connections' = 0
    /\ UNCHANGED <<up, tdVars, now, answer>>

\* GET or PUT /vicinity/objects/<oid>/properties/<pid> for an object of some
\* adapter.  The value that is to be written is decrypted first, which may throw.
Request(c) ==
    /\ InEvents
    /\ answer[c] = "none" /\ \A k \in DOMAIN calls : calls[k].client # c
    /\ Forward(c) \/ Terminate({c})

\* A request that is answered without a blocking call: a local encryption or
\* decryption, a recryption, a key.  Its handler leaves nothing behind, or throws.
OtherRequestThrows == InEvents /\ Terminate({})

\* The adapter's reply to any waiting call is received: JSON, or nothing usable.
\* A connected slot would read it first.
Reply(k) ==
    /\ InEvents
    /\ k \in DOMAIN calls
    /\ calls[k].reply = "none"
    /\ \E r \in {"json", "empty"} :
         calls' = [calls EXCEPT ![k].reply =
                      IF r = "json" /\ connections > 0 THEN "stolen" ELSE r]
    /\ UNCHANGED <<up, connections, tdVars, now, answer>>

\* Mutant: only the reply ends the wait.
Expired_Never(c) == FALSE

\* Mutant: a wait one unit too short.
Expired_Early(c) == ~(now % Day < (c.start + Timeout - 1) % Day)

\* currentTime() < timeout is false; addSecs wraps at midnight.
Expired(c) == ~(now % Day < (c.start + Timeout) % Day)

\* The condition of the loop holds: events are processed.
EnterLoop ==
    /\ calls # <<>>
    /\ top.at = "check" /\ top.reply = "none" /\ ~Expired(top)
    /\ calls' = [calls EXCEPT ![Len(calls)].at = "events"]
    /\ UNCHANGED <<up, connections, tdVars, now, answer>>

\* processEvents returns.
EndOfTurn ==
    /\ calls # <<>>
    /\ top.at = "events"
    /\ \E d \in 0..MaxTurn : now + d <= MaxTime /\ now' = now + d
    /\ calls' = [calls EXCEPT ![Len(calls)].at = "check"]
    /\ UNCHANGED <<up, connections, tdVars, answer>>

\* What the handler of the innermost call tells its client.
Outcome == IF top.reply = "json" THEN "reply" ELSE "error"

\* Mutant: the result of the second call is sent, too.
Answered_Both == [answer EXCEPT ![top.client] = Outcome]

\* Mutant: an error is returned without being written to the responder.
Answered_ErrorNotWritten ==
    [answer EXCEPT ![top.client] = IF @ = "none" /\ Outcome = "reply" THEN Outcome ELSE @]

\* The client is answered once: the result of the second call is dropped.
Answered == [answer EXCEPT ![top.client] = IF @ = "none" THEN Outcome ELSE @]

\* The handler answers the client; that of a property read then reads the property
\* once more.
Proceed ==
    /\ answer' = Answered
    /\ IF top.again
         THEN /\ calls' = [calls EXCEPT ![Len(calls)] = Call(top.client, FALSE)]
              /\ connections' = 0
         ELSE /\ calls' = SubSeq(calls, 1, Len(calls) - 1)
              /\ UNCHANGED connections
    /\ UNCHANGED <<up, tdVars, now>>

\* The innermost call is one of the two of a property read.
Reading == top.again \/ answer[top.client] # "none"

\* The wait is over.  A value that was read is encrypted first, which may throw.
Return ==
    /\ calls # <<>>
    /\ top.at = "check" /\ (top.reply # "none" \/ Expired(top))
    /\ \/ Proceed
       \/ top.reply = "json" /\ Reading /\ Terminate({})

\* Time passes while nothing is waiting.
Idle ==
    /\ calls = <<>>
    /\ now < MaxTime
    /\ now' = now + 1
    /\ UNCHANGED <<up, connections, tdVars, calls, answer>>

Next ==
    \/ GenerateThingDescription
    \/ \E a \in Adapters : getAdapterTDFinished(a)
    \/ \E c \in Clients : Request(c)
    \/ OtherRequestThrows
    \/ \E k \in DOMAIN calls : Reply(k)
    \/ EnterLoop \/ EndOfTurn \/ Return \/ Idle

Spec == Init /\ [][Next]_vars

\* The waiting loop runs, and adapters answer: a reply that has been received is
\* handled by one of the rounds of the loop, whatever else they handle.
FairSpec ==
    /\ Spec
    /\ WF_vars(EnterLoop) /\ WF_vars(EndOfTurn) /\ WF_vars(Return)
    /\ \A k \in 1..Cardinality(Clients) : SF_vars(Reply(k))

-----------------------------------------------------------------------------
(* Properties *)

CallType ==
    [client : Clients, again : BOOLEAN, start : Nat,
     reply : {"none", "json", "empty", "stolen"}, at : {"check", "events"},
     nested : BOOLEAN]

TypeOK ==
    /\ up \in BOOLEAN
    /\ connections \in 0..Cardinality(Adapters)
    /\ asked \subseteq Adapters /\ told \subseteq Adapters \ asked
    /\ td \in [Adapters -> Nat]
    /\ calls \in Seq(CallType)
    /\ now \in Nat
    /\ answer \in [Clients -> {"none", "reply", "error", "lost"}]

\* Although the slot runs once per adapter for each reply, the objects of an
\* adapter are listed at most once; and as long as no blocking call has removed
\* its connections, none that was sent is missing.
ThingDescriptionExact ==
    \A a \in Adapters :
        /\ td[a] <= 1
        /\ connections > 0 /\ a \in told => td[a] = 1

\* The comment at rest_handler.cpp:96: a blocking call is never deprived of its
\* reply by the slot, whatever else is handled in the meantime.
ReplyReachesCaller == \A k \in DOMAIN calls : calls[k].reply # "stolen"

\* The end of the wait is before midnight, at the latest by which a round of the
\* loop can still step over it.
MaySkip(c) == (c.start + Timeout) % Day > Day - MaxTurn

\* A wait in which no other call is nested ends in time, unless its end is so
\* shortly before midnight that the loop looks at the clock only after midnight.
OnlyMidnightProlongs ==
    \A k \in DOMAIN calls :
        ~calls[k].nested /\ now >= calls[k].start + Timeout + MaxTurn
            => MaySkip(calls[k])

\* A client is told that there was an error only if the adapter's reply was of
\* no use, or after the whole wait, or if the wait would end after midnight.
OnlyMidnightShortens ==
    [][\A c \in Clients : answer[c] = "none" /\ answer'[c] = "error" =>
          \/ top.reply = "empty"
          \/ now >= top.start + Timeout
          \/ (top.start % Day) + Timeout >= Day]_vars

\* If adapters answer, every request ends, although an outer call has to wait for
\* all that are nested in it, and a read waits twice: its client is answered, unless
\* something is thrown, in its own handler or in one that runs inside its wait.
EveryRequestEnds ==
    \A c \in Clients :
        LET waits == \E k \in DOMAIN calls : calls[k].client = c
        IN  waits ~> (answer[c] # "none" /\ ~waits)

Nested == INSTANCE NestedRequests WITH
    Requests <- Clients, Outcomes <- {"reply", "error"},
    stack <- [k \in DOMAIN calls |-> calls[k].client], outcome <- answer

\* However requests are nested, and although a read of a property waits twice: each
\* client is answered once, and not before all requests handled in its wait are over.
ImplementsNested == Nested!NestedSpec

\* README.md:175: the service "Generates a thing description of all adapters".
ThingDescriptionOfAllAdapters == \A a \in told : td[a] = 1
=============================================================================
