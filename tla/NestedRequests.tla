---------------------------- MODULE NestedRequests ----------------------------
(***************************************************************************)
(* What a client may rely on, of a service with one thread that handles    *)
(* requests inside the waits of others: a request is handled once, and     *)
(* given one outcome, which is never taken back or replaced; of the        *)
(* requests in progress only the innermost one makes any progress; and if  *)
(* the process ends, exactly those in progress without an answer are lost. *)
(*                                                                         *)
(* Nothing is said of what the service waits for, of clocks, replies or    *)
(* keys.  AdapterBridge and LocalRequests implement this specification.    *)
(***************************************************************************)
EXTENDS Naturals, Sequences

CONSTANTS
    Requests,
    Outcomes        \* what a client may be answered; "none" and "lost" are not

VARIABLES
    stack,          \* the requests in progress, the innermost one last
    outcome         \* of each request

nestedVars == <<stack, outcome>>

NestedInit ==
    /\ stack = <<>>
    /\ outcome = [r \in Requests |-> "none"]

InProgress == {stack[k] : k \in DOMAIN stack}

innermost == stack[Len(stack)]

New(r) == outcome[r] = "none" /\ r \notin InProgress

\* Handled inside the wait of all that are in progress.
Begin(r) ==
    /\ New(r)
    /\ stack' = Append(stack, r)
    /\ UNCHANGED outcome

\* Handled without a wait.
AtOnce(r) ==
    /\ New(r)
    /\ \E o \in Outcomes : outcome' = [outcome EXCEPT ![r] = o]
    /\ UNCHANGED stack

\* The client is answered, and the handler may go on.
Answer ==
    /\ stack # <<>>
    /\ outcome[innermost] = "none"
    /\ \E o \in Outcomes : outcome' = [outcome EXCEPT ![innermost] = o]
    /\ stack' \in {stack, SubSeq(stack, 1, Len(stack) - 1)}

Leave ==
    /\ stack # <<>>
    /\ outcome[innermost] # "none"
    /\ stack' = SubSeq(stack, 1, Len(stack) - 1)
    /\ UNCHANGED outcome

\* The handler of a request that is new, or innermost, ends the process.
Terminate(r) ==
    /\ New(r) \/ (stack # <<>> /\ r = innermost)
    /\ stack' = <<>>
    /\ outcome' = [q \in Requests |->
                      IF q \in InProgress \cup {r} /\ outcome[q] = "none"
                      THEN "lost" ELSE outcome[q]]

NestedNext ==
    \/ \E r \in Requests : Begin(r) \/ AtOnce(r) \/ Terminate(r)
    \/ Answer \/ Leave

NestedSpec == NestedInit /\ [][NestedNext]_nestedVars
=============================================================================
