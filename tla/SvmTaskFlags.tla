---------------------------- MODULE SvmTaskFlags ----------------------------
(***************************************************************************)
(* What the scheduler and the inside of a task agree upon: a task is a set *)
(* of parts that only grows, which needs the context before anything that  *)
(* is loaded in it; `full` is only ever set to whether all parts are       *)
(* there; and a task is started once, when `full` says so.                 *)
(*                                                                         *)
(* SvmTask implements this with the content of the parts, SvmScheduler     *)
(* with the threads around every one of its tasks.  This is what makes it  *)
(* sound to look at the two separately.                                    *)
(***************************************************************************)
CONSTANTS
    Parts,
    Parms,      \* the part that makes the context
    Settings    \* the parts that need no context

VARIABLES
    got,        \* the parts whose flag is set
    full,
    started     \* a worker runs, or has run, on the task

flagVars == <<got, full, started>>

FlagsInit == got = {} /\ full = FALSE /\ started = FALSE

\* A flag is set; full is computed in the same step, or later.
SetFlag(p) ==
    /\ p \in Settings \cup {Parms} \/ Parms \in got
    /\ got' = got \cup {p}
    /\ full' = full \/ full' = (got' = Parts)
    /\ UNCHANGED started

full_check ==
    /\ full' = (got = Parts)
    /\ UNCHANGED <<got, started>>

Start ==
    /\ full /\ ~started
    /\ started' = TRUE
    /\ UNCHANGED <<got, full>>

FlagsNext == (\E p \in Parts : SetFlag(p)) \/ full_check \/ Start

FlagsSpec == FlagsInit /\ [][FlagsNext]_flagVars
=============================================================================
