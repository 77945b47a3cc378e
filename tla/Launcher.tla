------------------------------- MODULE Launcher -------------------------------
(***************************************************************************)
(* ob_bench --no-aslr (ReexecWithoutAslr and main of src/ob/RunBench.cpp): *)
(* the program starts itself again with address randomisation off, and     *)
(* marks in the environment that it has, so that the second instance goes  *)
(* on to run.  On Linux it replaces itself; on macOS it waits for a child. *)
(* The variables are of the instance that runs, and of the parent that     *)
(* waits for it.                                                           *)
(***************************************************************************)
CONSTANTS
    Systems,    \* some of "linux", "apple" and "other"
    Codes       \* the exit codes of a run

VARIABLES
    system,
    noAslr,     \* --no-aslr
    marked,     \* OB_ASLR_DISABLED is in the environment
    random,     \* this instance's memory is laid out at random
    persona,    \* personality(ADDR_NO_RANDOMIZE) holds for the next exec
    parent,     \* a parent waits in waitpid
    warned,     \* "continuing with ASLR" was printed
    pc,         \* "start", "launch", "run", "exited", "signalled", "ended"
    report,     \* the line "aslr:"
    code        \* the exit code of what the user started

vars == <<system, noAslr, marked, random, persona, parent, warned, pc, report, code>>

Init ==
    /\ system \in Systems /\ noAslr \in BOOLEAN
    /\ marked = FALSE /\ random = TRUE /\ persona = FALSE
    /\ parent = FALSE /\ warned = FALSE
    /\ pc = "start" /\ report = "none" /\ code = 0

\* The mark is set before it is known whether the start succeeds.
Start ==
    /\ pc = "start"
    /\ IF noAslr /\ ~ marked THEN marked' = TRUE /\ pc' = "launch"
       ELSE pc' = "run" /\ UNCHANGED marked
    /\ UNCHANGED <<system, noAslr, random, persona, parent, warned, report, code>>

\* posix_spawn with _POSIX_SPAWN_DISABLE_ASLR
Spawn ==
    /\ pc = "launch" /\ system = "apple"
    /\ parent' = TRUE /\ random' = FALSE /\ pc' = "start"
    /\ UNCHANGED <<system, noAslr, marked, persona, warned, report, code>>

SpawnFails ==
    /\ pc = "launch" /\ system = "apple"
    /\ warned' = TRUE /\ pc' = "run"
    /\ UNCHANGED <<system, noAslr, marked, random, persona, parent, report, code>>

SetPersonality ==
    /\ pc = "launch" /\ system = "linux" /\ ~ persona
    /\ persona' = TRUE
    /\ UNCHANGED <<system, noAslr, marked, random, parent, warned, pc, report, code>>

\* execv of /proc/self/exe keeps the environment and the personality.
Exec ==
    /\ pc = "launch" /\ system = "linux" /\ persona
    /\ random' = FALSE /\ pc' = "start"
    /\ UNCHANGED <<system, noAslr, marked, persona, parent, warned, report, code>>

\* personality or execv fails, or there is no way to do it.
LaunchFails ==
    /\ pc = "launch" /\ system # "apple"
    /\ pc' = "run"
    /\ UNCHANGED <<system, noAslr, marked, random, persona, parent, warned, report, code>>

\* RunBook prints what getenv says.
Run ==
    /\ pc = "run"
    /\ report' = IF marked THEN "disabled" ELSE "enabled"
    /\ code' \in Codes /\ pc' = "exited"
    /\ UNCHANGED <<system, noAslr, marked, random, persona, parent, warned>>

\* A signal ends the run.
Signal ==
    /\ pc = "run"
    /\ pc' = "signalled"
    /\ UNCHANGED <<system, noAslr, marked, random, persona, parent, warned, report, code>>

\* waitpid returns: the parent passes the code on, 1 for a signal.
Wait ==
    /\ pc \in {"exited", "signalled"} /\ parent
    /\ code' = IF pc = "exited" THEN code ELSE 1
    /\ parent' = FALSE /\ pc' = "ended"
    /\ UNCHANGED <<system, noAslr, marked, random, persona, warned, report>>

Next ==
    \/ Start \/ Spawn \/ SpawnFails \/ SetPersonality \/ Exec \/ LaunchFails
    \/ Run \/ Signal \/ Wait

Spec == Init /\ [][Next]_vars

-----------------------------------------------------------------------------
(* The report says that ASLR is disabled only of a run whose memory was    *)
(* not laid out at random, and never after a warning that says otherwise.  *)
ReportTruthful == report = "disabled" => ~ random /\ ~ warned
=============================================================================
