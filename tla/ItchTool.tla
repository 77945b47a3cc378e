------------------------------- MODULE ItchTool -------------------------------
(***************************************************************************)
(* ob_itch (main of src/ob/ItchConvert.cpp), run several times over the    *)
(* same output directory: the reader reads the whole day, then WriteFeed   *)
(* writes one file per symbol, each over what an earlier run left there.   *)
(* The first error ends the program with code 1; it may be killed at any   *)
(* time.  What the converter makes of the messages is ItchConverter's      *)
(* subject: here a feed is a number of updates of one run and symbol.      *)
(***************************************************************************)
EXTENDS ItchReader

CONSTANTS
    Symbols,        \* --symbols, split: may name a symbol twice
    MaxCount,       \* bound on the updates of a feed
    MaxRuns,        \* bound on the number of runs
    HeaderUnits, RecordUnits

ASSUME SymbolsAssumption == Symbols \in Seq(STRING)
ASSUME CountsAssumption == MaxCount \in Nat /\ MaxRuns \in Nat \ {0}
ASSUME UnitsAssumption == {HeaderUnits, RecordUnits} \subseteq Nat \ {0}

VARIABLES
    tool,           \* "reading", "writing", "exited", "killed"
    code,           \* the exit code
    run,            \* which run this is
    made,           \* symbol -> the feed of the messages of this run
    k,              \* the index in States() of the symbol to write
    disk, out

toolVars == <<vars, tool, code, run, made, k, disk, out>>

Names == {Symbols[i] : i \in DOMAIN Symbols}

Store == INSTANCE FeedFile WITH Paths <- Names

\* A mutant: the first state of the name gets the messages.
LocateFirst(s) ==
    CHOOSE i \in DOMAIN Symbols :
        Symbols[i] = s /\ \A j \in DOMAIN Symbols : Symbols[j] = s => i <= j

\* The stock directory: the last state with the name gets the messages.
Locate(s) ==
    CHOOSE i \in DOMAIN Symbols :
        Symbols[i] = s /\ \A j \in DOMAIN Symbols : Symbols[j] = s => j <= i

Feed(s, count) == [run |-> run, symbol |-> s, count |-> count]

\* The updates of a state: those of its symbol, or none.
FeedOf(i) == IF Locate(Symbols[i]) = i THEN made[Symbols[i]] ELSE Feed(Symbols[i], 0)

ToolInit ==
    /\ Init /\ Store!Init
    /\ tool = "reading" /\ code = 0 /\ run = 1 /\ k = 1
    /\ made = [s \in Names |-> Feed(s, 0)]

Read ==
    /\ tool = "reading" /\ Next
    /\ UNCHANGED <<tool, code, run, made, k, disk, out>>

Exit(c) == tool' = "exited" /\ code' = c

\* A mutant: the result of ReadItchFile is not looked at.
ReadFailedUnseen ==
    /\ tool = "reading" /\ pc = "done" /\ result # "ok"
    /\ tool' = "writing" /\ k' = 1
    /\ UNCHANGED <<vars, code, run, made, disk, out>>

ReadFailed ==
    /\ tool = "reading" /\ pc = "done" /\ result # "ok"
    /\ Exit(1)
    /\ UNCHANGED <<vars, run, made, k, disk, out>>

ReadAll ==
    /\ tool = "reading" /\ pc = "done" /\ result = "ok"
    /\ \E counts \in [Names -> 0..MaxCount] : made' = [s \in Names |-> Feed(s, counts[s])]
    /\ tool' = "writing" /\ k' = 1
    /\ UNCHANGED <<vars, code, run, disk, out>>

OpenNext ==
    /\ tool = "writing" /\ k <= Len(Symbols)
    /\ Store!Open(Symbols[k], FeedOf(k))
    /\ UNCHANGED <<vars, tool, code, run, made, k>>

WriteUnit == tool = "writing" /\ Store!Put /\ UNCHANGED <<vars, tool, code, run, made, k>>

\* fopen fails, or a write: WriteFeed throws.
WriteFails ==
    /\ tool = "writing" /\ k <= Len(Symbols)
    /\ \/ Store!Short
       \/ out = Store!NoFile /\ UNCHANGED <<disk, out>>
    /\ Exit(1)
    /\ UNCHANGED <<vars, run, made, k>>

CloseFile ==
    /\ tool = "writing" /\ Store!Close
    /\ k' = k + 1
    /\ UNCHANGED <<vars, tool, code, run, made>>

Finish ==
    /\ tool = "writing" /\ k > Len(Symbols)
    /\ Exit(0)
    /\ UNCHANGED <<vars, run, made, k, disk, out>>

Kill ==
    /\ tool \in {"reading", "writing"}
    /\ tool' = "killed" /\ Store!Die
    /\ UNCHANGED <<vars, code, run, made, k>>

\* Somebody starts the program again, on any input.
Rerun ==
    /\ tool \in {"exited", "killed"} /\ run < MaxRuns
    /\ run' = run + 1 /\ tool' = "reading" /\ code' = 0 /\ k' = 1
    /\ file' \in Files
    /\ taken' = 0 /\ have' = 0 /\ pos' = 0 /\ eof' = FALSE
    /\ pc' = "fill" /\ result' = "ok" /\ delivered' = <<>>
    /\ made' = [s \in Names |-> [Feed(s, 0) EXCEPT !.run = run + 1]]
    /\ UNCHANGED <<disk, out>>

Step ==
    Read \/ ReadFailed \/ ReadAll \/ OpenNext \/ WriteUnit \/ WriteFails \/ CloseFile \/ Finish

ToolNext == Step \/ Kill \/ Rerun

\* The program goes on until it ends; nobody need kill or start it.
ToolSpec == ToolInit /\ [][ToolNext]_toolVars /\ WF_toolVars(Step)

-----------------------------------------------------------------------------
AcceptedIsComplete == Store!AcceptedIsComplete

(* Code 0 promises that the file of every symbol named is accepted and     *)
(* holds what this run made of its messages, also for a name given twice,  *)
(* whose file is written twice.                                            *)
ExitMeansWritten ==
    tool = "exited" /\ code = 0 => \A s \in Names :
        s \in DOMAIN disk /\ Store!Accepts(disk[s]) /\ disk[s] = Store!Image(made[s])

(* The files of an earlier run are not touched before the whole input has  *)
(* been read: a damaged or truncated input destroys nothing.               *)
ReadBeforeWrite ==
    [][disk' # disk => result = "ok" /\ Len(delivered) = file.count]_toolVars

(* Every run comes to its end: the refill loop makes progress wherever the *)
(* end of the buffer cuts a message, and so do the writes.                 *)
Ends == (tool = "reading") ~> (tool \in {"exited", "killed"})
=============================================================================
