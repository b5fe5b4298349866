----------------------------- MODULE LogParser ------------------------------
(***************************************************************************)
(* DecodeTxLog of the client (client/src/instructions/                     *)
(* events_instructions_parse.rs): it reads the log of a transaction line   *)
(* by line and follows, from nothing but the text, which program is        *)
(* running, to tell the events of this program from the data of others.    *)
(*                                                                         *)
(* The runtime that writes the log is external: programs call each other,  *)
(* log any text, emit any data, return or fail, and a line that does not   *)
(* fit in what is left of the log is dropped.  One step is one line, which *)
(* the parser handles at once if it is in the log: the parser looks at no  *)
(* other line, so it might as well read along.                             *)
(*                                                                         *)
(* A line is what the parser tells apart: its kind, the program it names,  *)
(* what its text looks like, the event in a data line.                     *)
(***************************************************************************)
EXTENDS Naturals, Sequences, SequencesExt

CONSTANTS
    Self,                      \* the program whose events are wanted
    Others,                    \* the other programs of the transaction
    Events,                    \* what data lines decode to
    MaxDepth,                  \* calls within calls, 5 in the runtime
    MaxLines                   \* bound on the length of the log

\* A text may contain the word "invoke", or end in "success".
Looks == SUBSET {"invoke", "success"}

\* Data too short for an event.
NoEvent == "none"

\* No program's address contains the word "invoke".
ASSUME LogAssumption ==
    /\ Self \notin Others
    /\ "cpi" \notin Others \cup {Self}
    /\ NoEvent \notin Events
    /\ MaxDepth \in Nat \ {0}
    /\ MaxLines \in Nat

VARIABLES
    running,                   \* the programs that are running, innermost last
    phase,                     \* of the transaction: "running", "failing", "over"
    lines,                     \* lines in the log
    truncated,                 \* a line was dropped
    logged,                    \* the events of Self in the log
    misled,                    \* history: what the log made the parser count wrongly
    stack,                     \* Execution: what the parser believes is running
    decoded,                   \* the events it printed
    stopped                    \* "no", by an assert! of Execution, or by exit(1)

log_vars == <<running, phase, lines, truncated, logged, misled, stack, decoded, stopped>>

Programs == {Self} \cup Others

----------------------------------------------------------------------------
(***************************************************************************)
(* The parser.  A handler returns the program to push, if any, and whether *)
(* to pop: here <<pushed>> or <<>>, and a BOOLEAN.                         *)
(***************************************************************************)
Line(kind, program, looks, event) ==
    [ kind |-> kind, program |-> program, looks |-> looks, event |-> event ]

\* MUTANT of handle_system_log: only calls of this program are pushed.
handle_system_log_self_only(line) ==
    IF line.kind = "invoke" /\ line.program = Self
    THEN [ push |-> <<Self>>, pop |-> FALSE ]
    ELSE [ push |-> <<>>, pop |-> line.kind = "success" \/ "success" \in line.looks ]

\* Any line with the word "invoke" is taken for a call, any that starts with "Program "
\* and ends in " success" for a return.
handle_system_log(line) ==
    IF line.kind = "invoke" /\ line.program = Self
    THEN [ push |-> <<Self>>, pop |-> FALSE ]
    ELSE IF line.kind = "invoke" \/ "invoke" \in line.looks
    THEN [ push |-> <<"cpi">>, pop |-> FALSE ]
    ELSE [ push |-> <<>>, pop |-> line.kind = "success" \/ "success" \in line.looks ]

\* A line with a prefix is the running program's own.
has_prefix(line) == line.kind \in {"log", "data"}

handle_program_log(line) ==
    IF has_prefix(line) THEN [ push |-> <<>>, pop |-> FALSE ] ELSE handle_system_log(line)

\* "Program log:" is no event.
is_event(line) == line.kind = "data"

\* MUTANT of too_short: the length of the data is not asked.
never_too_short(line) == FALSE

\* Data without room for a discriminator ends the process.
too_short(line) == line.event = NoEvent

\* MUTANT of in_own_context: the stack is not asked.
in_any_context == TRUE

\* Without an entry nobody is running: between two instructions of the transaction.
in_own_context == stack # <<>> /\ Last(stack) = Self

(***************************************************************************)
(* One turn of the loop of parse_program_event; the first line goes to     *)
(* Execution::new, which takes the program from it.                        *)
(***************************************************************************)
Read(line) ==
    LET handled == IF in_own_context THEN handle_program_log(line)
                                     ELSE handle_system_log(line)
        pushed  == stack \o handled.push
        data    == in_own_context /\ is_event(line)
    IN  IF lines = 0
        THEN stack' = <<line.program>> /\ UNCHANGED <<decoded, stopped>>
        ELSE /\ decoded' = IF data /\ ~too_short(line)
                           THEN Append(decoded, line.event) ELSE decoded
             /\ stopped' = IF handled.pop /\ pushed = <<>> THEN "assert"
                           ELSE IF data /\ too_short(line) THEN "exit" ELSE "no"
             /\ stack' = IF handled.pop /\ pushed # <<>> THEN Front(pushed) ELSE pushed

----------------------------------------------------------------------------
(***************************************************************************)
(* The runtime (external).                                                 *)
(***************************************************************************)
LogInit ==
    /\ running = <<>>
    /\ phase = "running"
    /\ lines = 0
    /\ truncated = FALSE
    /\ logged = <<>>
    /\ misled = {}
    /\ stack = <<>>
    /\ decoded = <<>>
    /\ stopped = "no"

\* What the parser counts too many of when it reads line: a text that is no call, or no
\* return, and looks like one where the parser asks for looks.
Misleads(line) ==
    IF line.kind \in {"invoke", "success"} \/ (in_own_context /\ has_prefix(line)) THEN {}
    ELSE IF "invoke" \in line.looks THEN {"call"}
    ELSE IF "success" \in line.looks THEN {"return"} ELSE {}

\* A call missing from the log is as bad as a return too many, and conversely.
Conceals(line) ==
    CASE line.kind = "invoke"  -> {"return"}
      [] line.kind = "success" -> {"call"}
      [] OTHER                 -> {}

\* The line is in the log.
Write(line) ==
    /\ lines < MaxLines
    /\ lines' = lines + 1
    /\ misled' = misled \cup Misleads(line)
    /\ logged' = IF line.kind = "data" /\ line.program = Self
                 THEN Append(logged, line.event) ELSE logged
    /\ Read(line)
    /\ UNCHANGED truncated

\* The line does not fit.  In place of the first one there is "Log truncated", which the
\* parser ignores; a shorter line may fit again.  The first line of a log always fits.
Drop(line) ==
    /\ lines # 0
    /\ IF truncated THEN UNCHANGED lines ELSE lines < MaxLines /\ lines' = lines + 1
    /\ truncated' = TRUE
    /\ misled' = misled \cup Conceals(line)
    /\ UNCHANGED <<logged, stack, decoded, stopped>>

Put(line) == stopped = "no" /\ (Write(line) \/ Drop(line))

Runs == phase = "running" /\ running # <<>>

\* "Program p invoke [depth]": an instruction of the transaction, or a call.  The
\* runtime lets no program be called again by one it called.
Invoke(p) ==
    /\ phase = "running"
    /\ Len(running) < MaxDepth
    /\ p \notin Range(running)
    /\ running' = Append(running, p)
    /\ Put(Line("invoke", p, {}, NoEvent))
    /\ UNCHANGED phase

\* "Program p success".
Return ==
    /\ Runs
    /\ running' = Front(running)
    /\ Put(Line("success", Last(running), {}, NoEvent))
    /\ UNCHANGED phase

\* "Program log: ..."
Log(looks) ==
    /\ Runs
    /\ Put(Line("log", Last(running), looks, NoEvent))
    /\ UNCHANGED <<running, phase>>

\* "Program data: ...": emit! of this program, whatever it is of another.
Emit(looks, event) ==
    /\ Runs
    /\ Last(running) = Self => event # NoEvent
    /\ Put(Line("data", Last(running), looks, event))
    /\ UNCHANGED <<running, phase>>

\* "Program p consumed n of m compute units", or "Program return: ..." with data of its
\* choice; this program returns none.
Report(looks) ==
    /\ Runs
    /\ Last(running) = Self => looks = {}
    /\ Put(Line("other", Last(running), looks, NoEvent))
    /\ UNCHANGED <<running, phase>>

\* "Program p failed: ...": the programs that called it fail with it.
Fail ==
    /\ phase # "over"
    /\ running # <<>>
    /\ running' = Front(running)
    /\ phase' = IF Len(running) = 1 THEN "over" ELSE "failing"
    /\ Put(Line("failed", Last(running), {}, NoEvent))

LogNext ==
    \/ \E p \in Programs : Invoke(p)
    \/ Return
    \/ \E looks \in Looks : Log(looks) \/ Report(looks)
    \/ \E looks \in Looks, event \in Events \cup {NoEvent} : Emit(looks, event)
    \/ Fail

LogSpec == LogInit /\ [][LogNext]_log_vars

----------------------------------------------------------------------------
(***************************************************************************)
(* What must hold.                                                         *)
(***************************************************************************)
\* The runtime's stack, the parser's, the events.
LogTypeOK ==
    /\ running \in Seq(Programs) /\ Len(running) <= MaxDepth
    /\ phase \in {"running", "failing", "over"}
    /\ lines \in 0..MaxLines
    /\ truncated \in BOOLEAN
    /\ logged \in Seq(Events)
    /\ misled \subseteq {"call", "return"}
    /\ stack \in Seq(Programs \cup {"cpi"})
    /\ decoded \in Seq(Events)
    /\ stopped \in {"no", "assert", "exit"}

\* What the parser's stack is worth, whatever programs log and whatever is dropped: it
\* is too low, and the assert! of Execution::pop fires, only after a foreign text was
\* taken for a return or a call was dropped; it is too high only after a text was
\* taken for a call or a return was dropped.  After neither, the parser knows at which
\* depths this program runs, through every nesting of calls and every sequence of
\* instructions, and never ends on data that is none.
FollowsRuntime ==
    /\ "return" \notin misled => Len(stack) >= Len(running) /\ stopped # "assert"
    /\ "call" \notin misled /\ phase = "running" => Len(stack) <= Len(running)
    /\ misled = {} =>
          /\ stopped = "no"
          /\ phase = "running" => \A i \in 1..Len(running) :
                                     stack[i] = Self <=> running[i] = Self

\* As long as no text was taken for a call or a return, and none was dropped, the events
\* printed are those of this program in the log, in order: none is missed, and no data
\* of another program is taken for one, also when the transaction fails midway.
EventsAreOwn == misled = {} => decoded = logged

\* Execution::pop asserts that there is a program to pop.  It is violated: by a text of
\* another program that ends in success, and by a call that is not in the log.
NeverPanics == stopped # "assert"
=============================================================================
