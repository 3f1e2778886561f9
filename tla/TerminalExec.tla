---------------------------- MODULE TerminalExec ----------------------------
(***************************************************************************)
(* Supervised commands in a terminal that a user types into as well        *)
(* (terminal/exec_supervisor/), with the actor that applies the            *)
(* supervisor's effects (ssh_backend.rs, pty_backend.rs), the timers it    *)
(* arms, and the shell at the other end of two channels: what is written   *)
(* to it, and the OSC marks it sends back.  The shell is external: it reads *)
(* lines at its prompt and runs them, Ctrl+C drops the input before it,    *)
(* and it marks prompt start, input start, command start and, before or    *)
(* after the prompt, the finish.                                           *)
(*                                                                         *)
(* Input is a sequence of pieces: "enter" is a newline with what precedes  *)
(* it in the same write, "text" is what no newline follows.  One write may *)
(* hold several pieces, whoever makes it: the user, a tool that writes to  *)
(* the terminal for him, the initialization commands, or an agent.         *)
(***************************************************************************)
EXTENDS FiniteSets, Naturals, Sequences

CONSTANTS
    Exec,       \* exec requests, each made at most once
    NoExec,
    MaxKeys,    \* writes besides the agents' commands, interrupts, reintegrations, and
                \* further lines of the agents' commands (a bound)
    MaxLines    \* lines in one write (a bound)

ASSUME ExecAssumption ==
    /\ NoExec \notin Exec
    /\ Exec \cap {"text", "enter", "ctrlC", "nothing", "user"} = {}
    /\ MaxKeys \in Nat
    /\ MaxLines \in Nat \ {0}

VARIABLES
    buffered,   \* SSH keeps user input back while it serves other commands
    initSent,   \* init_sent, or there are no initialization commands
    readiness,  \* ShellCommandReadiness, without its epochs
    inputDirty,      \* input_dirty
    active,     \* ActiveExec
    answer,     \* what each request was answered
    timers,     \* timers that run: a request and a phase
    keptBack,   \* pending_terminal_input
    wire,       \* written to the shell and not read
    marks,      \* OSC marks sent and not handled
    shell,      \* what the shell does, and whether its line holds text
    keys,
    written,    \* history: requests whose command was written
    ended,      \* history: requests whose command ran and is over
    appended,   \* history: a command was run together with unsubmitted text
    disturbed,  \* history: prompts may come that were not waited for: something was
                \* typed before the shell was ready, or a command was interrupted
    multiline   \* history: a write held more than one line, or text after its line

execVars == <<buffered, initSent, readiness, inputDirty, active, answer, timers, keptBack, wire,
              marks, shell, keys, written, ended, appended, disturbed, multiline>>

NoActive == [id |-> NoExec, phase |-> "none", kind |-> "observe",
             started |-> FALSE, detached |-> FALSE, timedOut |-> FALSE]

\* submit with and without wait_for_output, and a command only typed.
Kinds == {"observe", "submit", "type"}
BeforeSubmit == {"busy", "unknown", "readyTimeout", "clearTimeout", "userInput"}
Prompt == <<"PromptStart", "InputStart">>

Lines(n) == [i \in 1..n |-> "enter"]

\* What one write of the user, or one made for him, may hold.
Inputs == {<<"ctrlC">>} \cup {Lines(n) : n \in 1..MaxLines}
              \cup {Append(Lines(n), "text") : n \in 0..MaxLines}

HasNewline(input) == \E i \in DOMAIN input : input[i] = "enter"

ExecInit ==
    /\ buffered \in BOOLEAN
    /\ initSent \in BOOLEAN /\ (~buffered => initSent)
    /\ readiness = "Initializing"
    /\ inputDirty = FALSE
    /\ active = NoActive
    /\ answer = [e \in Exec |-> "none"]
    /\ timers = {}
    /\ keptBack = <<>> /\ wire = <<>>
    /\ marks = Prompt
    /\ shell = [runs |-> "nothing", line |-> FALSE]
    /\ keys = 0
    /\ written = {} /\ ended = {}
    /\ appended = FALSE /\ disturbed = FALSE /\ multiline = FALSE

ExecTypeOK ==
    /\ readiness \in {"Initializing", "PromptRendering", "Ready", "ClearingInput",
           "SubmissionPending", "CommandRunning", "AwaitingPrompt", "Unknown", "Disconnected"}
    /\ {buffered, initSent, inputDirty, appended, disturbed, multiline} \subseteq BOOLEAN
    /\ active \in [id : Exec \cup {NoExec}, phase : {"none", "waiting", "clearing", "observing"},
                   kind : Kinds, started : BOOLEAN, detached : BOOLEAN, timedOut : BOOLEAN]
    /\ answer \in [Exec -> BeforeSubmit \cup {"none", "pending", "cancelled", "disconnected",
           "submitted", "exit", "output", "timedOut"}]
    /\ timers \subseteq Exec \X {"waiting", "clearing", "observing"}
    /\ {keptBack, wire} \subseteq Seq({"text", "enter", "ctrlC"} \cup Exec)
    /\ marks \in Seq({"PromptStart", "InputStart", "CommandStart", "CommandFinished"})
    /\ shell \in [runs : {"nothing", "user"} \cup Exec, line : BOOLEAN]
    /\ keys \in 0..MaxKeys
    /\ written \subseteq Exec /\ ended \subseteq Exec

-----------------------------------------------------------------------------
Observing == active.phase = "observing"

\* apply_exec_effects: the first answer takes the sender out of the table.
Answer(e, outcome) ==
    answer' = [answer EXCEPT ![e] = IF @ = "pending" THEN outcome ELSE @]

\* Faulty variant: a request that has a timer gets no other.
ArmOnce(e, phase) ==
    timers' = IF \E timer \in timers : timer[1] = e THEN timers ELSE timers \cup {<<e, phase>>}

\* ArmTimeout
Arm(e, phase) == timers' = timers \cup {<<e, phase>>}

\* submit_active: the command, which may hold "more" further lines, is written,
\* and the request, already in the table of senders "table", is answered at once
\* unless its output is awaited.
Submit(e, kind, table) ==
    /\ \E more \in 0..(MaxLines - 1) :
           /\ wire' = wire \o (IF kind = "type" THEN Append(Lines(more), "text")
                               ELSE <<e>> \o Lines(more))
           /\ keys + more <= MaxKeys
           /\ keys' = keys + more
           /\ multiline' = (multiline \/ more > 0)
    /\ written' = written \cup {e}
    /\ inputDirty' = (kind = "type")
    /\ readiness' = IF kind = "type" THEN "Ready" ELSE "SubmissionPending"
    /\ IF kind = "observe"
       THEN /\ active' = [NoActive EXCEPT !.id = e, !.phase = "observing"]
            /\ Arm(e, "observing")
            /\ answer' = table
       ELSE /\ active' = NoActive
            /\ answer' = [table EXCEPT ![e] = "submitted"]
            /\ UNCHANGED timers

\* What the actor's handlers leave to the shell and the user.
Outside == <<buffered, initSent, shell, ended, appended, disturbed>>

\* StartExec: the sender enters the table, then ExecSupervisor::start.
StartExec(e, kind, waits) ==
    LET refused ==
            IF active # NoActive THEN "busy"
            ELSE IF readiness = "Disconnected" THEN "disconnected"
            ELSE IF readiness = "Unknown" THEN "unknown"
            ELSE IF readiness # "Ready" /\ ~waits THEN "busy" ELSE "no"
        pending == [answer EXCEPT ![e] = "pending"]
        Hold(phase) ==
            /\ active' = [NoActive EXCEPT !.id = e, !.phase = phase, !.kind = kind]
            /\ Arm(e, phase)
            /\ answer' = pending
            /\ UNCHANGED <<inputDirty, written, keys, multiline>>
    IN  /\ answer[e] = "none"
        /\ \/ /\ refused # "no"
              /\ answer' = [answer EXCEPT ![e] = refused]
              /\ UNCHANGED <<readiness, inputDirty, active, timers, wire, written, keys, multiline>>
           \/ refused = "no" /\ readiness = "Ready" /\ ~inputDirty /\ Submit(e, kind, pending)
           \/ /\ refused = "no" /\ readiness = "Ready" /\ inputDirty
              /\ Hold("clearing")
              /\ wire' = Append(wire, "ctrlC")
              /\ readiness' = "ClearingInput"
           \/ /\ refused = "no" /\ readiness # "Ready"
              /\ Hold("waiting")
              /\ UNCHANGED <<readiness, wire>>
        /\ UNCHANGED <<keptBack, marks, Outside>>

\* The request is over before its command was written: cancel, on_input.
Withdraw == active' = NoActive
            /\ readiness' = IF active.phase = "clearing" THEN "PromptRendering" ELSE readiness

\* Faulty variant: text that no newline follows is not noticed.
Unnoticed(input) == FALSE

LeavesText(input) == ~HasNewline(input)

\* Write { source: User or ExternalInput }: on_input takes a write that holds a
\* newline anywhere for one submitted line, then the bytes go out, over SSH by
\* way of pending_terminal_input.
UserTypes(input) ==
    /\ readiness # "Disconnected"
    /\ keys < MaxKeys
    /\ keys' = keys + 1
    /\ disturbed' = (disturbed \/ readiness # "Ready" \/ input = <<"ctrlC">>)
    /\ multiline' = (multiline \/ Len(input) > 1)
    /\ IF active.phase \in {"waiting", "clearing"}
       THEN Withdraw /\ Answer(active.id, "userInput") /\ UNCHANGED inputDirty
       ELSE /\ readiness' = IF readiness = "Ready" /\ HasNewline(input)
                            THEN "SubmissionPending" ELSE readiness
            /\ inputDirty' = IF readiness = "Ready" THEN LeavesText(input) ELSE inputDirty
            /\ UNCHANGED <<active, answer>>
    /\ keptBack' = IF buffered THEN keptBack \o input ELSE keptBack
    /\ wire' = IF buffered THEN wire ELSE wire \o input
    /\ UNCHANGED <<buffered, initSent, timers, marks, shell, written, ended, appended>>

\* send_init_commands, over SSH only: n lines go out past the user's input that
\* is kept back, after the login, whether or not the shell shows a prompt.  A
\* request that waits is not withdrawn.
SendInit(n) ==
    /\ buffered /\ ~initSent /\ readiness # "Disconnected"
    /\ initSent' = TRUE
    /\ keys < MaxKeys
    /\ keys' = keys + 1
    /\ IF readiness = "Ready"
       THEN readiness' = "SubmissionPending" /\ inputDirty' = FALSE
       ELSE UNCHANGED <<readiness, inputDirty>>
    /\ disturbed' = (disturbed \/ readiness # "Ready")
    /\ multiline' = (multiline \/ n > 1)
    /\ wire' = wire \o Lines(n)
    /\ UNCHANGED <<buffered, active, answer, timers, keptBack, marks, shell, written, ended, appended>>

\* FlushTerminalInput
FlushInput ==
    /\ keptBack # <<>>
    /\ wire' = Append(wire, Head(keptBack))
    /\ keptBack' = Tail(keptBack)
    /\ UNCHANGED <<readiness, inputDirty, active, answer, timers, marks, written, keys, multiline,
                   Outside>>

\* CancelExec: the caller no longer waits.
CancelExec(e) ==
    /\ answer[e] = "pending"
    /\ answer' = [answer EXCEPT ![e] = "cancelled"]
    /\ IF active.id # e THEN UNCHANGED <<readiness, active>>
       ELSE IF Observing THEN active' = [active EXCEPT !.detached = TRUE] /\ UNCHANGED readiness
       ELSE Withdraw
    /\ UNCHANGED <<inputDirty, timers, keptBack, wire, marks, written, keys, multiline, Outside>>

\* Faulty variant: any timer of the request.
TimerOfActive(e, phase) == active.id = e

TimerIsDue(e, phase) == active.id = e /\ active.phase = phase

\* ExecTimeout: ignored unless the request is still in the phase it was for.
ExecTimeout(e, phase) ==
    /\ <<e, phase>> \in timers
    /\ timers' = timers \ {<<e, phase>>}
    /\ IF ~TimerIsDue(e, phase)
       THEN UNCHANGED <<readiness, active, answer>>
       ELSE CASE phase = "waiting" ->
                     active' = NoActive /\ Answer(e, "readyTimeout") /\ UNCHANGED readiness
              [] phase = "clearing" ->
                     active' = NoActive /\ Answer(e, "clearTimeout") /\ readiness' = "Unknown"
              [] phase = "observing" ->
                     /\ active' = [active EXCEPT !.timedOut = @ \/ ~active.detached]
                     /\ Answer(e, "timedOut")
                     /\ UNCHANGED readiness
    /\ UNCHANGED <<inputDirty, keptBack, wire, marks, written, keys, multiline, Outside>>

\* InterruptForeground: Ctrl+C, past the user's input that is kept back.
Interrupt ==
    /\ readiness \in {"SubmissionPending", "CommandRunning"}
    /\ active.phase # "waiting"
    /\ keys < MaxKeys
    /\ keys' = keys + 1
    /\ wire' = Append(wire, "ctrlC")
    /\ disturbed' = TRUE
    /\ UNCHANGED <<buffered, initSent, readiness, inputDirty, active, answer, timers, keptBack, marks,
                   shell, written, ended, appended, multiline>>

\* Reintegrate, over SSH only: the integration script is run by whatever shell
\* reads it.
Reintegrate ==
    /\ buffered
    /\ active = NoActive /\ readiness # "Disconnected"
    /\ keys < MaxKeys
    /\ keys' = keys + 1
    /\ wire' = wire \o Lines(1)
    /\ disturbed' = TRUE
    /\ UNCHANGED <<buffered, initSent, readiness, inputDirty, active, answer, timers, keptBack, marks,
                   shell, written, ended, appended, multiline>>

\* The channel closes: whatever waits is told so, and nothing is read any more.
Disconnect ==
    /\ readiness # "Disconnected"
    /\ readiness' = "Disconnected"
    /\ active' = NoActive
    /\ answer' = [e \in Exec |-> IF answer[e] = "pending" THEN "disconnected" ELSE answer[e]]
    /\ keptBack' = <<>> /\ wire' = <<>> /\ marks' = <<>> /\ timers' = {}
    /\ UNCHANGED <<inputDirty, written, keys, multiline, Outside>>
-----------------------------------------------------------------------------
TakesMark(mark) ==
    /\ marks # <<>> /\ Head(marks) = mark
    /\ marks' = Tail(marks)
    /\ UNCHANGED <<keptBack, Outside>>

OnPromptStart ==
    /\ TakesMark("PromptStart")
    /\ readiness' = IF active.phase = "clearing" THEN readiness ELSE "PromptRendering"
    /\ UNCHANGED <<inputDirty, active, answer, timers, wire, written, keys, multiline>>

OnInputStart ==
    /\ TakesMark("InputStart")
    /\ IF active.phase \in {"waiting", "clearing"}
       THEN Submit(active.id, active.kind, answer)
       ELSE /\ readiness' = "Ready"
            /\ inputDirty' = FALSE
            /\ IF Observing /\ (active.started \/ readiness = "PromptRendering")
               THEN active' = NoActive /\ Answer(active.id, "output")
               ELSE UNCHANGED <<active, answer>>
            /\ UNCHANGED <<timers, wire, written, keys, multiline>>

OnCommandStart ==
    /\ TakesMark("CommandStart")
    /\ active' = [active EXCEPT !.started = Observing]
    /\ readiness' = IF Observing \/ readiness = "SubmissionPending"
                    THEN "CommandRunning" ELSE readiness
    /\ UNCHANGED <<inputDirty, answer, timers, wire, written, keys, multiline>>

\* Faulty variant: a finish before the start counts too.
CompletesEarly == Observing

Completes == Observing /\ active.started

\* A finish that comes while a new command has not started belongs to the one
\* before it.
OnCommandFinished ==
    /\ TakesMark("CommandFinished")
    /\ IF Completes
       THEN active' = NoActive /\ Answer(active.id, "exit")
       ELSE UNCHANGED <<active, answer>>
    /\ readiness' =
           IF Completes \/ (~Observing /\ readiness \in {"CommandRunning", "SubmissionPending"})
           THEN "AwaitingPrompt" ELSE readiness
    /\ UNCHANGED <<inputDirty, timers, wire, written, keys, multiline>>
-----------------------------------------------------------------------------
ShellSide == /\ readiness # "Disconnected"
             /\ UNCHANGED <<buffered, initSent, readiness, inputDirty, active, answer, timers, keptBack,
                            keys, written, multiline>>

\* The shell reads a piece of input at its prompt.
ShellReads ==
    /\ ShellSide
    /\ shell.runs = "nothing" /\ wire # <<>> /\ Head(wire) # "ctrlC"
    /\ wire' = Tail(wire)
    /\ LET piece == Head(wire) IN
       \/ /\ piece = "text"
          /\ shell' = [shell EXCEPT !.line = TRUE]
          /\ UNCHANGED <<marks, appended>>
       \/ /\ piece = "enter"         \* a blank line
          /\ shell' = [shell EXCEPT !.line = FALSE]
          /\ marks' = marks \o Prompt
          /\ UNCHANGED appended
       \/ /\ piece # "text"
          /\ shell' = [runs |-> IF piece = "enter" THEN "user" ELSE piece, line |-> FALSE]
          /\ marks' = Append(marks, "CommandStart")
          /\ appended' = (appended \/ (piece \in Exec /\ shell.line))
    /\ UNCHANGED <<ended, disturbed>>

CommandIsOver ==
    /\ ended' = ended \cup ({shell.runs} \cap Exec)
    /\ \/ marks' = marks \o <<"CommandFinished">> \o Prompt
       \/ marks' = marks \o Prompt \o <<"CommandFinished">>

CommandEnds ==
    /\ ShellSide
    /\ shell.runs # "nothing"
    /\ CommandIsOver
    /\ shell' = [shell EXCEPT !.runs = "nothing"]
    /\ UNCHANGED <<wire, appended, disturbed>>

\* Ctrl+C drops the input before it and stops what runs.
ShellInterrupted ==
    /\ ShellSide
    /\ \E i \in DOMAIN wire :
           /\ wire[i] = "ctrlC"
           /\ \A j \in 1..(i - 1) : wire[j] # "ctrlC"
           /\ wire' = SubSeq(wire, i + 1, Len(wire))
    /\ IF shell.runs # "nothing" THEN CommandIsOver
       ELSE marks' = marks \o Prompt /\ UNCHANGED ended
    /\ shell' = [runs |-> "nothing", line |-> FALSE]
    /\ UNCHANGED <<appended, disturbed>>

-----------------------------------------------------------------------------
ExecNext ==
    \/ \E e \in Exec, kind \in Kinds, waits \in BOOLEAN : StartExec(e, kind, waits)
    \/ \E e \in Exec : CancelExec(e)
    \/ \E timer \in timers : ExecTimeout(timer[1], timer[2])
    \/ \E input \in Inputs : UserTypes(input)
    \/ \E n \in 1..MaxLines : SendInit(n)
    \/ FlushInput \/ Interrupt \/ Reintegrate \/ Disconnect
    \/ OnPromptStart \/ OnInputStart \/ OnCommandStart \/ OnCommandFinished
    \/ ShellReads \/ CommandEnds \/ ShellInterrupted

ExecSpec == ExecInit /\ [][ExecNext]_execVars

-----------------------------------------------------------------------------
\* An exit code that a request is answered is its own command's: no late mark
\* of an earlier command answers it (on_command_finished).  Claimed as long as
\* whatever was typed came to a ready terminal and in lines of its own.
CompletionIsOwn ==
    (~disturbed /\ ~multiline) => \A e \in Exec : answer[e] = "exit" => e \in ended

\* A request that failed before submission never reached the shell, so that
\* its caller may try again (TerminalExecError).
FailedNeverWritten ==
    \A e \in Exec : answer[e] \in BeforeSubmit => e \notin written

\* On a local terminal no command is run together with text the user had not
\* submitted, whoever typed when the prompt was ready (input_dirty), as long as
\* no write held a line and more.
AgentCommandOnCleanLine ==
    (~buffered /\ ~disturbed /\ ~multiline) => ~appended

\* Nobody waits for an answer that nothing will bring: a request without one
\* is the active request, nobody detached it, and a timer runs for the very
\* phase it is in, so that the shell's silence ends it (ArmTimeout).
PendingIsTimed ==
    \A e \in Exec : answer[e] = "pending" =>
        /\ active.id = e /\ <<e, active.phase>> \in timers
        /\ ~active.detached /\ ~active.timedOut
=============================================================================
