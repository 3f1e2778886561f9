------------------------- MODULE TerminalExec_proofs -------------------------
(***************************************************************************)
(* The safety properties of the supervised commands, for any requests and  *)
(* any amount of typing.  At the end, what the theorems about the three    *)
(* modules of MCServices say of its behaviours.                            *)
(***************************************************************************)
EXTENDS MCServices, SyncStores_proofs, SequenceTheorems, TLAPS

Marks == {"PromptStart", "InputStart", "CommandStart", "CommandFinished"}
Pieces == {"text", "enter", "ctrlC"} \cup Exec
Phases == {"waiting", "clearing", "observing"}
Readinesses == {"Initializing", "PromptRendering", "Ready", "ClearingInput", "SubmissionPending",
                "CommandRunning", "AwaitingPrompt", "Unknown", "Disconnected"}
Answers == BeforeSubmit \cup {"none", "pending", "cancelled", "disconnected", "submitted", "exit",
                              "output", "timedOut"}
Actives == [id : Exec \cup {NoExec}, phase : {"none"} \cup Phases, kind : Kinds,
            started : BOOLEAN, detached : BOOLEAN, timedOut : BOOLEAN]
Shells == [runs : {"nothing", "user"} \cup Exec, line : BOOLEAN]

\* A request waits for its answer only as the active one, under a timer, and
\* only a request whose command is not written fails as if it never was.
Requests ==
    /\ active.id = NoExec => active = NoActive
    /\ active.phase = "none" => active = NoActive
    /\ active.id # NoExec => answer[active.id] # "none"
    /\ active.phase \in {"waiting", "clearing"} =>
           answer[active.id] = "pending" /\ active.id \notin written
    /\ \A e \in Exec : answer[e] = "pending" =>
           /\ active.id = e /\ <<e, active.phase>> \in timers
           /\ ~active.detached /\ ~active.timedOut
    /\ \A e \in written : answer[e] \notin BeforeSubmit \cup {"none"}

\* Nothing is left of a session whose channel was closed.
Closed ==
    /\ active = NoActive /\ timers = {}
    /\ wire = <<>> /\ keptBack = <<>> /\ marks = <<>>

RequestsInv ==
    /\ ExecTypeOK
    /\ Requests
    /\ readiness = "Disconnected" => Closed

-----------------------------------------------------------------------------
\* What was written came to a ready terminal, and in lines of its own.
Orderly == ~disturbed /\ ~multiline

\* As long as the session is orderly, one prompt is awaited at a time:
\* whatever will bring it is at one place, and the terminal is ready when
\* there is nothing of the kind.
Texts(pieces) == \A i \in 1..Len(pieces) : pieces[i] = "text"

\* The i-th of the pieces is the only one that is not text.
Sole(pieces, i) ==
    /\ i \in 1..Len(pieces) /\ pieces[i] # "text"
    /\ \A j \in 1..Len(pieces) : j # i => pieces[j] = "text"

Finishes(sent) == \A i \in 1..Len(sent) : sent[i] = "CommandFinished"

\* Marks sent before a command that runs now is over.
Unprompted(sent) ==
    /\ \A i \in 1..Len(sent) : sent[i] \notin {"PromptStart", "InputStart"}
    /\ \A i, j \in 1..Len(sent) : i < j /\ sent[i] = "CommandStart" => sent[j] # "CommandFinished"

\* Marks with a prompt whose input starts at the i-th.
Prompted(sent, i) ==
    /\ i \in 1..Len(sent) /\ sent[i] = "InputStart"
    /\ i > 1 => sent[i - 1] = "PromptStart"
    /\ \A j \in 1..Len(sent) : j < i => sent[j] # "InputStart"
    /\ \A j \in 1..Len(sent) : j > i => sent[j] = "CommandFinished"

AtRest ==
    /\ readiness = "Ready" /\ active = NoActive
    /\ shell.runs = "nothing" /\ Texts(wire) /\ Texts(keptBack) /\ Finishes(marks)
    /\ ~buffered => inputDirty \/ (wire = <<>> /\ ~shell.line)

InKept ==
    /\ readiness # "Ready" /\ buffered
    /\ shell.runs = "nothing" /\ Texts(wire) /\ Finishes(marks)
    /\ \E i \in 1..Len(keptBack) : Sole(keptBack, i)

InWire ==
    /\ readiness # "Ready"
    /\ shell.runs = "nothing" /\ Texts(keptBack) /\ Finishes(marks)
    /\ \E i \in 1..Len(wire) :
          /\ Sole(wire, i)
          /\ ~buffered => i = Len(wire) /\ (wire[i] \in Exec => i = 1 /\ ~shell.line)

InShell ==
    /\ readiness # "Ready"
    /\ shell.runs # "nothing" /\ Texts(wire) /\ Texts(keptBack) /\ Unprompted(marks)
    /\ ~buffered => wire = <<>> /\ ~shell.line

InMarks ==
    /\ readiness # "Ready"
    /\ shell.runs = "nothing" /\ Texts(wire) /\ Texts(keptBack)
    /\ \E i \in 1..Len(marks) :
          /\ Prompted(marks, i)
          /\ i = 1 /\ active.phase = "observing" => active.started \/ readiness = "PromptRendering"
    /\ ~buffered => wire = <<>> /\ ~shell.line

\* The observed command that did not run yet is on its way to the shell, or
\* the shell runs it and no finish that was sent since can be taken for its.
OwnMarks ==
    active.phase = "observing" /\ active.id \notin ended =>
        \/ /\ InWire /\ ~active.started
           /\ \E i \in 1..Len(wire) : wire[i] = active.id
        \/ /\ InShell /\ shell.runs = active.id
           /\ active.started => \A i \in 1..Len(marks) : marks[i] # "CommandFinished"

Undisturbed ==
    /\ ~buffered => keptBack = <<>>
    /\ AtRest \/ InKept \/ InWire \/ InShell \/ InMarks
    /\ OwnMarks

ExecInv ==
    /\ RequestsInv
    /\ Orderly /\ readiness # "Disconnected" => Undisturbed
    /\ CompletionIsOwn
    /\ AgentCommandOnCleanLine

-----------------------------------------------------------------------------
\* The marks that a prompt adds, and those of a command that is over.
LEMMA PromptSent ==
    ASSUME NEW s \in Seq(Marks)
    PROVE  /\ s \o Prompt \in Seq(Marks)
           /\ Len(s \o Prompt) = Len(s) + 2
           /\ \A i \in 1..Len(s) : (s \o Prompt)[i] = s[i]
           /\ (s \o Prompt)[Len(s) + 1] = "PromptStart"
           /\ (s \o Prompt)[Len(s) + 2] = "InputStart"
<1>1. PICK p \in Seq(Marks) : p = Prompt
  <2>1. <<"PromptStart", "InputStart">> \in Seq({"PromptStart", "InputStart", "CommandStart", "CommandFinished"})
    OBVIOUS
  <2> QED
    BY <2>1 DEF Prompt, Marks
<1>2. Len(p) = 2 /\ p[1] = "PromptStart" /\ p[2] = "InputStart"
  BY <1>1 DEF Prompt
<1>3. /\ s \o p \in Seq(Marks) /\ Len(s \o p) = Len(s) + Len(p)
      /\ \A i \in 1..(Len(s) + Len(p)) : (s \o p)[i] = IF i <= Len(s) THEN s[i] ELSE p[i - Len(s)]
  BY ConcatProperties
<1>4. Len(s) \in Nat
  OBVIOUS
<1> HIDE DEF Prompt
<1> QED
  BY <1>1, <1>2, <1>3, <1>4

LEMMA FinishAndPromptSent ==
    ASSUME NEW s \in Seq(Marks), NEW t,
           t = s \o <<"CommandFinished">> \o Prompt \/ t = s \o Prompt \o <<"CommandFinished">>
    PROVE  /\ t \in Seq(Marks)
           /\ Len(t) = Len(s) + 3
           /\ \A i \in 1..Len(s) : t[i] = s[i]
           /\ \/ t[Len(s) + 1] = "CommandFinished" /\ t[Len(s) + 2] = "PromptStart"
                 /\ t[Len(s) + 3] = "InputStart"
              \/ t[Len(s) + 1] = "PromptStart" /\ t[Len(s) + 2] = "InputStart"
                 /\ t[Len(s) + 3] = "CommandFinished"
<1>0. Len(s) \in Nat
  OBVIOUS
<1>1. PICK f \in Seq(Marks) : f = <<"CommandFinished">>
  <2>1. <<"CommandFinished">> \in Seq({"PromptStart", "InputStart", "CommandStart", "CommandFinished"})
    OBVIOUS
  <2> QED
    BY <2>1 DEF Marks
<1>2. Len(f) = 1 /\ f[1] = "CommandFinished"
  BY <1>1
<1>3. CASE t = s \o f \o Prompt
  <2>1. PICK u : u = s \o f
    OBVIOUS
  <2>2. u \in Seq(Marks) /\ Len(u) = Len(s) + 1 /\ u[Len(s) + 1] = "CommandFinished"
        /\ \A i \in 1..Len(s) : u[i] = s[i]
    <3>1. /\ u \in Seq(Marks) /\ Len(u) = Len(s) + Len(f)
          /\ \A i \in 1..(Len(s) + Len(f)) : u[i] = IF i <= Len(s) THEN s[i] ELSE f[i - Len(s)]
      BY <2>1, ConcatProperties
    <3> QED
      BY <3>1, <1>0, <1>2
  <2>3. /\ t \in Seq(Marks) /\ Len(t) = Len(u) + 2 /\ \A i \in 1..Len(u) : t[i] = u[i]
        /\ t[Len(u) + 1] = "PromptStart" /\ t[Len(u) + 2] = "InputStart"
    BY <2>1, <2>2, <1>3, PromptSent
  <2>4. /\ \A i \in 1..Len(s) : i \in 1..Len(u)
        /\ Len(s) + 1 \in 1..Len(u) /\ Len(u) + 1 = Len(s) + 2 /\ Len(u) + 2 = Len(s) + 3
    BY <2>2, <1>0
  <2>5. \A i \in 1..Len(s) : t[i] = s[i]
    BY <2>2, <2>3, <2>4
  <2>6. /\ t[Len(s) + 1] = "CommandFinished" /\ t[Len(s) + 2] = "PromptStart"
        /\ t[Len(s) + 3] = "InputStart"
    BY <2>2, <2>3, <2>4
  <2> QED
    BY <2>3, <2>4, <2>5, <2>6
<1>4. CASE t = s \o Prompt \o f
  <2>1. PICK u : u = s \o Prompt
    OBVIOUS
  <2>2. /\ u \in Seq(Marks) /\ Len(u) = Len(s) + 2 /\ \A i \in 1..Len(s) : u[i] = s[i]
        /\ u[Len(s) + 1] = "PromptStart" /\ u[Len(s) + 2] = "InputStart"
    BY <2>1, PromptSent
  <2>3. /\ t \in Seq(Marks) /\ Len(t) = Len(u) + Len(f)
        /\ \A i \in 1..(Len(u) + Len(f)) : t[i] = IF i <= Len(u) THEN u[i] ELSE f[i - Len(u)]
    BY <2>1, <2>2, <1>4, ConcatProperties
  <2>4. /\ \A i \in 1..Len(u) : t[i] = u[i]
        /\ t[Len(u) + 1] = "CommandFinished" /\ Len(t) = Len(u) + 1
    BY <2>2, <2>3, <1>0, <1>2
  <2>5. /\ \A i \in 1..Len(s) : i \in 1..Len(u)
        /\ Len(s) + 1 \in 1..Len(u) /\ Len(s) + 2 \in 1..Len(u) /\ Len(u) + 1 = Len(s) + 3
    BY <2>2, <1>0
  <2>6. \A i \in 1..Len(s) : t[i] = s[i]
    BY <2>2, <2>4, <2>5
  <2>7. /\ t[Len(s) + 1] = "PromptStart" /\ t[Len(s) + 2] = "InputStart"
        /\ t[Len(s) + 3] = "CommandFinished"
    BY <2>2, <2>4, <2>5
  <2> QED
    BY <2>3, <2>4, <2>5, <2>6, <2>7
<1> QED
  BY <1>1, <1>3, <1>4

-----------------------------------------------------------------------------
\* ExecTypeOK, variable by variable.
Typed ==
    /\ readiness \in Readinesses
    /\ buffered \in BOOLEAN /\ inputDirty \in BOOLEAN
    /\ appended \in BOOLEAN /\ disturbed \in BOOLEAN
    /\ initSent \in BOOLEAN /\ multiline \in BOOLEAN
    /\ active \in Actives
    /\ answer \in [Exec -> Answers]
    /\ timers \in SUBSET (Exec \X Phases)
    /\ keptBack \in Seq(Pieces) /\ wire \in Seq(Pieces)
    /\ marks \in Seq(Marks)
    /\ shell \in Shells
    /\ keys \in 0..MaxKeys
    /\ written \in SUBSET Exec /\ ended \in SUBSET Exec

LEMMA TypedMeansTypeOK == Typed <=> ExecTypeOK
<1>1. Exec \cup {NoExec} = Exec \cup {NoExec} /\ {"none"} \cup Phases = {"none", "waiting", "clearing", "observing"}
  BY DEF Phases
<1>2. {keptBack, wire} \subseteq Seq(Pieces) <=> keptBack \in Seq(Pieces) /\ wire \in Seq(Pieces)
  OBVIOUS
<1>3. {buffered, initSent, inputDirty, appended, disturbed, multiline} \subseteq BOOLEAN
        <=> /\ buffered \in BOOLEAN /\ inputDirty \in BOOLEAN /\ appended \in BOOLEAN
            /\ disturbed \in BOOLEAN /\ initSent \in BOOLEAN /\ multiline \in BOOLEAN
  OBVIOUS
<1> QED
  BY <1>1, <1>2, <1>3, Zenon
     DEF Typed, ExecTypeOK, Readinesses, Answers, Actives, Phases, Shells, Marks, Pieces

\* The values the active request goes through.
LEMMA ActiveValues ==
    /\ NoActive \in Actives
    /\ \A e \in Exec, phase \in Phases, kind \in Kinds :
          /\ [NoActive EXCEPT !.id = e, !.phase = phase, !.kind = kind] \in Actives
          /\ [NoActive EXCEPT !.id = e, !.phase = "observing"] \in Actives
    /\ \A a \in Actives :
          /\ [a EXCEPT !.detached = TRUE] \in Actives
          /\ \A b \in BOOLEAN : [a EXCEPT !.timedOut = b] \in Actives /\ [a EXCEPT !.started = b] \in Actives
  BY DEF NoActive, Actives, Phases, Kinds

LEMMA RequestsStart == ExecInit => RequestsInv
<1> SUFFICES ASSUME ExecInit PROVE RequestsInv
  OBVIOUS
<1>1. marks \in Seq(Marks)
  <2>1. <<"PromptStart", "InputStart">> \in Seq({"PromptStart", "InputStart", "CommandStart", "CommandFinished"})
    OBVIOUS
  <2> QED
    BY <2>1 DEF ExecInit, Prompt, Marks
<1>2. Typed
  <2>1. answer \in [Exec -> Answers] /\ shell \in Shells
    BY DEF ExecInit, Answers, Shells
  <2>2. <<>> \in Seq(Pieces)
    OBVIOUS
  <2>3. active \in Actives
    BY ActiveValues DEF ExecInit
  <2>4. /\ buffered \in BOOLEAN /\ inputDirty \in BOOLEAN
        /\ appended \in BOOLEAN /\ disturbed \in BOOLEAN
        /\ initSent \in BOOLEAN /\ multiline \in BOOLEAN
    BY DEF ExecInit
  <2>5. readiness \in Readinesses /\ keys \in 0..MaxKeys
    BY ExecAssumption DEF ExecInit, Readinesses
  <2>6. /\ timers \in SUBSET (Exec \X Phases) /\ keptBack \in Seq(Pieces) /\ wire \in Seq(Pieces)
        /\ written \in SUBSET Exec /\ ended \in SUBSET Exec
    BY <2>2 DEF ExecInit
  <2> QED
    BY <1>1, <2>1, <2>3, <2>4, <2>5, <2>6 DEF Typed
<1> QED
  BY <1>2, TypedMeansTypeOK, ExecAssumption DEF ExecInit, RequestsInv, Requests, NoActive

\* The sequence that is left when its first element is taken, or all the
\* elements up to the i-th.
LEMMA TailOf ==
    ASSUME NEW S, NEW s \in Seq(S), s # <<>>
    PROVE  /\ Head(s) \in S /\ Head(s) = s[1] /\ 1 \in 1..Len(s)
           /\ Tail(s) \in Seq(S) /\ Len(Tail(s)) = Len(s) - 1
           /\ \A i \in 1..Len(Tail(s)) : Tail(s)[i] = s[i + 1]
  OBVIOUS

LEMMA RestOf ==
    ASSUME NEW S, NEW s \in Seq(S), NEW k \in 1..Len(s)
    PROVE  /\ SubSeq(s, k + 1, Len(s)) \in Seq(S)
           /\ Len(SubSeq(s, k + 1, Len(s))) = Len(s) - k
           /\ \A i \in 1..(Len(s) - k) : SubSeq(s, k + 1, Len(s))[i] = s[k + i]
<1>0. Len(s) \in Nat /\ k \in Nat /\ k <= Len(s)
  OBVIOUS
<1>1. \A i \in (k + 1)..Len(s) : s[i] \in S
  BY <1>0
<1>2. /\ SubSeq(s, k + 1, Len(s)) \in Seq(S)
      /\ Len(SubSeq(s, k + 1, Len(s))) = IF k + 1 <= Len(s) THEN Len(s) - (k + 1) + 1 ELSE 0
      /\ \A i \in 1..(Len(s) - (k + 1) + 1) : SubSeq(s, k + 1, Len(s))[i] = s[(k + 1) + i - 1]
  BY <1>0, <1>1, SubSeqProperties
<1> QED
  BY <1>0, <1>2

LEMMA SingleIsSeq ==
    ASSUME NEW S, NEW e \in S
    PROVE  <<e>> \in Seq(S) /\ Len(<<e>>) = 1 /\ <<e>>[1] = e
  OBVIOUS

\* A sequence of one element, put behind another.
LEMMA OneMore ==
    ASSUME NEW S, NEW s \in Seq(S), NEW t \in Seq(S), Len(t) = 1
    PROVE  s \o t = Append(s, t[1])
<1>1. t[1] \in S
  <2>1. 1 \in 1..Len(t)
    OBVIOUS
  <2> QED
    BY <2>1, ElementOfSeq
<1>2. PICK both \in Seq(S) :
        /\ both = s \o t /\ Len(both) = Len(s) + 1
        /\ \A i \in 1..(Len(s) + 1) : both[i] = IF i <= Len(s) THEN s[i] ELSE t[i - Len(s)]
  <2>1. /\ s \o t \in Seq(S) /\ Len(s \o t) = Len(s) + Len(t)
        /\ \A i \in 1..(Len(s) + Len(t)) :
              (s \o t)[i] = IF i <= Len(s) THEN s[i] ELSE t[i - Len(s)]
    BY ConcatProperties
  <2>2. Len(s) + Len(t) = Len(s) + 1
    OBVIOUS
  <2> QED
    BY <2>1, <2>2, Zenon
<1>3. PICK more \in Seq(S) :
        /\ more = Append(s, t[1]) /\ Len(more) = Len(s) + 1
        /\ \A i \in 1..Len(s) : more[i] = s[i]
        /\ more[Len(s) + 1] = t[1]
  BY <1>1, AppendProperties
<1>4. Len(s) \in Nat
  BY LenProperties
<1>5. ASSUME NEW i \in 1..Len(both)
      PROVE  both[i] = more[i]
  <2>1. CASE i <= Len(s)
    BY <2>1, <1>2, <1>3, <1>4
  <2>2. CASE i = Len(s) + 1
    <3>1. i - Len(s) = 1
      BY <2>2, <1>4
    <3> QED
      BY <2>2, <3>1, <1>2, <1>3, <1>4
  <2> QED
    BY <2>1, <2>2, <1>2, <1>4
<1> QED
  BY <1>2, <1>3, <1>5, SeqEqual

LEMMA LinesAre ==
    ASSUME NEW n \in Nat
    PROVE  /\ Lines(n) \in Seq(Pieces) /\ Len(Lines(n)) = n
           /\ Append(Lines(n), "text") \in Seq(Pieces) /\ Len(Append(Lines(n), "text")) = n + 1
           /\ Append(Lines(n), "text")[n + 1] = "text"
           /\ \A i \in 1..n : Lines(n)[i] = "enter"
<1>1. \A i \in 1..n : "enter" \in Pieces
  BY DEF Pieces
<1>2. Lines(n) \in Seq(Pieces) /\ Len(Lines(n)) = n /\ \A i \in 1..n : Lines(n)[i] = "enter"
  BY <1>1 DEF Lines
<1>3. "text" \in Pieces
  BY DEF Pieces
<1> QED
  BY <1>2, <1>3

\* A write holds pieces of input, and one that is a line of its own, or no
\* line, holds one.
LEMMA InputsAre ==
    ASSUME NEW input \in Inputs
    PROVE  /\ input \in Seq(Pieces) /\ Len(input) >= 1
           /\ Len(input) <= 1 => Len(input) = 1 /\ input[1] \in {"text", "enter", "ctrlC"}
           /\ input[1] = "ctrlC" => input = <<"ctrlC">>
<1>0. MaxLines \in Nat
  BY ExecAssumption
<1>1. CASE input = <<"ctrlC">>
  <2>1. "ctrlC" \in Pieces
    BY DEF Pieces
  <2> QED
    BY <1>1, <2>1
<1>2. ASSUME NEW n \in 1..MaxLines, input = Lines(n)
      PROVE  /\ input \in Seq(Pieces) /\ Len(input) >= 1 /\ input[1] = "enter"
             /\ Len(input) <= 1 => Len(input) = 1
  <2>1. n \in Nat /\ n >= 1
    BY <1>0
  <2>2. PICK lines \in Seq(Pieces) : /\ lines = Lines(n) /\ Len(lines) = n
                                     /\ \A i \in 1..n : lines[i] = "enter"
    BY <2>1, LinesAre
  <2> QED
    BY <2>1, <2>2, <1>2
<1>3. ASSUME NEW n \in 0..MaxLines, input = Append(Lines(n), "text")
      PROVE  /\ input \in Seq(Pieces) /\ Len(input) >= 1 /\ input[1] \in {"enter", "text"}
             /\ Len(input) <= 1 => Len(input) = 1
  <2>1. n \in Nat
    BY <1>0
  <2>2. PICK lines \in Seq(Pieces) : /\ lines = Lines(n) /\ Len(lines) = n
                                     /\ \A i \in 1..n : lines[i] = "enter"
    BY <2>1, LinesAre
  <2>3. input = Append(lines, "text") /\ "text" \in Pieces
    BY <1>3, <2>2 DEF Pieces
  <2>4. input \in Seq(Pieces) /\ Len(input) = n + 1 /\ input[n + 1] = "text"
        /\ \A i \in 1..n : input[i] = "enter"
    BY <2>1, <2>2, <2>3
  <2> QED
    BY <2>1, <2>4
<1> QED
  BY <1>1, <1>2, <1>3 DEF Inputs

\* What a command leaves on the way to the shell: pieces of input, and if it
\* is one line, one of them.
LEMMA SubmitWrites ==
    ASSUME Typed, NEW e \in Exec, NEW kind \in Kinds, NEW table, Submit(e, kind, table)
    PROVE  /\ wire' \in Seq(Pieces) /\ keys' \in 0..MaxKeys /\ multiline' \in BOOLEAN
           /\ multiline => multiline'
           /\ ~multiline' => wire' = Append(wire, IF kind = "type" THEN "text" ELSE e)
<1>1. PICK more \in 0..(MaxLines - 1) :
        /\ wire' = wire \o (IF kind = "type" THEN Append(Lines(more), "text") ELSE <<e>> \o Lines(more))
        /\ keys + more <= MaxKeys /\ keys' = keys + more
        /\ multiline' = (multiline \/ more > 0)
  BY DEF Submit
<1>2. more \in Nat /\ keys \in Nat /\ MaxKeys \in Nat
  BY ExecAssumption DEF Typed
<1>3. PICK lines \in Seq(Pieces) : lines = Lines(more) /\ Len(lines) = more
  BY <1>2, LinesAre
<1>4. PICK command : command = <<e>> \o lines
  OBVIOUS
<1>5. command \in Seq(Pieces) /\ Len(command) = more + 1 /\ command[1] = e
  <2>1. PICK first \in Seq(Pieces) : first = <<e>> /\ Len(first) = 1 /\ first[1] = e
    <3>1. e \in Pieces
      BY DEF Pieces
    <3> QED
      BY <3>1, SingleIsSeq
  <2>2. /\ first \o lines \in Seq(Pieces) /\ Len(first \o lines) = Len(first) + Len(lines)
        /\ \A i \in 1..(Len(first) + Len(lines)) :
              (first \o lines)[i] = IF i <= Len(first) THEN first[i] ELSE lines[i - Len(first)]
    BY ConcatProperties
  <2>3. Len(first) + Len(lines) = more + 1 /\ 1 \in 1..(Len(first) + Len(lines)) /\ 1 <= Len(first)
    BY <2>1, <1>2, <1>3
  <2> QED
    BY <2>1, <2>2, <2>3, <1>4
<1>6. PICK typed : typed = Append(lines, "text")
  OBVIOUS
<1>7. typed \in Seq(Pieces) /\ Len(typed) = more + 1 /\ typed[more + 1] = "text"
  BY <1>2, <1>3, <1>6, LinesAre
<1>8. PICK input \in Seq(Pieces) : /\ wire' = wire \o input /\ Len(input) = more + 1
                                   /\ more = 0 => input[1] = IF kind = "type" THEN "text" ELSE e
  <2>1. CASE kind = "type"
    <3>1. wire' = wire \o typed
      BY <2>1, <1>1, <1>3, <1>6
    <3>2. more = 0 => typed[1] = "text"
      BY <1>7, <1>2
    <3> QED
      BY <2>1, <3>1, <3>2, <1>7
  <2>2. CASE kind # "type"
    <3>1. wire' = wire \o command
      BY <2>2, <1>1, <1>3, <1>4
    <3> QED
      BY <2>2, <3>1, <1>5
  <2> QED
    BY <2>1, <2>2
<1>9. wire \in Seq(Pieces)
  BY DEF Typed
<1>10. wire \o input \in Seq(Pieces)
  BY <1>8, <1>9, ConcatProperties
<1>11. more = 0 => wire \o input = Append(wire, input[1])
  BY <1>8, <1>9, OneMore
<1>12. more = 0 \/ more > 0
  BY <1>2
<1>13. multiline' \in BOOLEAN /\ (multiline => multiline') /\ (~multiline' => more = 0)
  BY <1>1, <1>12
<1>14. keys' \in 0..MaxKeys
  BY <1>1, <1>2
<1>15. ~multiline' => wire' = Append(wire, IF kind = "type" THEN "text" ELSE e)
  BY <1>8, <1>11, <1>13
<1>16. wire' \in Seq(Pieces)
  BY <1>8, <1>10
<1> QED
  BY <1>13, <1>14, <1>15, <1>16

\* What the commands of the model leave in the variables they change.
LEMMA SubmitTypes ==
    ASSUME Typed, NEW e \in Exec, NEW kind \in Kinds, NEW table \in [Exec -> Answers],
           Submit(e, kind, table)
    PROVE  /\ wire' \in Seq(Pieces) /\ written' \in SUBSET Exec /\ inputDirty' \in BOOLEAN
           /\ readiness' \in Readinesses
           /\ active' \in Actives
           /\ timers' \in SUBSET (Exec \X Phases)
           /\ answer' \in [Exec -> Answers]
           /\ keys' \in 0..MaxKeys /\ multiline' \in BOOLEAN
<1>1. wire' \in Seq(Pieces) /\ keys' \in 0..MaxKeys /\ multiline' \in BOOLEAN
  BY SubmitWrites
<1>2. written' \in SUBSET Exec /\ inputDirty' \in BOOLEAN
  BY DEF Submit, Typed
<1>3. readiness' \in Readinesses
  BY DEF Submit, Readinesses
<1>4. active' \in Actives
  BY ActiveValues DEF Submit, Phases
<1>5. timers' \in SUBSET (Exec \X Phases)
  BY DEF Submit, Typed, Arm, Phases
<1>6. answer' \in [Exec -> Answers]
  BY DEF Submit, Answers
<1> QED
  BY <1>1, <1>2, <1>3, <1>4, <1>5, <1>6

LEMMA OtherTypes ==
    ASSUME Typed
    PROVE  /\ \A piece \in Pieces : /\ Append(wire, piece) \in Seq(Pieces)
                                    /\ Append(keptBack, piece) \in Seq(Pieces)
           /\ \A e \in Exec, outcome \in Answers :
                 /\ [answer EXCEPT ![e] = outcome] \in [Exec -> Answers]
                 /\ [answer EXCEPT ![e] = IF @ = "pending" THEN outcome ELSE @] \in [Exec -> Answers]
           /\ \A e \in Exec, phase \in Phases : timers \cup {<<e, phase>>} \in SUBSET (Exec \X Phases)
           /\ active.id \in Exec \cup {NoExec} /\ active.phase \in {"none"} \cup Phases /\ active.kind \in Kinds
           /\ "text" \in Pieces /\ "enter" \in Pieces /\ "ctrlC" \in Pieces /\ Exec \subseteq Pieces
  BY DEF Typed, Pieces, Actives

LEMMA TypesKept ==
    ASSUME Typed, Requests, [ExecNext]_execVars
    PROVE  Typed'
<1>t. Typed /\ Requests
  OBVIOUS
<1>1. ASSUME NEW e \in Exec, NEW kind \in Kinds, NEW waits \in BOOLEAN, StartExec(e, kind, waits)
      PROVE  Typed'
  <2>1. PICK pending \in [Exec -> Answers] : pending = [answer EXCEPT ![e] = "pending"]
    BY OtherTypes DEF Answers
  <2>2. UNCHANGED <<keptBack, marks, Outside>>
    BY <1>1 DEF StartExec
  <2>3. CASE Submit(e, kind, pending)
    BY <2>2, <2>3, <1>t, SubmitTypes DEF Typed, Outside
  <2>4. CASE ~Submit(e, kind, pending)
    <3>1. active' \in Actives
      <4>1. active' = active \/ \E phase \in Phases :
                    active' = [NoActive EXCEPT !.id = e, !.phase = phase, !.kind = kind]
        BY <1>1, <2>1, <2>4 DEF StartExec, Phases
      <4>2. \A phase \in Phases : [NoActive EXCEPT !.id = e, !.phase = phase, !.kind = kind] \in Actives
        BY ActiveValues
      <4> QED
        BY <4>1, <4>2, <1>t DEF Typed
    <3>2. answer' \in [Exec -> Answers]
      BY <1>1, <1>t, <2>1, <2>4, OtherTypes DEF StartExec, Answers, BeforeSubmit
    <3>3. timers' \in SUBSET (Exec \X Phases)
      BY <1>1, <1>t, <2>1, <2>4, OtherTypes DEF StartExec, Phases, Arm, Typed
    <3>4. wire' \in Seq(Pieces)
      <4>1. wire' = wire \/ wire' = Append(wire, "ctrlC")
        BY <1>1, <2>1, <2>4 DEF StartExec
      <4>2. Append(wire, "ctrlC") \in Seq(Pieces)
        BY <1>t, OtherTypes
      <4> QED
        BY <4>1, <4>2, <1>t DEF Typed
    <3>5. readiness' \in Readinesses
      BY <1>1, <1>t, <2>1, <2>4 DEF StartExec, Readinesses, Typed
    <3>6. UNCHANGED <<written, inputDirty, keys, multiline>>
      BY <1>1, <1>t, <2>1, <2>4 DEF StartExec
    <3> QED
      BY <2>2, <3>1, <3>2, <3>3, <3>4, <3>5, <3>6, <1>t DEF Typed, Outside
  <2> QED
    BY <2>3, <2>4
<1>2. ASSUME NEW e \in Exec, CancelExec(e)
      PROVE  Typed'
  <2>1. active' \in Actives
    BY <1>2, <1>t, ActiveValues DEF CancelExec, Withdraw, Typed
  <2>2. answer' \in [Exec -> Answers]
    BY <1>2, <1>t, OtherTypes DEF CancelExec, Answers
  <2>3. readiness' \in Readinesses
    BY <1>2, <1>t DEF CancelExec, Withdraw, Typed, Readinesses
  <2> QED
    BY <2>1, <2>2, <2>3, <1>2, <1>t DEF CancelExec, Outside, Typed
<1>3. ASSUME NEW timer \in timers, ExecTimeout(timer[1], timer[2])
      PROVE  Typed'
  <2>1. PICK e \in Exec, phase \in Phases : timer = <<e, phase>> /\ ExecTimeout(e, phase)
    BY <1>3, <1>t DEF Typed
  <2>2. active' \in Actives
    <3>1. active' = active \/ active' = NoActive
            \/ active' = [active EXCEPT !.timedOut = active.timedOut \/ ~active.detached]
      BY <2>1 DEF ExecTimeout, Phases
    <3>2. (active.timedOut \/ ~active.detached) \in BOOLEAN
      OBVIOUS
    <3> QED
      BY <3>1, <3>2, <1>t, ActiveValues DEF Typed
  <2>3. answer' \in [Exec -> Answers]
    <3>1. answer' = answer \/ \E outcome \in {"readyTimeout", "clearTimeout", "timedOut"} :
                  answer' = [answer EXCEPT ![e] = IF @ = "pending" THEN outcome ELSE @]
      BY <2>1 DEF ExecTimeout, Answer, Phases
    <3>2. {"readyTimeout", "clearTimeout", "timedOut"} \subseteq Answers
      BY DEF Answers, BeforeSubmit
    <3> QED
      BY <3>1, <3>2, <1>t, OtherTypes DEF Typed
  <2>4. readiness' \in Readinesses
    BY <2>1, <1>t DEF ExecTimeout, Typed, Readinesses, Phases
  <2>5. timers' \in SUBSET (Exec \X Phases)
    BY <2>1, <1>t DEF ExecTimeout, Typed
  <2> QED
    BY <2>1, <2>2, <2>3, <2>4, <2>5, <1>t DEF ExecTimeout, Outside, Typed
<1>4. ASSUME NEW input \in Inputs, UserTypes(input)
      PROVE  Typed'
  <2>1. active' \in Actives
    BY <1>4, <1>t, ActiveValues DEF UserTypes, Withdraw, Typed
  <2>2. answer' \in [Exec -> Answers]
    <3>1. CASE active.phase \in {"waiting", "clearing"}
      <4>1. active.id \in Exec
        BY <3>1, <1>t, OtherTypes DEF Requests, NoActive
      <4> QED
        <5>1. PICK e \in Exec, outcome \in Answers : e = active.id /\ outcome = "userInput"
          BY <4>1 DEF Answers, BeforeSubmit
        <5>2. answer' = [answer EXCEPT ![e] = IF @ = "pending" THEN outcome ELSE @]
          BY <5>1, <3>1, <1>4 DEF UserTypes, Answer
        <5> QED
          BY <5>2, <1>t, OtherTypes
    <3>2. CASE active.phase \notin {"waiting", "clearing"}
      BY <3>2, <1>4, <1>t DEF UserTypes, Typed
    <3> QED
      BY <3>1, <3>2
  <2>3. readiness' \in Readinesses
    BY <1>4, <1>t DEF UserTypes, Withdraw, Typed, Readinesses
  <2>4. wire' \in Seq(Pieces) /\ keptBack' \in Seq(Pieces)
    <3>1. PICK kept \in Seq(Pieces), sent \in Seq(Pieces), new \in Seq(Pieces) :
            kept = keptBack /\ sent = wire /\ new = input
      BY <1>4, <1>t, InputsAre DEF Typed
    <3>2. kept \o new \in Seq(Pieces) /\ sent \o new \in Seq(Pieces)
      BY ConcatProperties
    <3>3. keptBack' \in {kept, kept \o new} /\ wire' \in {sent, sent \o new}
      BY <1>4, <3>1 DEF UserTypes
    <3> QED
      BY <3>2, <3>3
  <2>5. inputDirty' \in BOOLEAN /\ disturbed' \in BOOLEAN /\ multiline' \in BOOLEAN
    BY <1>4, <1>t DEF UserTypes, Typed, LeavesText, HasNewline
  <2>6. keys' \in 0..MaxKeys
    BY <1>4, <1>t, ExecAssumption DEF UserTypes, Typed
  <2> QED
    BY <2>1, <2>2, <2>3, <2>4, <2>5, <2>6, <1>4, <1>t DEF UserTypes, Typed
\* Lines that the actor writes itself.
<1>w. ASSUME NEW n \in 1..MaxLines, wire' = wire \o Lines(n)
      PROVE  wire' \in Seq(Pieces)
  <2>1. n \in Nat
    BY ExecAssumption
  <2>2. Lines(n) \in Seq(Pieces) /\ wire \in Seq(Pieces)
    BY <2>1, <1>t, LinesAre DEF Typed
  <2> QED
    BY <2>2, <1>w, ConcatProperties
<1>4a. ASSUME NEW n \in 1..MaxLines, SendInit(n)
       PROVE  Typed'
  <2>1. wire' \in Seq(Pieces)
    BY <1>4a, <1>w DEF SendInit
  <2>2. readiness' \in Readinesses /\ inputDirty' \in BOOLEAN
    BY <1>4a, <1>t DEF SendInit, Typed, Readinesses
  <2>3. disturbed' \in BOOLEAN /\ multiline' \in BOOLEAN /\ initSent' \in BOOLEAN
    BY <1>4a DEF SendInit
  <2>4. keys' \in 0..MaxKeys
    BY <1>4a, <1>t, ExecAssumption DEF SendInit, Typed
  <2> QED
    BY <2>1, <2>2, <2>3, <2>4, <1>4a, <1>t DEF SendInit, Typed
<1>4b. CASE Reintegrate
  <2>1. wire' \in Seq(Pieces)
    <3>1. 1 \in 1..MaxLines
      BY ExecAssumption
    <3> QED
      BY <3>1, <1>4b, <1>w DEF Reintegrate
  <2>2. keys' \in 0..MaxKeys
    BY <1>4b, <1>t, ExecAssumption DEF Reintegrate, Typed
  <2> QED
    BY <2>1, <2>2, <1>4b, <1>t DEF Reintegrate, Typed
<1>5. CASE FlushInput
  <2>1. wire' \in Seq(Pieces) /\ keptBack' \in Seq(Pieces)
    BY <1>5, <1>t, OtherTypes, TailOf DEF FlushInput, Typed
  <2> QED
    BY <2>1, <1>5, <1>t DEF FlushInput, Outside, Typed
<1>6. CASE Interrupt
  BY <1>6, <1>t, OtherTypes, ExecAssumption DEF Typed, Interrupt
<1>7. CASE Disconnect
  <2>1. answer' \in [Exec -> Answers]
    BY <1>7, <1>t DEF Disconnect, Typed, Answers
  <2>2. active' \in Actives /\ readiness' \in Readinesses
    BY <1>7, ActiveValues DEF Disconnect, Readinesses
  <2> QED
    BY <1>7, <1>t, <2>1, <2>2 DEF Typed, Disconnect, Outside
<1>m. ASSUME NEW mark, TakesMark(mark)
      PROVE  /\ marks' \in Seq(Marks)
             /\ UNCHANGED <<keptBack, buffered, initSent, shell, ended, appended, disturbed>>
  BY <1>m, <1>t, TailOf DEF TakesMark, Outside, Typed
<1>8. CASE OnPromptStart
  BY <1>8, <1>t, <1>m DEF Typed, OnPromptStart, Readinesses
<1>9. CASE OnInputStart
  <2>0. /\ marks' \in Seq(Marks)
        /\ UNCHANGED <<keptBack, buffered, initSent, shell, ended, appended, disturbed>>
    BY <1>9, <1>m DEF OnInputStart
  <2>1. CASE active.phase \in {"waiting", "clearing"}
    <3>1. PICK e \in Exec, kind \in Kinds : e = active.id /\ kind = active.kind
      BY <2>1, <1>t, OtherTypes DEF Requests, NoActive
    <3>2. PICK table \in [Exec -> Answers] : table = answer
      BY <1>t DEF Typed
    <3>3. Submit(e, kind, table)
      BY <2>1, <3>1, <3>2, <1>9 DEF OnInputStart
    <3> QED
      BY <2>0, <3>3, <1>t, SubmitTypes DEF Typed
  <2>2. CASE active.phase \notin {"waiting", "clearing"}
    <3>1. active' \in Actives /\ readiness' \in Readinesses /\ inputDirty' \in BOOLEAN
      BY <2>2, <1>9, <1>t, ActiveValues DEF OnInputStart, Typed, Readinesses
    <3>2. answer' \in [Exec -> Answers]
      <4>1. Observing => active.id \in Exec
        BY <1>t, OtherTypes DEF Observing, Requests, NoActive
      <4> QED
        BY <4>1, <2>2, <1>9, <1>t, OtherTypes DEF OnInputStart, Answer, Typed, Answers
    <3>3. UNCHANGED <<timers, wire, written, keys, multiline>>
      BY <2>2, <1>9 DEF OnInputStart
    <3> QED
      BY <2>0, <3>1, <3>2, <3>3, <1>t DEF Typed
  <2> QED
    BY <2>1, <2>2
<1>10. CASE OnCommandStart
  <2>1. active' \in Actives
    <3>1. Observing \in BOOLEAN
      BY DEF Observing
    <3> QED
      BY <3>1, <1>10, <1>t, ActiveValues DEF OnCommandStart, Typed
  <2>2. readiness' \in Readinesses
    BY <1>10, <1>t DEF OnCommandStart, Typed, Readinesses
  <2> QED
    BY <2>1, <2>2, <1>10, <1>t, <1>m DEF Typed, OnCommandStart
<1>11. CASE OnCommandFinished
  <2>1. active' \in Actives
    BY <1>11, <1>t, ActiveValues DEF OnCommandFinished, Typed
  <2>2. readiness' \in Readinesses
    BY <1>11, <1>t DEF OnCommandFinished, Typed, Readinesses
  <2>3. answer' \in [Exec -> Answers]
    <3>1. Completes => active.id \in Exec
      BY <1>t, OtherTypes DEF Completes, Observing, Requests, NoActive
    <3> QED
      BY <3>1, <1>11, <1>t, OtherTypes DEF OnCommandFinished, Answer, Typed, Answers
  <2> QED
    BY <2>1, <2>2, <2>3, <1>11, <1>t, <1>m DEF Typed, OnCommandFinished
<1>s. ASSUME ShellSide
      PROVE  UNCHANGED <<buffered, initSent, readiness, inputDirty, active, answer, timers, keptBack,
                         keys, written, multiline>>
  BY <1>s DEF ShellSide
<1>12. CASE ShellReads
  <2>1. Head(wire) \in Pieces /\ Tail(wire) \in Seq(Pieces) /\ wire # <<>>
    BY <1>12, <1>t, TailOf DEF ShellReads, Typed
  <2>2. PICK piece \in Pieces : piece = Head(wire) /\ piece # "ctrlC"
    BY <2>1, <1>12 DEF ShellReads
  <2>3. wire' \in Seq(Pieces) /\ UNCHANGED <<ended, disturbed>>
    BY <2>1, <1>12 DEF ShellReads
  <2>4. CASE /\ marks' = marks \/ marks' = marks \o Prompt
             /\ \E line \in BOOLEAN : shell' = [shell EXCEPT !.line = line]
             /\ appended' = appended
    <3>1. shell' \in Shells
      BY <2>4, <1>t DEF Typed, Shells
    <3>2. marks' \in Seq(Marks)
      <4>1. PICK sent \in Seq(Marks) : sent = marks
        BY <1>t DEF Typed
      <4> QED
        BY <4>1, <2>4, PromptSent
    <3> QED
      BY <2>3, <2>4, <3>1, <3>2, <1>12, <1>s, <1>t DEF Typed, ShellReads
  <2>5. CASE /\ piece # "text"
             /\ shell' = [runs |-> IF piece = "enter" THEN "user" ELSE piece, line |-> FALSE]
             /\ marks' = Append(marks, "CommandStart")
             /\ appended' = (appended \/ (piece \in Exec /\ shell.line))
    <3>2. shell' \in Shells
      BY <2>2, <2>5 DEF Shells, Pieces
    <3>3. marks' \in Seq(Marks)
      BY <2>5, <1>t DEF Typed, Marks
    <3>4. appended' \in BOOLEAN
      BY <2>5
    <3> QED
      BY <2>3, <3>2, <3>3, <3>4, <1>12, <1>s, <1>t DEF Typed, ShellReads
  <2> QED
    BY <2>2, <2>4, <2>5, <1>12 DEF ShellReads
<1>f. ASSUME CommandIsOver
      PROVE  marks' \in Seq(Marks) /\ ended' \in SUBSET Exec
  <2>1. PICK before, after : before \in Seq(Marks) /\ before = marks /\ after = marks'
    BY <1>t DEF Typed
  <2>2. \/ after = before \o <<"CommandFinished">> \o Prompt
        \/ after = before \o Prompt \o <<"CommandFinished">>
    BY <2>1, <1>f DEF CommandIsOver
  <2>3. after \in Seq(Marks)
    BY <2>1, <2>2, FinishAndPromptSent
  <2> QED
    BY <2>1, <2>3, <1>f, <1>t DEF CommandIsOver, Typed
<1>13. CASE CommandEnds
  <2>1. shell' \in Shells
    BY <1>13, <1>t DEF CommandEnds, Typed, Shells
  <2> QED
    BY <2>1, <1>13, <1>t, <1>s, <1>f DEF CommandEnds, Typed
<1>14. CASE ShellInterrupted
  <2>1. shell' \in Shells
    BY <1>14 DEF ShellInterrupted, Shells
  <2>2. wire' \in Seq(Pieces)
    <3>1. PICK i \in 1..Len(wire) : wire' = SubSeq(wire, i + 1, Len(wire))
      <4>1. DOMAIN wire = 1..Len(wire)
        BY <1>t DEF Typed
      <4> QED
        BY <4>1, <1>14 DEF ShellInterrupted
    <3> QED
      BY <3>1, <1>t, RestOf DEF Typed
  <2>3. marks' \in Seq(Marks) /\ ended' \in SUBSET Exec
    <3>1. PICK before \in Seq(Marks) : before = marks
      BY <1>t DEF Typed
    <3>2. before \o Prompt \in Seq(Marks)
      BY PromptSent
    <3> QED
      BY <3>1, <3>2, <1>14, <1>f, <1>t DEF ShellInterrupted, Typed
  <2> QED
    BY <2>1, <2>2, <2>3, <1>14, <1>t, <1>s DEF ShellInterrupted, Typed
<1>15. CASE UNCHANGED execVars
  BY <1>15, <1>t DEF Typed, execVars
<1> QED
  BY <1>1, <1>2, <1>3, <1>4, <1>4a, <1>4b, <1>5, <1>6, <1>7, <1>8, <1>9, <1>10, <1>11, <1>12, <1>13,
     <1>14, <1>15 DEF ExecNext

LEMMA RequestsKept ==
    ASSUME Typed, Requests, [ExecNext]_execVars
    PROVE  Requests'
<1>t. Typed /\ Requests
  OBVIOUS
<1>v. /\ \A e \in Exec : e # NoExec
      /\ active \in Actives /\ active.id \in Exec \cup {NoExec} /\ answer \in [Exec -> Answers]
      /\ written \in SUBSET Exec
  BY <1>t, OtherTypes, ExecAssumption DEF Typed
<1>n. /\ NoActive.id = NoExec /\ NoActive.phase = "none"
      /\ NoActive.detached = FALSE /\ NoActive.timedOut = FALSE
  BY DEF NoActive
<1>s. ASSUME NEW e \in Exec, NEW kind \in Kinds, NEW table \in [Exec -> Answers], Submit(e, kind, table),
             table[e] = "pending",
             \A d \in Exec \ {e} : table[d] = answer[d] /\ answer[d] # "pending"
      PROVE  Requests'
  <2>0. /\ written' = written \cup {e} /\ \A d \in Exec \ {e} : answer'[d] = answer[d]
        /\ \A d \in Exec \ {e} : answer'[d] # "pending"
    BY <1>s, <1>v DEF Submit
  <2>1. CASE kind = "observe"
    <3>1. /\ active' = [NoActive EXCEPT !.id = e, !.phase = "observing"]
          /\ timers' = timers \cup {<<e, "observing">>}
          /\ answer' = table
      BY <2>1, <1>s DEF Submit, Arm
    <3>2. /\ active'.id = e /\ active'.phase = "observing" /\ active'.detached = FALSE
          /\ active'.timedOut = FALSE
      BY <3>1 DEF NoActive
    <3>3. \A d \in written' : answer'[d] \notin BeforeSubmit \cup {"none"}
      BY <2>0, <3>1, <1>s, <1>t, <1>v DEF Requests, BeforeSubmit
    <3> QED
      BY <2>0, <3>1, <3>2, <3>3, <1>s, <1>v DEF Requests
  <2>2. CASE kind # "observe"
    <3>1. active' = NoActive /\ answer'[e] = "submitted"
      BY <2>2, <1>s DEF Submit
    <3>3. \A d \in written' : answer'[d] \notin BeforeSubmit \cup {"none"}
      BY <2>0, <3>1, <1>s, <1>t, <1>v DEF Requests, BeforeSubmit
    <3> QED
      BY <2>0, <3>1, <3>3, <1>n, <1>s, <1>v DEF Requests
  <2> QED
    BY <2>1, <2>2
\* What becomes of the active request when it is answered or given up.
<1>o. ASSUME active' = NoActive, UNCHANGED written, NEW outcome \in Answers \ {"pending", "none"},
             active.id \in Exec,
             answer' = [answer EXCEPT ![active.id] = IF @ = "pending" THEN outcome ELSE @],
             outcome \in BeforeSubmit => active.phase \in {"waiting", "clearing"}
      PROVE  Requests'
  <2>1. \A d \in Exec : answer'[d] # "pending"
    BY <1>o, <1>t, <1>v DEF Requests
  <2>2. \A d \in written' : answer'[d] \notin BeforeSubmit \cup {"none"}
    BY <1>o, <1>t, <1>v DEF Requests
  <2> QED
    BY <2>1, <2>2, <1>o, <1>n, <1>v DEF Requests
<1>1. ASSUME NEW e \in Exec, NEW kind \in Kinds, NEW waits \in BOOLEAN, StartExec(e, kind, waits)
      PROVE  Requests'
  <2>0. answer[e] = "none" /\ e \notin written /\ active.id # e
    BY <1>1, <1>t, <1>v DEF StartExec, Requests
  <2>1. PICK pending : pending = [answer EXCEPT ![e] = "pending"]
    OBVIOUS
  <2>2. /\ pending \in [Exec -> Answers] /\ pending[e] = "pending"
        /\ \A d \in Exec \ {e} : pending[d] = answer[d]
    BY <2>1, <1>v DEF Answers
  <2>3. CASE active = NoActive
    <3>1. \A d \in Exec : answer[d] # "pending"
      BY <2>3, <1>t, <1>v, <1>n DEF Requests
    <3>2. CASE Submit(e, kind, pending)
      BY <3>1, <3>2, <2>2, <1>s
    <3>3. CASE ~Submit(e, kind, pending)
      <4>1. \/ /\ active' = active /\ timers' = timers
               /\ \E outcome \in {"busy", "disconnected", "unknown"} :
                      answer' = [answer EXCEPT ![e] = outcome]
            \/ \E phase \in {"waiting", "clearing"} :
                  /\ active' = [NoActive EXCEPT !.id = e, !.phase = phase, !.kind = kind]
                  /\ timers' = timers \cup {<<e, phase>>} /\ answer' = pending
        BY <1>1, <2>1, <3>3 DEF StartExec, Arm
      <4>2. written' = written
        BY <1>1, <2>1, <3>3 DEF StartExec
      <4>3. CASE active' = active
        <5>1. PICK outcome \in {"busy", "disconnected", "unknown"} :
                answer' = [answer EXCEPT ![e] = outcome]
          BY <4>1, <4>3, <2>0, <2>3, <1>v DEF NoActive
        <5> QED
          BY <5>1, <4>2, <4>3, <3>1, <2>0, <2>3, <1>t, <1>v, <1>n DEF Requests
      <4>4. CASE active' # active
        <5>1. PICK phase \in {"waiting", "clearing"} :
                /\ active' = [NoActive EXCEPT !.id = e, !.phase = phase, !.kind = kind]
                /\ timers' = timers \cup {<<e, phase>>} /\ answer' = pending
          BY <4>1, <4>4
        <5>2. /\ active'.id = e /\ active'.phase = phase /\ active'.detached = FALSE
              /\ active'.timedOut = FALSE
          BY <5>1 DEF NoActive
        <5>3. \A d \in written' : answer'[d] \notin BeforeSubmit \cup {"none"}
          BY <5>1, <4>2, <2>0, <2>2, <1>t, <1>v DEF Requests
        <5> QED
          BY <5>1, <5>2, <5>3, <4>2, <3>1, <2>0, <2>2, <1>v DEF Requests
      <4> QED
        BY <4>3, <4>4
    <3> QED
      BY <3>2, <3>3
  <2>4. CASE active # NoActive
    <3>1. /\ active' = active /\ timers' = timers /\ written' = written
          /\ answer' = [answer EXCEPT ![e] = "busy"]
      BY <1>1, <2>4 DEF StartExec
    <3> QED
      BY <3>1, <2>0, <1>t, <1>v DEF Requests
  <2> QED
    BY <2>3, <2>4
<1>2. ASSUME NEW e \in Exec, CancelExec(e)
      PROVE  Requests'
  <2>1. /\ active.id = e /\ answer[e] = "pending" /\ UNCHANGED <<timers, written>>
        /\ answer' = [answer EXCEPT ![e] = "cancelled"]
    BY <1>2, <1>t DEF CancelExec, Requests
  <2>2. /\ \A d \in Exec : answer'[d] # "pending"
        /\ \A d \in written' : answer'[d] \notin BeforeSubmit \cup {"none"}
        /\ answer'[e] # "none"
    BY <2>1, <1>t, <1>v DEF Requests, BeforeSubmit
  <2>3. CASE active' = NoActive
    BY <2>2, <2>3, <1>n, <1>v DEF Requests
  <2>4. CASE active' # NoActive
    <3>1. active' = [active EXCEPT !.detached = TRUE] /\ active.phase = "observing"
      BY <2>4, <2>1, <1>2 DEF CancelExec, Withdraw, Observing
    <3>2. active'.id = e /\ active'.phase = "observing"
      BY <3>1, <2>1, <1>v DEF Actives
    <3> QED
      BY <3>2, <2>2, <1>v DEF Requests
  <2> QED
    BY <2>3, <2>4
<1>3. ASSUME NEW timer \in timers, ExecTimeout(timer[1], timer[2])
      PROVE  Requests'
  <2>1. PICK e \in Exec, phase \in Phases : timer = <<e, phase>> /\ ExecTimeout(e, phase)
    BY <1>3, <1>t DEF Typed
  <2>2. timers' = timers \ {<<e, phase>>} /\ written' = written
    BY <2>1 DEF ExecTimeout
  <2>3. CASE ~(active.id = e /\ active.phase = phase)
    <3>1. active' = active /\ answer' = answer
      BY <2>1, <2>3 DEF ExecTimeout, TimerIsDue
    <3> QED
      BY <2>2, <2>3, <3>1, <1>t DEF Requests
  <2>4. CASE active.id = e /\ active.phase = phase /\ phase \in {"waiting", "clearing"}
    <3>1. PICK outcome \in {"readyTimeout", "clearTimeout"} :
            active' = NoActive /\ answer' = [answer EXCEPT ![e] = IF @ = "pending" THEN outcome ELSE @]
      BY <2>1, <2>4 DEF ExecTimeout, TimerIsDue, Answer
    <3>2. outcome \in Answers \ {"pending", "none"}
      BY DEF Answers, BeforeSubmit
    <3> QED
      BY <3>1, <3>2, <2>2, <2>4, <1>o
  <2>5. CASE active.id = e /\ active.phase = phase /\ phase = "observing"
    <3>1. PICK late \in BOOLEAN : late = (active.timedOut \/ ~active.detached)
      OBVIOUS
    <3>2. /\ active' = [active EXCEPT !.timedOut = late]
          /\ answer' = [answer EXCEPT ![e] = IF @ = "pending" THEN "timedOut" ELSE @]
      BY <2>1, <2>5, <3>1 DEF ExecTimeout, TimerIsDue, Answer
    <3>3. active'.id = e /\ active'.phase = "observing"
      BY <3>2, <2>5, <1>v DEF Actives
    <3>4. /\ \A d \in Exec : answer'[d] # "pending"
          /\ \A d \in written' : answer'[d] \notin BeforeSubmit \cup {"none"}
          /\ answer'[e] # "none"
      BY <3>2, <2>2, <2>5, <1>t, <1>v DEF Requests, BeforeSubmit
    <3> QED
      BY <3>3, <3>4, <1>v DEF Requests
  <2> QED
    BY <2>3, <2>4, <2>5 DEF Phases
<1>4. ASSUME NEW input \in Inputs, UserTypes(input)
      PROVE  Requests'
  <2>1. UNCHANGED <<timers, written>>
    BY <1>4 DEF UserTypes
  <2>2. CASE active.phase \in {"waiting", "clearing"}
    <3>1. active' = NoActive /\ answer' = [answer EXCEPT ![active.id] = IF @ = "pending" THEN "userInput" ELSE @]
      BY <2>2, <1>4 DEF UserTypes, Withdraw, Answer
    <3>2. active.id \in Exec
      BY <2>2, <1>t, <1>v, <1>n DEF Requests
    <3>3. "userInput" \in Answers \ {"pending", "none"}
      BY DEF Answers, BeforeSubmit
    <3> QED
      BY <3>1, <3>2, <3>3, <2>1, <2>2, <1>o
  <2>3. CASE active.phase \notin {"waiting", "clearing"}
    <3>1. active' = active /\ answer' = answer
      BY <2>3, <1>4 DEF UserTypes
    <3> QED
      BY <2>1, <3>1, <1>t DEF Requests
  <2> QED
    BY <2>2, <2>3
<1>5. CASE Disconnect
  <2>1. active' = NoActive /\ written' = written
        /\ answer' = [e \in Exec |-> IF answer[e] = "pending" THEN "disconnected" ELSE answer[e]]
    BY <1>5 DEF Disconnect
  <2>2. /\ \A d \in Exec : answer'[d] # "pending"
        /\ \A d \in written' : answer'[d] \notin BeforeSubmit \cup {"none"}
    BY <2>1, <1>t, <1>v DEF Requests, BeforeSubmit
  <2> QED
    BY <2>1, <2>2, <1>n, <1>v DEF Requests
<1>6. CASE OnInputStart
  <2>1. CASE active.phase \in {"waiting", "clearing"}
    <3>1. PICK e \in Exec, kind \in Kinds : e = active.id /\ kind = active.kind
      BY <2>1, <1>t, OtherTypes DEF Requests, NoActive
    <3>2. PICK table \in [Exec -> Answers] : table = answer
      BY <1>v
    <3>3. Submit(e, kind, table)
      BY <2>1, <3>1, <3>2, <1>6 DEF OnInputStart
    <3>4. table[e] = "pending" /\ \A d \in Exec \ {e} : table[d] = answer[d] /\ answer[d] # "pending"
      BY <2>1, <3>1, <3>2, <1>t DEF Requests
    <3> QED
      BY <3>3, <3>4, <1>s
  <2>2. CASE active.phase \notin {"waiting", "clearing"}
    <3>1. UNCHANGED <<timers, written>>
      BY <2>2, <1>6 DEF OnInputStart
    <3>2. CASE active' = active /\ answer' = answer
      BY <3>1, <3>2, <1>t DEF Requests
    <3>3. CASE ~(active' = active /\ answer' = answer)
      <4>1. /\ active.phase = "observing" /\ active' = NoActive
            /\ answer' = [answer EXCEPT ![active.id] = IF @ = "pending" THEN "output" ELSE @]
        BY <3>3, <2>2, <1>6 DEF OnInputStart, Observing, Answer
      <4>2. active.id \in Exec
        BY <4>1, <1>t, <1>v, <1>n DEF Requests
      <4>3. "output" \in Answers \ {"pending", "none"} /\ "output" \notin BeforeSubmit
        BY DEF Answers, BeforeSubmit
      <4> QED
        BY <4>1, <4>2, <4>3, <3>1, <1>o
    <3> QED
      BY <3>2, <3>3
  <2> QED
    BY <2>1, <2>2
<1>7. CASE OnCommandStart
  <2>1. active'.id = active.id /\ active'.phase = active.phase
        /\ active'.detached = active.detached /\ active'.timedOut = active.timedOut
    BY <1>7, <1>v DEF OnCommandStart, Actives
  <2>2. active = NoActive => active' = NoActive
    <3> SUFFICES ASSUME active = NoActive PROVE active' = NoActive
      OBVIOUS
    <3>1. Observing = FALSE
      BY <1>n DEF Observing
    <3>2. active' = [NoActive EXCEPT !.started = Observing]
      BY <1>7 DEF OnCommandStart
    <3>3. [NoActive EXCEPT !.started = FALSE] = NoActive
      <4>1. PICK a : a = [NoActive EXCEPT !.started = FALSE]
        OBVIOUS
      <4>2. a \in Actives /\ NoActive \in Actives
        BY <4>1, ActiveValues
      <4>3. /\ a.id = NoActive.id /\ a.phase = NoActive.phase /\ a.kind = NoActive.kind
            /\ a.detached = NoActive.detached /\ a.timedOut = NoActive.timedOut
            /\ a.started = NoActive.started
        BY <4>1 DEF NoActive
      <4> QED
        BY <4>1, <4>2, <4>3 DEF Actives
    <3> QED
      BY <3>1, <3>2, <3>3
  <2> QED
    BY <2>1, <2>2, <1>7, <1>t DEF OnCommandStart, Requests
<1>8. CASE OnCommandFinished
  <2>1. UNCHANGED <<timers, written>>
    BY <1>8 DEF OnCommandFinished
  <2>2. CASE ~Completes
    BY <2>1, <2>2, <1>8, <1>t DEF OnCommandFinished, Requests
  <2>3. CASE Completes
    <3>1. /\ active' = NoActive
          /\ answer' = [answer EXCEPT ![active.id] = IF @ = "pending" THEN "exit" ELSE @]
      BY <2>3, <1>8 DEF OnCommandFinished, Answer
    <3>2. active.id \in Exec
      BY <2>3, <1>t, <1>v, <1>n DEF Completes, Observing, Requests
    <3>3. "exit" \in Answers \ {"pending", "none"} /\ "exit" \notin BeforeSubmit
      BY DEF Answers, BeforeSubmit
    <3> QED
      BY <3>1, <3>2, <3>3, <2>1, <1>o
  <2> QED
    BY <2>2, <2>3
<1>9. ASSUME UNCHANGED <<active, answer, timers, written>>
      PROVE  Requests'
  BY <1>9, <1>t DEF Requests
<1>10. CASE FlushInput \/ Interrupt \/ Reintegrate \/ OnPromptStart
  BY <1>9, <1>10 DEF FlushInput, Interrupt, Reintegrate, OnPromptStart
<1>10a. ASSUME NEW n \in 1..MaxLines, SendInit(n) PROVE Requests'
  BY <1>9, <1>10a DEF SendInit
<1>11. CASE ShellReads \/ CommandEnds \/ ShellInterrupted
  BY <1>9, <1>11 DEF ShellReads, CommandEnds, ShellInterrupted, ShellSide
<1>12. CASE UNCHANGED execVars
  BY <1>9, <1>12 DEF execVars
<1> QED
  BY <1>1, <1>2, <1>3, <1>4, <1>5, <1>6, <1>7, <1>8, <1>10, <1>10a, <1>11, <1>12 DEF ExecNext

LEMMA ClosedKept ==
    ASSUME Typed, Requests, readiness = "Disconnected" => Closed, [ExecNext]_execVars
    PROVE  (readiness = "Disconnected" => Closed)'
<1> SUFFICES ASSUME readiness' = "Disconnected" PROVE Closed'
  OBVIOUS
<1>1. CASE Disconnect
  BY <1>1 DEF Disconnect, Closed
<1>2. CASE ~Disconnect
  <2>1. readiness = "Disconnected"
    <3>1. ASSUME NEW e \in Exec, NEW kind \in Kinds, NEW waits \in BOOLEAN, StartExec(e, kind, waits)
          PROVE  readiness = "Disconnected"
      BY <3>1 DEF StartExec, Submit
    <3>2. ASSUME NEW e \in Exec, CancelExec(e) PROVE readiness = "Disconnected"
      BY <3>2 DEF CancelExec, Withdraw
    <3>3. ASSUME NEW timer \in timers, ExecTimeout(timer[1], timer[2]) PROVE readiness = "Disconnected"
      <4>1. timer[2] \in Phases
        BY DEF Typed
      <4> QED
        BY <3>3, <4>1 DEF ExecTimeout, Phases
    <3>4. CASE OnInputStart
      BY <3>4 DEF OnInputStart, Submit
    <3>5. CASE OnPromptStart \/ OnCommandStart \/ OnCommandFinished
      BY <3>5 DEF OnPromptStart, OnCommandStart, OnCommandFinished
    <3>6. ASSUME NEW input \in Inputs, UserTypes(input) PROVE readiness = "Disconnected"
      BY <3>6 DEF UserTypes, Withdraw
    <3>6a. ASSUME NEW n \in 1..MaxLines, SendInit(n) PROVE readiness = "Disconnected"
      BY <3>6a DEF SendInit
    <3>7. CASE FlushInput \/ Interrupt \/ Reintegrate \/ ShellReads \/ CommandEnds
               \/ ShellInterrupted \/ UNCHANGED execVars
      BY <3>7 DEF FlushInput, Interrupt, Reintegrate, ShellReads, CommandEnds, ShellInterrupted, ShellSide, execVars
    <3> QED
      BY <1>2, <3>1, <3>2, <3>3, <3>4, <3>5, <3>6, <3>6a, <3>7 DEF ExecNext
  <2>2. Closed
    BY <2>1
  <2>3. ASSUME NEW e \in Exec, NEW kind \in Kinds, NEW waits \in BOOLEAN, StartExec(e, kind, waits)
        PROVE  Closed'
    BY <2>1, <2>2, <2>3 DEF StartExec, Closed
  <2>4. ASSUME NEW e \in Exec, CancelExec(e) PROVE FALSE
    BY <2>2, <2>4, ExecAssumption DEF CancelExec, Requests, Closed, NoActive
  <2>5. CASE UNCHANGED execVars
    BY <2>2, <2>5 DEF execVars, Closed
  <2> QED
    BY <1>2, <2>1, <2>2, <2>3, <2>4, <2>5 DEF ExecNext, Closed, UserTypes, SendInit, FlushInput,
       Interrupt, Reintegrate, OnPromptStart, OnInputStart, OnCommandStart, OnCommandFinished, TakesMark, ShellReads, CommandEnds,
       ShellInterrupted, ShellSide
<1> QED
  BY <1>1, <1>2

\* The bookkeeping of the supervisor holds in every reachable state.
THEOREM RequestsInvariant == ExecSpec => []RequestsInv
<1>1. ExecInit => RequestsInv
  BY RequestsStart
<1>2. RequestsInv /\ [ExecNext]_execVars => RequestsInv'
  <2> SUFFICES ASSUME RequestsInv, [ExecNext]_execVars PROVE RequestsInv'
    OBVIOUS
  <2>1. Typed /\ Requests /\ (readiness = "Disconnected" => Closed)
    BY TypedMeansTypeOK DEF RequestsInv
  <2>2. Typed' /\ Requests' /\ (readiness = "Disconnected" => Closed)'
    BY <2>1, TypesKept, RequestsKept, ClosedKept
  <2>3. Typed' <=> ExecTypeOK'
    BY TypedMeansTypeOK, PTL
  <2> QED
    BY <2>2, <2>3 DEF RequestsInv
<1> QED
  BY <1>1, <1>2, PTL DEF ExecSpec

\* Every variable stays among its values.
THEOREM ExecTypes == ExecSpec => []ExecTypeOK
<1>1. RequestsInv => ExecTypeOK
  BY DEF RequestsInv
<1> QED
  BY <1>1, RequestsInvariant, PTL

\* A request that failed before it was submitted was never written.
THEOREM FailuresMayBeRetried == ExecSpec => []FailedNeverWritten
<1>1. RequestsInv => FailedNeverWritten
  BY DEF RequestsInv, Requests, FailedNeverWritten
<1> QED
  BY <1>1, RequestsInvariant, PTL

\* Whoever waits for an answer has a timer that will bring one.
THEOREM NobodyWaitsForEver == ExecSpec => []PendingIsTimed
<1>1. RequestsInv => PendingIsTimed
  BY DEF RequestsInv, Requests, PendingIsTimed
<1> QED
  BY <1>1, RequestsInvariant, PTL

-----------------------------------------------------------------------------
\* Input that is all text, or all but one piece, when a piece comes or goes.
LEMMA TextsChange ==
    ASSUME NEW s \in Seq(Pieces), Texts(s)
    PROVE  /\ Texts(Append(s, "text"))
           /\ \A piece \in Pieces : piece # "text" => Sole(Append(s, piece), Len(s) + 1)
           /\ s # <<>> => Head(s) = "text" /\ Texts(Tail(s))
           /\ \A i \in 1..Len(s) : ~Sole(s, i)
<1>1. Texts(Append(s, "text"))
  BY DEF Texts
<1>2. ASSUME NEW piece \in Pieces, piece # "text"
      PROVE  Sole(Append(s, piece), Len(s) + 1)
  BY <1>2 DEF Texts, Sole
<1>3. s # <<>> => Head(s) = "text" /\ Texts(Tail(s))
  BY DEF Texts
<1>4. \A i \in 1..Len(s) : ~Sole(s, i)
  BY DEF Texts, Sole
<1> QED
  BY <1>1, <1>2, <1>3, <1>4

LEMMA SoleChange ==
    ASSUME NEW s \in Seq(Pieces), NEW i \in 1..Len(s), Sole(s, i)
    PROVE  /\ Sole(Append(s, "text"), i) /\ i \in 1..Len(Append(s, "text"))
           /\ Append(s, "text")[i] = s[i]
           /\ s # <<>>
           /\ i = 1 => Head(s) # "text" /\ Texts(Tail(s)) /\ (i = Len(s) => Tail(s) = <<>>)
           /\ i > 1 => /\ Head(s) = "text" /\ i - 1 \in 1..Len(Tail(s))
                       /\ Sole(Tail(s), i - 1) /\ Tail(s)[i - 1] = s[i]
           /\ Texts(SubSeq(s, i + 1, Len(s)))
           /\ i = Len(s) => SubSeq(s, i + 1, Len(s)) = <<>>
<1>0. Len(s) \in Nat /\ i \in Nat /\ 1 <= i /\ i <= Len(s) /\ s # <<>>
  OBVIOUS
<1>1. /\ Sole(Append(s, "text"), i) /\ i \in 1..Len(Append(s, "text"))
      /\ Append(s, "text")[i] = s[i]
  BY DEF Sole
<1>2. i = 1 => Head(s) # "text" /\ Texts(Tail(s))
  BY DEF Sole, Texts
<1>3. i = 1 /\ i = Len(s) => Tail(s) = <<>>
  <2>1. PICK t \in Seq(Pieces) : t = Tail(s) /\ Len(t) = Len(s) - 1
    BY <1>0, TailOf
  <2> QED
    BY <2>1, <1>0
<1>4. i > 1 => /\ Head(s) = "text" /\ i - 1 \in 1..Len(Tail(s))
               /\ Sole(Tail(s), i - 1) /\ Tail(s)[i - 1] = s[i]
  <2> SUFFICES ASSUME i > 1
               PROVE  /\ Head(s) = "text" /\ i - 1 \in 1..Len(Tail(s))
                      /\ Sole(Tail(s), i - 1) /\ Tail(s)[i - 1] = s[i]
    OBVIOUS
  <2>1. /\ Head(s) = s[1] /\ Tail(s) \in Seq(Pieces) /\ Len(Tail(s)) = Len(s) - 1
        /\ \A j \in 1..Len(Tail(s)) : Tail(s)[j] = s[j + 1]
    BY <1>0, TailOf
  <2>2. PICK t, n : t = Tail(s) /\ n = Len(s) - 1
    OBVIOUS
  <2>3. Len(t) = n /\ n \in Nat /\ \A j \in 1..n : t[j] = s[j + 1] /\ j + 1 \in 1..Len(s)
    BY <2>1, <2>2, <1>0
  <2>4. i - 1 \in 1..n /\ t[i - 1] = s[i] /\ Head(s) = "text"
    BY <2>1, <2>2, <2>3, <1>0 DEF Sole
  <2>5. \A j \in 1..n : j # i - 1 => t[j] = "text"
    BY <2>3, <1>0 DEF Sole
  <2> QED
    BY <2>2, <2>3, <2>4, <2>5 DEF Sole
<1>5. PICK rest \in Seq(Pieces) : rest = SubSeq(s, i + 1, Len(s))
  BY RestOf
<1>6. Len(rest) = Len(s) - i /\ \A j \in 1..(Len(s) - i) : rest[j] = s[i + j]
  BY <1>5, RestOf
<1>7. Texts(rest)
  BY <1>0, <1>6 DEF Texts, Sole
<1>8. i = Len(s) => rest = <<>>
  BY <1>0, <1>6
<1> QED
  BY <1>0, <1>1, <1>2, <1>3, <1>4, <1>5, <1>7, <1>8

\* Marks when the first is handled, a command starts or a prompt comes.
LEMMA MarksChange ==
    ASSUME NEW s \in Seq(Marks)
    PROVE  /\ Finishes(s) => /\ Unprompted(Append(s, "CommandStart"))
                             /\ Prompted(s \o Prompt, Len(s) + 2)
           /\ s # <<>> => /\ Finishes(s) => Head(s) = "CommandFinished" /\ Finishes(Tail(s))
                          /\ Unprompted(s) =>
                                /\ Unprompted(Tail(s)) /\ Head(s) \notin {"PromptStart", "InputStart"}
                                /\ Head(s) = "CommandStart" =>
                                      \A i \in 1..Len(Tail(s)) : Tail(s)[i] # "CommandFinished"
<1>1. ASSUME Finishes(s) PROVE Unprompted(Append(s, "CommandStart"))
  BY <1>1 DEF Finishes, Unprompted
<1>2. ASSUME Finishes(s) PROVE Prompted(s \o Prompt, Len(s) + 2)
  <2>1. PICK t, n : t = s \o Prompt /\ n = Len(s)
    OBVIOUS
  <2>2. /\ Len(t) = n + 2 /\ n \in Nat /\ \A i \in 1..n : t[i] = s[i]
        /\ t[n + 1] = "PromptStart" /\ t[n + 2] = "InputStart"
    BY <2>1, PromptSent
  <2>3. \A i \in 1..n : t[i] = "CommandFinished"
    BY <2>1, <2>2, <1>2 DEF Finishes
  <2> QED
    BY <2>1, <2>2, <2>3 DEF Prompted
<1>3. ASSUME s # <<>>
      PROVE  /\ Finishes(s) => Head(s) = "CommandFinished" /\ Finishes(Tail(s))
             /\ Unprompted(s) =>
                   /\ Unprompted(Tail(s)) /\ Head(s) \notin {"PromptStart", "InputStart"}
                   /\ Head(s) = "CommandStart" =>
                         \A i \in 1..Len(Tail(s)) : Tail(s)[i] # "CommandFinished"
  <2>1. /\ Head(s) = s[1] /\ Len(s) \in Nat /\ 1 \in 1..Len(s)
        /\ Len(Tail(s)) = Len(s) - 1
        /\ \A j \in 1..Len(Tail(s)) : Tail(s)[j] = s[j + 1]
    BY <1>3, TailOf
  <2>2. PICK t, n : t = Tail(s) /\ n = Len(s) - 1
    OBVIOUS
  <2>3. /\ Len(t) = n /\ n \in Nat
        /\ \A j \in 1..n : t[j] = s[j + 1] /\ j + 1 \in 1..Len(s) /\ 1 < j + 1
    BY <2>1, <2>2
  <2>4. Finishes(s) => Head(s) = "CommandFinished" /\ Finishes(t)
    BY <2>1, <2>3 DEF Finishes
  <2>5. Unprompted(s) => Unprompted(t) /\ Head(s) \notin {"PromptStart", "InputStart"}
    <3> SUFFICES ASSUME Unprompted(s)
                 PROVE  Unprompted(t) /\ Head(s) \notin {"PromptStart", "InputStart"}
      OBVIOUS
    <3>1. \A j \in 1..n : t[j] \notin {"PromptStart", "InputStart"}
      BY <2>3 DEF Unprompted
    <3>2. ASSUME NEW i \in 1..n, NEW j \in 1..n, i < j, t[i] = "CommandStart"
          PROVE  t[j] # "CommandFinished"
      <4>1. i + 1 < j + 1
        BY <3>2, <2>3
      <4> QED
        BY <4>1, <3>2, <2>3 DEF Unprompted
    <3> QED
      BY <3>1, <3>2, <2>1, <2>3 DEF Unprompted
  <2>6. Unprompted(s) /\ Head(s) = "CommandStart" => \A i \in 1..n : t[i] # "CommandFinished"
    BY <2>1, <2>3 DEF Unprompted
  <2> QED
    BY <2>2, <2>3, <2>4, <2>5, <2>6
<1> QED
  BY <1>1, <1>2, <1>3

LEMMA PromptedChange ==
    ASSUME NEW s \in Seq(Marks), NEW i \in 1..Len(s), Prompted(s, i)
    PROVE  /\ s # <<>>
           /\ i = 1 => Head(s) = "InputStart" /\ Finishes(Tail(s))
           /\ i > 1 => /\ Head(s) # "InputStart" /\ i - 1 \in 1..Len(Tail(s))
                       /\ Prompted(Tail(s), i - 1)
                       /\ i = 2 => Head(s) = "PromptStart"
<1>0. Len(s) \in Nat /\ i \in Nat /\ 1 <= i /\ i <= Len(s) /\ s # <<>>
  OBVIOUS
<1>1. /\ Head(s) = s[1] /\ Len(Tail(s)) = Len(s) - 1
      /\ \A j \in 1..Len(Tail(s)) : Tail(s)[j] = s[j + 1]
  BY <1>0, TailOf
<1>2. PICK t, n : t = Tail(s) /\ n = Len(s) - 1
  OBVIOUS
<1>3. Len(t) = n /\ n \in Nat /\ \A j \in 1..n : t[j] = s[j + 1] /\ j + 1 \in 1..Len(s) /\ j + 1 > 1
  BY <1>0, <1>1, <1>2
<1>4. i = 1 => Head(s) = "InputStart" /\ Finishes(t)
  BY <1>0, <1>1, <1>3 DEF Prompted, Finishes
<1>5. ASSUME i > 1
      PROVE  /\ Head(s) # "InputStart" /\ i - 1 \in 1..n
             /\ Prompted(t, i - 1)
             /\ i = 2 => Head(s) = "PromptStart"
  <2>1. 1 \in 1..Len(s) /\ 1 < i /\ i - 1 \in 1..n /\ i - 1 + 1 = i
    BY <1>0, <1>2, <1>3, <1>5
  <2>2. Head(s) # "InputStart" /\ (i = 2 => Head(s) = "PromptStart")
    BY <2>1, <1>1 DEF Prompted
  <2>3. t[i - 1] = "InputStart" /\ (i - 1 > 1 => t[i - 2] = "PromptStart")
    BY <2>1, <1>0, <1>3 DEF Prompted
  <2>4. /\ \A j \in 1..n : j < i - 1 => t[j] # "InputStart"
        /\ \A j \in 1..n : j > i - 1 => t[j] = "CommandFinished"
    <3>1. \A j \in 1..n : (j < i - 1 => j + 1 < i) /\ (j > i - 1 => j + 1 > i)
      BY <1>0, <1>3
    <3> QED
      BY <3>1, <1>3 DEF Prompted
  <2>5. i - 1 - 1 = i - 2
    BY <1>0
  <2> QED
    BY <2>1, <2>2, <2>3, <2>4, <2>5, <1>3 DEF Prompted
<1> QED
  BY <1>0, <1>2, <1>3, <1>4, <1>5

\* A command is over: its finish and a prompt follow what was sent before.
LEMMA PromptFollows ==
    ASSUME NEW s \in Seq(Marks), Unprompted(s), NEW t,
           t = s \o <<"CommandFinished">> \o Prompt \/ t = s \o Prompt \o <<"CommandFinished">>
    PROVE  \E i \in 1..Len(t) : Prompted(t, i) /\ i > 1
<1>1. PICK n : n = Len(s)
  OBVIOUS
<1>2. /\ Len(t) = n + 3 /\ n \in Nat
      /\ \A i \in 1..n : t[i] # "InputStart"
      /\ \/ t[n + 1] = "CommandFinished" /\ t[n + 2] = "PromptStart" /\ t[n + 3] = "InputStart"
         \/ t[n + 1] = "PromptStart" /\ t[n + 2] = "InputStart" /\ t[n + 3] = "CommandFinished"
  <2>1. /\ Len(t) = Len(s) + 3 /\ \A i \in 1..Len(s) : t[i] = s[i]
        /\ \/ t[Len(s) + 1] = "CommandFinished" /\ t[Len(s) + 2] = "PromptStart"
              /\ t[Len(s) + 3] = "InputStart"
           \/ t[Len(s) + 1] = "PromptStart" /\ t[Len(s) + 2] = "InputStart"
              /\ t[Len(s) + 3] = "CommandFinished"
    BY FinishAndPromptSent
  <2> QED
    BY <2>1, <1>1 DEF Unprompted
<1>3. CASE t[n + 1] = "CommandFinished" /\ t[n + 2] = "PromptStart" /\ t[n + 3] = "InputStart"
  <2>0. PICK i : i = n + 3
    OBVIOUS
  <2>1. i \in 1..Len(t) /\ i > 1 /\ i - 1 = n + 2 /\ t[i] = "InputStart" /\ t[i - 1] = "PromptStart"
    BY <2>0, <1>2, <1>3
  <2>2. \A j \in 1..Len(t) : j < i => t[j] # "InputStart"
    <3> SUFFICES ASSUME NEW j \in 1..Len(t), j < i PROVE t[j] # "InputStart"
      OBVIOUS
    <3>1. j \in 1..n \/ j = n + 1 \/ j = n + 2
      BY <2>0, <1>2
    <3> QED
      BY <3>1, <1>2, <1>3
  <2>3. \A j \in 1..Len(t) : ~(j > i)
    BY <2>0, <1>2
  <2> QED
    BY <2>1, <2>2, <2>3 DEF Prompted
<1>4. CASE t[n + 1] = "PromptStart" /\ t[n + 2] = "InputStart" /\ t[n + 3] = "CommandFinished"
  <2>0. PICK i : i = n + 2
    OBVIOUS
  <2>1. i \in 1..Len(t) /\ i > 1 /\ i - 1 = n + 1 /\ t[i] = "InputStart" /\ t[i - 1] = "PromptStart"
    BY <2>0, <1>2, <1>4
  <2>2. \A j \in 1..Len(t) : j < i => t[j] # "InputStart"
    <3> SUFFICES ASSUME NEW j \in 1..Len(t), j < i PROVE t[j] # "InputStart"
      OBVIOUS
    <3>1. j \in 1..n \/ j = n + 1
      BY <2>0, <1>2
    <3> QED
      BY <3>1, <1>2, <1>4
  <2>3. \A j \in 1..Len(t) : j > i => t[j] = "CommandFinished"
    <3> SUFFICES ASSUME NEW j \in 1..Len(t), j > i PROVE t[j] = "CommandFinished"
      OBVIOUS
    <3>1. j = n + 3
      BY <2>0, <1>2
    <3> QED
      BY <3>1, <1>4
  <2> QED
    BY <2>1, <2>2, <2>3 DEF Prompted
<1> QED
  BY <1>2, <1>3, <1>4

-----------------------------------------------------------------------------
\* What brings the prompt is at one place, and of an observed command that
\* did not run yet it is the command.
LEMMA OnePlace ==
    ASSUME Typed, Undisturbed
    PROVE  /\ InKept => ~InWire /\ ~InShell
           /\ InMarks => ~InWire /\ ~InShell
           /\ InShell => ~InWire
           /\ AtRest => ~InWire /\ ~InShell /\ ~InMarks /\ ~InKept
           /\ InKept \/ InMarks => ~(active.phase = "observing" /\ active.id \notin ended)
<1>1. InKept => ~InWire /\ ~InShell
  <2>1. \A i \in 1..Len(keptBack) : Sole(keptBack, i) => ~Texts(keptBack)
    BY DEF Sole, Texts
  <2> QED
    BY <2>1 DEF InKept, InWire, InShell
<1>2. InMarks => ~InWire /\ ~InShell
  BY DEF InMarks, InWire, InShell, Prompted, Finishes
<1>3. InShell => ~InWire
  BY DEF InShell, InWire
<1>4. AtRest => ~InWire /\ ~InShell /\ ~InMarks /\ ~InKept
  BY DEF AtRest, InWire, InShell, InMarks, InKept
<1> QED
  BY <1>1, <1>2, <1>3, <1>4 DEF Undisturbed, OwnMarks

\* A step that moves nothing between the terminal and the shell.
LEMMA PlaceKept ==
    ASSUME Typed, Undisturbed, UNCHANGED <<buffered, shell, wire, keptBack, marks, ended>>,
           readiness # "Ready", readiness' # "Ready",
           active'.phase = "observing" =>
               /\ active.phase = "observing" /\ active'.id = active.id
               /\ active'.started = active.started /\ readiness' = readiness
    PROVE  Undisturbed'
<1>1. InKept => InKept'
  BY DEF InKept
<1>2. InWire => InWire'
  BY DEF InWire
<1>3. InShell => InShell'
  BY DEF InShell
<1>4. InMarks => InMarks'
  BY DEF InMarks
<1>5. ~AtRest /\ (InKept \/ InWire \/ InShell \/ InMarks)
  BY DEF AtRest, Undisturbed
<1>6. OwnMarks'
  BY <1>2, <1>3 DEF OwnMarks, Undisturbed
<1>7. (~buffered => keptBack = <<>>)'
  BY DEF Undisturbed
<1> QED
  BY <1>1, <1>2, <1>3, <1>4, <1>5, <1>6, <1>7 DEF Undisturbed

\* A command is submitted when nothing is on its way to the shell and its
\* line holds no text: then the command is all that is.
LEMMA SubmitKeeps ==
    ASSUME Typed, Typed', NEW e \in Exec, NEW kind \in Kinds, NEW table, Submit(e, kind, table),
           ~multiline', UNCHANGED <<buffered, shell, keptBack, ended>>,
           ~buffered => keptBack = <<>> /\ wire = <<>> /\ ~shell.line,
           shell.runs = "nothing", Texts(wire), Texts(keptBack), Finishes(marks')
    PROVE  Undisturbed'
<1>1. PICK before, after : before = wire /\ after = wire'
  OBVIOUS
<1>2. before \in Seq(Pieces) /\ Texts(before)
  BY <1>1 DEF Typed
<1>3. CASE kind = "type"
  <2>1. after = Append(before, "text")
    BY <1>1, <1>3, SubmitWrites
  <2>2. Texts(after)
    BY <2>1, <1>2, TextsChange
  <2>3. readiness' = "Ready" /\ active' = NoActive /\ inputDirty'
    BY <1>3 DEF Submit
  <2>4. AtRest'
    BY <2>2, <2>3, <1>1 DEF AtRest
  <2> QED
    BY <2>3, <2>4 DEF Undisturbed, OwnMarks, NoActive
<1>4. CASE kind # "type"
  <2>1. after = Append(before, e) /\ e # "text" /\ e \in Pieces
    BY <1>1, <1>4, SubmitWrites, ExecAssumption DEF Pieces
  <2>2. PICK i : i = Len(before) + 1
    OBVIOUS
  <2>3. Sole(after, i)
    BY <2>1, <2>2, <1>2, TextsChange
  <2>4. i \in 1..Len(after) /\ i = Len(after) /\ after[i] = e /\ (before = <<>> => i = 1)
    BY <2>1, <2>2, <1>2
  <2>5. readiness' = "SubmissionPending"
    BY <1>4 DEF Submit
  <2>6. InWire'
    <3>1. ~buffered => i = Len(after) /\ (after[i] \in Exec => i = 1 /\ ~shell.line)
      BY <2>4, <1>1
    <3> QED
      BY <2>3, <2>4, <2>5, <3>1, <1>1 DEF InWire
  <2>7. active'.phase = "observing" => active'.id = e /\ active'.started = FALSE
    <3>1. active' = NoActive \/ active' = [NoActive EXCEPT !.id = e, !.phase = "observing"]
      BY DEF Submit
    <3>2. NoActive.phase = "none"
      BY DEF NoActive
    <3>3. [NoActive EXCEPT !.id = e, !.phase = "observing"].id = e
          /\ [NoActive EXCEPT !.id = e, !.phase = "observing"].started = FALSE
      BY DEF NoActive
    <3> QED
      BY <3>1, <3>2, <3>3
  <2>8. OwnMarks'
    BY <2>4, <2>6, <2>7, <1>1 DEF OwnMarks
  <2> QED
    BY <2>6, <2>8 DEF Undisturbed
<1> QED
  BY <1>3, <1>4

LEMMA StartKeeps ==
    ASSUME Typed, Typed', Undisturbed, NEW e \in Exec, NEW kind \in Kinds, NEW waits \in BOOLEAN,
           StartExec(e, kind, waits), ~multiline'
    PROVE  Undisturbed'
<1>1. UNCHANGED <<keptBack, marks, buffered, shell, ended>>
  BY DEF StartExec, Outside
<1>2. PICK pending : pending = [answer EXCEPT ![e] = "pending"]
  OBVIOUS
<1>3. CASE active' = active /\ UNCHANGED <<readiness, inputDirty, wire>>
  <2>1. CASE readiness = "Ready"
    <3>1. AtRest
      BY <2>1 DEF Undisturbed, InKept, InWire, InShell, InMarks
    <3>2. AtRest'
      BY <3>1, <1>1, <1>3 DEF AtRest
    <3>3. OwnMarks'
      BY <3>2 DEF AtRest, OwnMarks, NoActive
    <3> QED
      BY <3>2, <3>3, <1>1 DEF Undisturbed
  <2>2. CASE readiness # "Ready"
    BY <2>2, <1>1, <1>3, PlaceKept
  <2> QED
    BY <2>1, <2>2
<1>4. CASE readiness = "Ready" /\ ~inputDirty /\ Submit(e, kind, pending)
  <2>1. AtRest
    BY <1>4 DEF Undisturbed, InKept, InWire, InShell, InMarks
  <2>2. /\ ~buffered => keptBack = <<>> /\ wire = <<>> /\ ~shell.line
        /\ shell.runs = "nothing" /\ Texts(wire) /\ Texts(keptBack) /\ Finishes(marks')
    BY <2>1, <1>1, <1>4 DEF AtRest, Undisturbed
  <2> QED
    BY <2>2, <1>1, <1>4, SubmitKeeps
<1>5. CASE readiness = "Ready" /\ wire' = Append(wire, "ctrlC") /\ readiness' = "ClearingInput"
           /\ active' = [NoActive EXCEPT !.id = e, !.phase = "clearing", !.kind = kind]
  <2>1. AtRest
    BY <1>5 DEF Undisturbed, InKept, InWire, InShell, InMarks
  <2>2. PICK before, after, i : before \in Seq(Pieces) /\
          before = wire /\ after = wire' /\ i = Len(before) + 1
    BY DEF Typed
  <2>3. Sole(after, i)
    <3>1. "ctrlC" \in Pieces /\ Texts(before)
      BY <2>1, <2>2 DEF Pieces, AtRest
    <3> QED
      BY <3>1, <2>2, <1>5, TextsChange
  <2>4. i \in 1..Len(after) /\ i = Len(after) /\ after[i] = "ctrlC"
    BY <2>2, <1>5
  <2>5. InWire'
    BY <2>1, <2>2, <2>3, <2>4, <1>1, <1>5, ExecAssumption DEF AtRest, InWire
  <2>6. OwnMarks'
    BY <1>5 DEF OwnMarks, NoActive
  <2> QED
    BY <2>5, <2>6, <1>1 DEF Undisturbed
<1>6. CASE readiness # "Ready" /\ UNCHANGED <<readiness, wire>>
           /\ active' = [NoActive EXCEPT !.id = e, !.phase = "waiting", !.kind = kind]
  <2>1. active'.phase # "observing"
    BY <1>6 DEF NoActive
  <2> QED
    BY <2>1, <1>1, <1>6, PlaceKept
<1> QED
  BY <1>2, <1>3, <1>4, <1>5, <1>6 DEF StartExec

LEMMA CancelKeeps ==
    ASSUME Typed, Requests, Undisturbed, NEW e \in Exec, CancelExec(e)
    PROVE  Undisturbed'
<1>1. UNCHANGED <<buffered, shell, wire, keptBack, marks, ended>>
  BY DEF CancelExec, Outside
<1>2. active.id = e /\ active # NoActive
  <2>1. active.id = e
    BY DEF CancelExec, Requests
  <2>2. NoActive.id = NoExec
    BY DEF NoActive
  <2> QED
    BY <2>1, <2>2, ExecAssumption
<1>3. readiness # "Ready"
  BY <1>2 DEF Undisturbed, AtRest, InKept, InWire, InShell, InMarks
<1>4. CASE active.phase = "observing"
  <2>1. active' = [active EXCEPT !.detached = TRUE] /\ readiness' = readiness
    BY <1>2, <1>4 DEF CancelExec, Observing
  <2>2. active'.phase = "observing" /\ active'.id = active.id /\ active'.started = active.started
    BY <2>1, <1>4 DEF Typed, Actives
  <2> QED
    BY <2>1, <2>2, <1>1, <1>3, <1>4, PlaceKept
<1>5. CASE active.phase # "observing"
  <2>1. active' = NoActive /\ readiness' \in {readiness, "PromptRendering"}
    BY <1>2, <1>5 DEF CancelExec, Observing, Withdraw
  <2>2. active'.phase # "observing" /\ readiness' # "Ready"
    BY <2>1, <1>3 DEF NoActive
  <2> QED
    BY <2>2, <1>1, <1>3, PlaceKept
<1> QED
  BY <1>4, <1>5

LEMMA TimeoutKeeps ==
    ASSUME Typed, Undisturbed, NEW e \in Exec, NEW phase \in Phases, ExecTimeout(e, phase)
    PROVE  Undisturbed'
<1>1. UNCHANGED <<buffered, inputDirty, shell, wire, keptBack, marks, ended>>
  BY DEF ExecTimeout, Outside
<1>2. CASE TimerIsDue(e, phase)
  <2>1. active # NoActive /\ active.phase = phase
    BY <1>2, ExecAssumption DEF TimerIsDue, NoActive
  <2>2. readiness # "Ready"
    BY <2>1 DEF Undisturbed, AtRest, InKept, InWire, InShell, InMarks
  <2>3. CASE phase = "observing"
    <3>1. PICK late \in BOOLEAN : late = (active.timedOut \/ ~active.detached)
      OBVIOUS
    <3>2. active' = [active EXCEPT !.timedOut = late] /\ readiness' = readiness
      BY <3>1, <2>3, <1>2 DEF ExecTimeout
    <3>3. active'.phase = "observing" /\ active'.id = active.id /\ active'.started = active.started
      BY <3>2, <2>1, <2>3 DEF Typed, Actives
    <3> QED
      BY <3>2, <3>3, <2>1, <2>2, <2>3, <1>1, PlaceKept
  <2>4. CASE phase # "observing"
    <3>1. active' = NoActive /\ readiness' \in {readiness, "Unknown"}
      BY <2>4, <1>2 DEF ExecTimeout, Phases
    <3>2. active'.phase # "observing" /\ readiness' # "Ready"
      BY <3>1, <2>2 DEF NoActive
    <3> QED
      BY <3>2, <2>2, <1>1, PlaceKept
  <2> QED
    BY <2>3, <2>4
<1>3. CASE ~TimerIsDue(e, phase)
  <2>1. active' = active /\ readiness' = readiness
    BY <1>3 DEF ExecTimeout
  <2>2. CASE readiness = "Ready"
    <3>1. AtRest
      BY <2>2 DEF Undisturbed, InKept, InWire, InShell, InMarks
    <3>2. AtRest'
      BY <3>1, <2>1, <1>1 DEF AtRest
    <3>3. OwnMarks'
      BY <3>2 DEF AtRest, OwnMarks, NoActive
    <3> QED
      BY <3>2, <3>3, <1>1 DEF Undisturbed
  <2>3. CASE readiness # "Ready"
    BY <2>1, <2>3, <1>1, PlaceKept
  <2> QED
    BY <2>2, <2>3
<1> QED
  BY <1>2, <1>3

LEMMA TypingKeeps ==
    ASSUME Typed, Undisturbed, NEW input \in Inputs, UserTypes(input), ~disturbed', ~multiline'
    PROVE  Undisturbed'
<1>1. readiness = "Ready" /\ input # <<"ctrlC">> /\ ~(Len(input) > 1)
  BY DEF UserTypes
<1>2. AtRest
  BY <1>1 DEF Undisturbed, InKept, InWire, InShell, InMarks
<1>k. PICK key \in {"text", "enter"} : input[1] = key /\ Len(input) = 1 /\ input \in Seq(Pieces)
  <2>1. Len(input) <= 1
    BY <1>1, InputsAre
  <2> QED
    BY <2>1, <1>1, InputsAre
<1>h. HasNewline(input) <=> key = "enter"
  <2>1. DOMAIN input = {1}
    BY <1>k
  <2> QED
    BY <2>1, <1>k DEF HasNewline
<1>a. keptBack \o input = Append(keptBack, key) /\ wire \o input = Append(wire, key)
  <2>1. keptBack \in Seq(Pieces) /\ wire \in Seq(Pieces)
    BY DEF Typed
  <2> QED
    BY <2>1, <1>k, OneMore
<1>3. /\ active' = active /\ active = NoActive
      /\ readiness' = IF key = "enter" THEN "SubmissionPending" ELSE "Ready"
      /\ inputDirty' = (key # "enter")
      /\ keptBack' = IF buffered THEN Append(keptBack, key) ELSE keptBack
      /\ wire' = IF buffered THEN wire ELSE Append(wire, key)
      /\ UNCHANGED <<buffered, shell, marks>>
  BY <1>1, <1>2, <1>h, <1>a DEF UserTypes, AtRest, NoActive, LeavesText
<1>4. PICK kept \in Seq(Pieces), sent \in Seq(Pieces) : kept = keptBack /\ sent = wire
  BY DEF Typed
<1>5. Texts(kept) /\ Texts(sent)
  BY <1>2, <1>4 DEF AtRest
<1>6. (~buffered => keptBack = <<>>)'
  BY <1>3 DEF Undisturbed
<1>7. OwnMarks'
  BY <1>3 DEF OwnMarks, NoActive
<1>8. CASE key = "text"
  <2>1. Texts(Append(kept, "text")) /\ Texts(Append(sent, "text"))
    BY <1>5, TextsChange
  <2>2. Texts(keptBack') /\ Texts(wire')
    BY <2>1, <1>3, <1>4, <1>5, <1>8
  <2>3. AtRest'
    BY <2>2, <1>2, <1>3, <1>8 DEF AtRest
  <2> QED
    BY <2>3, <1>6, <1>7 DEF Undisturbed
<1>9. CASE key = "enter"
  <2>1. /\ Sole(Append(kept, "enter"), Len(kept) + 1) /\ Sole(Append(sent, "enter"), Len(sent) + 1)
    BY <1>5, TextsChange DEF Pieces
  <2>2. CASE buffered
    <3>1. PICK after, i : after = keptBack' /\ i = Len(kept) + 1
      OBVIOUS
    <3>2. Sole(after, i) /\ i \in 1..Len(after)
      BY <3>1, <2>1, <2>2, <1>3, <1>4, <1>9
    <3>3. InKept'
      BY <3>1, <3>2, <2>2, <1>2, <1>3, <1>9 DEF InKept, AtRest
    <3> QED
      BY <3>3, <1>6, <1>7 DEF Undisturbed
  <2>3. CASE ~buffered
    <3>1. PICK after, i : after = wire' /\ i = Len(sent) + 1
      OBVIOUS
    <3>2. Sole(after, i) /\ i \in 1..Len(after) /\ i = Len(after) /\ after[i] = "enter"
      BY <3>1, <2>1, <2>3, <1>3, <1>4, <1>9
    <3>3. InWire'
      BY <3>1, <3>2, <2>3, <1>2, <1>3, <1>9, ExecAssumption DEF InWire, AtRest
    <3> QED
      BY <3>3, <1>6, <1>7 DEF Undisturbed
  <2> QED
    BY <2>2, <2>3
<1> QED
  BY <1>8, <1>9

\* One line of initialization commands, sent at a prompt: it is what brings
\* the next one.
LEMMA InitKeeps ==
    ASSUME Typed, Undisturbed, NEW n \in 1..MaxLines, SendInit(n), ~disturbed', ~multiline'
    PROVE  Undisturbed'
<1>1. readiness = "Ready" /\ n = 1 /\ buffered
  <2>1. readiness = "Ready" /\ ~(n > 1) /\ buffered
    BY DEF SendInit
  <2>2. n \in Nat /\ n >= 1
    BY ExecAssumption
  <2> QED
    BY <2>1, <2>2
<1>2. AtRest
  BY <1>1 DEF Undisturbed, InKept, InWire, InShell, InMarks
<1>3. PICK sent \in Seq(Pieces) : sent = wire /\ Texts(sent)
  BY <1>2 DEF Typed, AtRest
<1>4. wire' = Append(sent, "enter")
  <2>1. Lines(1) \in Seq(Pieces) /\ Len(Lines(1)) = 1 /\ Lines(1)[1] = "enter"
    <3>1. 1 \in Nat /\ 1 \in 1..1
      OBVIOUS
    <3> QED
      BY <3>1, LinesAre
  <2>2. sent \o Lines(1) = Append(sent, Lines(1)[1])
    BY <2>1, OneMore
  <2> QED
    BY <2>1, <2>2, <1>1, <1>3 DEF SendInit
<1>5. PICK after, i : after = Append(sent, "enter") /\ i = Len(sent) + 1
  OBVIOUS
<1>6. Sole(after, i) /\ i \in 1..Len(after)
  <2>1. "enter" \in Pieces
    BY DEF Pieces
  <2> QED
    BY <2>1, <1>3, <1>5, TextsChange
<1>7. /\ readiness' = "SubmissionPending" /\ active' = NoActive
      /\ UNCHANGED <<buffered, shell, keptBack, marks>>
  BY <1>1, <1>2 DEF SendInit, AtRest
<1>8. InWire'
  BY <1>1, <1>2, <1>4, <1>5, <1>6, <1>7 DEF InWire, AtRest
<1>9. OwnMarks'
  BY <1>7 DEF OwnMarks, NoActive
<1> QED
  BY <1>7, <1>8, <1>9 DEF Undisturbed

LEMMA FlushKeeps ==
    ASSUME Typed, Requests, Undisturbed, FlushInput
    PROVE  Undisturbed'
<1>1. /\ keptBack # <<>> /\ buffered /\ buffered'
      /\ wire' = Append(wire, Head(keptBack)) /\ keptBack' = Tail(keptBack)
      /\ UNCHANGED <<readiness, active, marks, shell, ended, inputDirty>>
  BY DEF FlushInput, Outside, Undisturbed
<1>2. PICK kept \in Seq(Pieces), sent \in Seq(Pieces) : kept = keptBack /\ sent = wire /\ kept # <<>>
  BY <1>1 DEF Typed
<1>3. CASE Texts(kept)
  <2>1. Head(kept) = "text" /\ Texts(Tail(kept))
    BY <1>2, <1>3, TextsChange
  <2>2. wire' = Append(sent, "text") /\ Texts(keptBack')
    BY <2>1, <1>1, <1>2
  <2>3. Texts(sent) => Texts(wire')
    BY <2>2, TextsChange
  <2>4. AtRest => AtRest'
    BY <2>2, <2>3, <1>1, <1>2 DEF AtRest
  <2>5. InShell => InShell'
    BY <2>2, <2>3, <1>1, <1>2 DEF InShell
  <2>6. InMarks => InMarks'
    BY <2>2, <2>3, <1>1, <1>2 DEF InMarks
  <2>7. InWire => InWire'
    <3> SUFFICES ASSUME InWire PROVE InWire'
      OBVIOUS
    <3>1. PICK i \in 1..Len(sent) : Sole(sent, i)
      BY <1>2 DEF InWire
    <3>2. Sole(Append(sent, "text"), i) /\ i \in 1..Len(Append(sent, "text"))
      BY <3>1, SoleChange
    <3> QED
      BY <3>2, <2>2, <1>1, <1>2 DEF InWire
  <2>8. ~InKept
    <3>1. \A i \in 1..Len(kept) : ~Sole(kept, i)
      BY <1>3, TextsChange
    <3> QED
      BY <3>1, <1>2 DEF InKept
  <2>9. ASSUME NEW e \in Exec, \E i \in 1..Len(wire) : wire[i] = e
        PROVE  \E i \in 1..Len(wire') : wire'[i] = e
    <3>1. PICK i \in 1..Len(sent) : sent[i] = e
      BY <2>9, <1>2
    <3>2. i \in 1..Len(Append(sent, "text")) /\ Append(sent, "text")[i] = e
      BY <3>1
    <3> QED
      BY <3>2, <2>2
  <2>10. OwnMarks'
    <3> SUFFICES ASSUME active.phase = "observing", active.id \notin ended, ~OwnMarks' PROVE FALSE
      BY <1>1 DEF OwnMarks
    <3>1. CASE InShell
      BY <3>1, <2>5, <1>1, OnePlace DEF OwnMarks, Undisturbed
    <3>2. CASE InWire /\ ~active.started /\ \E i \in 1..Len(wire) : wire[i] = active.id
      <4>1. active.id \in Exec
        <5>1. active.id \in Exec \cup {NoExec} /\ NoActive.phase = "none"
          BY DEF Typed, Actives, NoActive
        <5> QED
          BY <5>1 DEF Requests
      <4> QED
        BY <3>2, <4>1, <2>7, <2>9, <1>1 DEF OwnMarks
    <3> QED
      BY <3>1, <3>2 DEF OwnMarks, Undisturbed
  <2> QED
    BY <2>4, <2>5, <2>6, <2>7, <2>8, <2>10, <1>1 DEF Undisturbed
<1>4. CASE ~Texts(kept)
  <2>1. InKept
    BY <1>2, <1>4 DEF Undisturbed, AtRest, InWire, InShell, InMarks
  <2>2. PICK i \in 1..Len(kept) : Sole(kept, i)
    BY <2>1, <1>2 DEF InKept
  <2>3. OwnMarks'
    BY <2>1, <1>1, OnePlace DEF OwnMarks
  <2>4. Texts(sent)
    BY <2>1, <1>2 DEF InKept
  <2>5. CASE i > 1
    <3>1. Head(kept) = "text" /\ i - 1 \in 1..Len(Tail(kept)) /\ Sole(Tail(kept), i - 1)
      BY <2>2, <2>5, SoleChange
    <3>2. Texts(wire')
      BY <3>1, <2>4, <1>1, <1>2, TextsChange
    <3>3. InKept'
      <4>1. \E j \in 1..Len(keptBack') : Sole(keptBack', j)
        BY <3>1, <1>1, <1>2
      <4> QED
        BY <4>1, <3>2, <2>1, <1>1 DEF InKept
    <3> QED
      BY <3>3, <2>3, <1>1 DEF Undisturbed
  <2>6. CASE i = 1
    <3>1. Head(kept) # "text" /\ Texts(Tail(kept)) /\ Head(kept) \in Pieces
      <4>1. Head(kept) \in Pieces
        BY <1>2, TailOf
      <4> QED
        BY <4>1, <2>2, <2>6, SoleChange
    <3>2. PICK after, j : after = wire' /\ j = Len(sent) + 1
      OBVIOUS
    <3>3. Sole(after, j) /\ j \in 1..Len(after)
      <4>1. Sole(Append(sent, Head(kept)), Len(sent) + 1)
        BY <3>1, <2>4, TextsChange
      <4> QED
        BY <4>1, <3>2, <1>1, <1>2
    <3>4. InWire'
      BY <3>1, <3>2, <3>3, <2>1, <1>1, <1>2 DEF InWire, InKept
    <3> QED
      BY <3>4, <2>3, <1>1 DEF Undisturbed
  <2> QED
    BY <2>2, <2>5, <2>6
<1> QED
  BY <1>3, <1>4

LEMMA PromptStartKeeps ==
    ASSUME Typed, Undisturbed, OnPromptStart
    PROVE  Undisturbed'
<1>1. /\ marks # <<>> /\ Head(marks) = "PromptStart" /\ marks' = Tail(marks)
      /\ UNCHANGED <<keptBack, buffered, shell, ended, wire, active, inputDirty>>
      /\ readiness' = IF active.phase = "clearing" THEN readiness ELSE "PromptRendering"
  BY DEF OnPromptStart, TakesMark, Outside
<1>2. PICK sent \in Seq(Marks) : sent = marks /\ sent # <<>>
  BY <1>1 DEF Typed
<1>3. ~Finishes(sent) /\ ~Unprompted(sent)
  BY <1>1, <1>2, MarksChange
<1>4. InMarks
  BY <1>2, <1>3 DEF Undisturbed, AtRest, InKept, InWire, InShell
<1>5. PICK i \in 1..Len(sent) : Prompted(sent, i)
  BY <1>2, <1>4 DEF InMarks
<1>6. i > 1 /\ i - 1 \in 1..Len(Tail(sent)) /\ Prompted(Tail(sent), i - 1)
  <2>1. i # 1
    BY <1>1, <1>2, <1>5, PromptedChange
  <2>2. i > 1
    BY <2>1
  <2> QED
    BY <2>2, <1>5, PromptedChange
<1>7. readiness' # "Ready"
  BY <1>1, <1>4 DEF InMarks
<1>8. InMarks'
  <2>1. active'.phase = "observing" => readiness' = "PromptRendering"
    BY <1>1
  <2> QED
    BY <2>1, <1>1, <1>2, <1>4, <1>6, <1>7 DEF InMarks
<1>9. OwnMarks'
  BY <1>1, <1>4, OnePlace DEF OwnMarks
<1> QED
  BY <1>1, <1>8, <1>9 DEF Undisturbed

LEMMA InputStartKeeps ==
    ASSUME Typed, Typed', Requests, Undisturbed, OnInputStart, ~multiline'
    PROVE  Undisturbed'
<1>1. /\ marks # <<>> /\ Head(marks) = "InputStart" /\ marks' = Tail(marks)
      /\ UNCHANGED <<keptBack, buffered, shell, ended>>
  BY DEF OnInputStart, TakesMark, Outside
<1>2. PICK sent \in Seq(Marks) : sent = marks /\ sent # <<>>
  BY <1>1 DEF Typed
<1>3. ~Finishes(sent) /\ ~Unprompted(sent)
  BY <1>1, <1>2, MarksChange
<1>4. InMarks
  BY <1>2, <1>3 DEF Undisturbed, AtRest, InKept, InWire, InShell
<1>5. PICK i \in 1..Len(sent) :
        /\ Prompted(sent, i)
        /\ i = 1 /\ active.phase = "observing" => active.started \/ readiness = "PromptRendering"
  BY <1>2, <1>4 DEF InMarks
<1>6. i = 1 /\ Finishes(marks')
  <2>1. ~(i > 1)
    BY <1>1, <1>2, <1>5, PromptedChange
  <2>2. i = 1
    BY <2>1
  <2> QED
    BY <2>2, <1>1, <1>2, <1>5, PromptedChange
<1>7. /\ ~buffered => keptBack = <<>> /\ wire = <<>> /\ ~shell.line
      /\ shell.runs = "nothing" /\ Texts(wire) /\ Texts(keptBack)
  BY <1>4 DEF InMarks, Undisturbed
<1>8. CASE active.phase \in {"waiting", "clearing"}
  <2>1. PICK e \in Exec, kind \in Kinds : e = active.id /\ kind = active.kind
    BY <1>8, OtherTypes DEF Requests, NoActive
  <2>2. Submit(e, kind, answer)
    BY <2>1, <1>8 DEF OnInputStart
  <2> QED
    BY <2>2, <1>1, <1>6, <1>7, SubmitKeeps
<1>9. CASE active.phase \notin {"waiting", "clearing"}
  <2>1. readiness' = "Ready" /\ wire' = wire
    BY <1>9 DEF OnInputStart
  <2>2. active' = NoActive
    <3>1. CASE active.phase = "observing"
      BY <3>1, <1>5, <1>6, <1>9 DEF OnInputStart, Observing
    <3>2. CASE active.phase # "observing"
      <4>1. active = NoActive
        BY <3>2, <1>9, OtherTypes DEF Requests, Phases
      <4>2. ~Observing
        BY <3>2 DEF Observing
      <4> QED
        BY <4>1, <4>2, <1>9 DEF OnInputStart
    <3> QED
      BY <3>1, <3>2
  <2>3. AtRest'
    BY <2>1, <2>2, <1>1, <1>6, <1>7 DEF AtRest
  <2>4. OwnMarks'
    BY <2>2 DEF OwnMarks, NoActive
  <2> QED
    BY <2>3, <2>4, <1>1, <1>7 DEF Undisturbed
<1> QED
  BY <1>8, <1>9

LEMMA CommandStartKeeps ==
    ASSUME Typed, Undisturbed, OnCommandStart
    PROVE  Undisturbed'
<1>1. /\ marks # <<>> /\ Head(marks) = "CommandStart" /\ marks' = Tail(marks)
      /\ UNCHANGED <<keptBack, buffered, shell, ended, wire, inputDirty>>
      /\ readiness' \in {readiness, "CommandRunning"}
      /\ active' = [active EXCEPT !.started = Observing]
  BY DEF OnCommandStart, TakesMark, Outside
<1>2. active'.phase = active.phase /\ active'.id = active.id /\ active'.started = Observing
  BY <1>1 DEF Typed, Actives
<1>3. PICK sent \in Seq(Marks) : sent = marks /\ sent # <<>>
  BY <1>1 DEF Typed
<1>4. ~Finishes(sent)
  BY <1>1, <1>3, MarksChange
<1>5. InShell \/ InMarks
  BY <1>3, <1>4 DEF Undisturbed, AtRest, InKept, InWire
<1>6. readiness' # "Ready"
  BY <1>1, <1>5 DEF InShell, InMarks
<1>7. CASE InShell
  <2>1. Unprompted(sent)
    BY <1>3, <1>7 DEF InShell
  <2>2. Unprompted(Tail(sent)) /\ \A i \in 1..Len(Tail(sent)) : Tail(sent)[i] # "CommandFinished"
    BY <2>1, <1>1, <1>3, MarksChange
  <2>3. InShell'
    BY <2>2, <1>1, <1>3, <1>6, <1>7 DEF InShell
  <2>4. OwnMarks'
    BY <2>2, <2>3, <1>1, <1>2, <1>3, <1>7, OnePlace DEF OwnMarks, Undisturbed
  <2> QED
    BY <2>3, <2>4, <1>1 DEF Undisturbed
<1>8. CASE InMarks
  <2>1. PICK i \in 1..Len(sent) : Prompted(sent, i)
    BY <1>3, <1>8 DEF InMarks
  <2>2. i # 1 /\ i # 2
    <3>1. i = 2 => i > 1
      OBVIOUS
    <3> QED
      BY <3>1, <2>1, <1>1, <1>3, PromptedChange
  <2>3. i > 1 /\ i - 1 # 1
    BY <2>2
  <2>4. i - 1 \in 1..Len(Tail(sent)) /\ Prompted(Tail(sent), i - 1)
    BY <2>1, <2>3, PromptedChange
  <2>5. InMarks'
    BY <2>3, <2>4, <1>1, <1>3, <1>6, <1>8 DEF InMarks
  <2>6. OwnMarks'
    BY <1>1, <1>2, <1>8, OnePlace DEF OwnMarks
  <2> QED
    BY <2>5, <2>6, <1>1 DEF Undisturbed
<1> QED
  BY <1>5, <1>7, <1>8

LEMMA CommandFinishedKeeps ==
    ASSUME Typed, Undisturbed, OnCommandFinished
    PROVE  Undisturbed' /\ (Completes => active.id \in ended)
<1>1. /\ marks # <<>> /\ Head(marks) = "CommandFinished" /\ marks' = Tail(marks)
      /\ UNCHANGED <<keptBack, buffered, shell, ended, wire, inputDirty>>
      /\ readiness' \in {readiness, "AwaitingPrompt"}
      /\ IF Completes THEN active' = NoActive ELSE active' = active
  BY DEF OnCommandFinished, TakesMark, Outside
<1>2. PICK sent \in Seq(Marks) : sent = marks /\ sent # <<>>
  BY <1>1 DEF Typed
<1>3. /\ Finishes(sent) => Finishes(Tail(sent))
      /\ Unprompted(sent) => Unprompted(Tail(sent))
  BY <1>2, MarksChange
<1>4. Completes => active.id \in ended
  <2> SUFFICES ASSUME Completes, active.id \notin ended PROVE FALSE
    OBVIOUS
  <2>1. active.phase = "observing" /\ active.started
    BY DEF Completes, Observing
  <2>2. \A i \in 1..Len(marks) : marks[i] # "CommandFinished"
    BY <2>1 DEF Undisturbed, OwnMarks
  <2>3. sent[1] = "CommandFinished" /\ 1 \in 1..Len(sent)
    BY <1>1, <1>2, TailOf
  <2> QED
    BY <2>2, <2>3, <1>2
<1>5. AtRest => AtRest'
  <2> SUFFICES ASSUME AtRest PROVE AtRest'
    OBVIOUS
  <2>1. active' = NoActive /\ ~Observing
    BY <1>1 DEF AtRest, NoActive, Observing
  <2>2. readiness' = readiness
    BY <2>1 DEF AtRest, OnCommandFinished, Completes
  <2> QED
    BY <2>1, <2>2, <1>1, <1>2, <1>3 DEF AtRest
<1>6. AtRest \/ readiness' # "Ready"
  BY <1>1 DEF Undisturbed, AtRest, InKept, InWire, InShell, InMarks
<1>7. InKept => InKept'
  BY <1>1, <1>2, <1>3 DEF InKept
<1>8. InWire => InWire'
  BY <1>1, <1>2, <1>3 DEF InWire
<1>9. InShell => InShell'
  BY <1>1, <1>2, <1>3 DEF InShell
<1>10. InMarks => InMarks'
  <2> SUFFICES ASSUME InMarks PROVE InMarks'
    OBVIOUS
  <2>1. PICK i \in 1..Len(sent) : Prompted(sent, i)
    BY <1>2 DEF InMarks
  <2>2. i # 1 /\ i # 2
    <3>1. i = 2 => i > 1
      OBVIOUS
    <3> QED
      BY <3>1, <2>1, <1>1, <1>2, PromptedChange
  <2>3. i > 1 /\ i - 1 # 1
    BY <2>2
  <2>4. i - 1 \in 1..Len(Tail(sent)) /\ Prompted(Tail(sent), i - 1)
    BY <2>1, <2>3, PromptedChange
  <2>5. readiness' # "Ready"
    BY <1>1 DEF InMarks
  <2> QED
    BY <2>3, <2>4, <2>5, <1>1, <1>2 DEF InMarks
<1>11. OwnMarks'
  <2>1. CASE Completes
    BY <2>1, <1>1 DEF OwnMarks, NoActive
  <2>2. CASE ~Completes
    <3>1. active' = active /\ (active.phase = "observing" => ~active.started)
      BY <2>2, <1>1 DEF Completes, Observing
    <3> QED
      BY <3>1, <1>1, <1>8, <1>9 DEF OwnMarks, Undisturbed
  <2> QED
    BY <2>1, <2>2
<1> QED
  BY <1>1, <1>4, <1>5, <1>7, <1>8, <1>9, <1>10, <1>11 DEF Undisturbed

LEMMA ReadKeeps ==
    ASSUME Typed, Requests, Undisturbed, ShellReads
    PROVE  Undisturbed' /\ (~buffered => appended' = appended)
<1>1. /\ shell.runs = "nothing" /\ wire # <<>> /\ wire' = Tail(wire)
      /\ UNCHANGED <<buffered, readiness, active, keptBack, ended, inputDirty>>
  BY DEF ShellReads, ShellSide
<1>2. PICK input \in Seq(Pieces) : input = wire /\ input # <<>> /\ Head(input) # "ctrlC"
  BY <1>1 DEF Typed, ShellReads
<1>3. PICK piece \in Pieces : piece = Head(input) /\ piece # "ctrlC"
  BY <1>2, TailOf
<1>4. PICK sent \in Seq(Marks) : sent = marks
  BY DEF Typed
<1>5. ~InShell
  BY <1>1 DEF InShell
\* Of an observed command that did not run yet only InWire can be said.
<1>6. ASSUME active.phase = "observing", active.id \notin ended
      PROVE  InWire /\ ~active.started /\ \E i \in 1..Len(input) : input[i] = active.id
  BY <1>2, <1>5, <1>6 DEF Undisturbed, OwnMarks
<1>id. active.phase = "observing" => active.id \in Exec /\ active.id # "text"
  <2>1. active.id \in Exec \cup {NoExec} /\ NoActive.phase = "none"
    BY DEF Typed, Actives, NoActive
  <2>2. active.phase = "observing" => active.id \in Exec
    BY <2>1 DEF Requests
  <2> QED
    BY <2>2, ExecAssumption
<1>7. CASE /\ piece = "text" /\ marks' = marks /\ appended' = appended
           /\ shell' = [shell EXCEPT !.line = TRUE]
  <2>1. marks' = marks /\ appended' = appended /\ shell' = [shell EXCEPT !.line = TRUE]
    BY <1>7
  <2>2. shell'.runs = "nothing"
    BY <2>1, <1>1 DEF Typed, Shells
  <2>3. Texts(input) => Texts(wire')
    BY <1>1, <1>2, TextsChange
  <2>4. AtRest => AtRest'
    BY <2>1, <2>2, <2>3, <1>1, <1>2 DEF AtRest
  <2>5. InKept => InKept'
    BY <2>1, <2>2, <2>3, <1>1, <1>2 DEF InKept
  <2>6. InMarks => InMarks'
    BY <2>1, <2>2, <2>3, <1>1, <1>2 DEF InMarks
  <2>7. ASSUME InWire PROVE InWire'
    <3>1. PICK i \in 1..Len(input) :
            /\ Sole(input, i)
            /\ ~buffered => i = Len(input) /\ (input[i] \in Exec => i = 1 /\ ~shell.line)
      BY <2>7, <1>2 DEF InWire
    <3>2. i # 1
      BY <3>1, <1>3, <1>7, SoleChange
    <3>3. i > 1
      BY <3>2
    <3>4. i - 1 \in 1..Len(Tail(input)) /\ Sole(Tail(input), i - 1) /\ Tail(input)[i - 1] = input[i]
      BY <3>1, <3>3, SoleChange
    <3>5. i = Len(input) => i - 1 = Len(Tail(input))
      BY <3>3, <1>2, TailOf
    <3>6. PICK k, rest : k = i - 1 /\ rest = Tail(input)
      OBVIOUS
    <3>7. /\ k \in 1..Len(rest) /\ Sole(rest, k)
          /\ ~buffered => k = Len(rest) /\ rest[k] \notin Exec
      BY <3>1, <3>2, <3>4, <3>5, <3>6
    <3> QED
      BY <3>6, <3>7, <2>1, <2>2, <2>7, <1>1, <1>2 DEF InWire
  <2>8. OwnMarks'
    <3> SUFFICES ASSUME active.phase = "observing", active.id \notin ended, ~OwnMarks' PROVE FALSE
      BY <1>1 DEF OwnMarks
    <3>1. InWire /\ ~active.started
      BY <1>6
    <3>2. PICK i \in 1..Len(input) : input[i] = active.id
      BY <1>6
    <3>3. CASE i = 1
      <4>1. active.id = "text"
        BY <3>2, <3>3, <1>2, <1>3, <1>7, TailOf
      <4> QED
        BY <4>1, <1>id
    <3>4. CASE i # 1
      <4>1. i - 1 \in 1..Len(Tail(input)) /\ Tail(input)[i - 1] = active.id
        <5>1. /\ Len(Tail(input)) = Len(input) - 1 /\ Len(input) \in Nat
              /\ \A j \in 1..Len(Tail(input)) : Tail(input)[j] = input[j + 1]
          BY <1>2, TailOf
        <5> QED
          BY <5>1, <3>2, <3>4
      <4> QED
        BY <4>1, <3>1, <2>7, <1>1, <1>2 DEF OwnMarks
    <3> QED
      BY <3>3, <3>4
  <2> QED
    BY <2>1, <2>4, <2>5, <2>6, <2>7, <2>8, <1>1, <1>5 DEF Undisturbed
\* Anything else is the one piece that is not text.
<1>8. ASSUME piece # "text"
      PROVE  /\ InWire /\ Sole(input, 1) /\ Texts(wire') /\ Texts(keptBack') /\ Finishes(sent)
             /\ ~buffered => wire' = <<>> /\ (piece \in Exec => ~shell.line)
             /\ readiness' # "Ready"
  <2>1. ~Texts(input)
    BY <1>2, <1>3, <1>8, TextsChange
  <2>2. InWire
    BY <2>1, <1>2, <1>5 DEF Undisturbed, AtRest, InKept, InMarks
  <2>3. PICK i \in 1..Len(input) :
          /\ Sole(input, i)
          /\ ~buffered => i = Len(input) /\ (input[i] \in Exec => i = 1 /\ ~shell.line)
    BY <2>2, <1>2 DEF InWire
  <2>4. ~(i > 1)
    BY <2>3, <1>3, <1>8, SoleChange
  <2>5. i = 1
    BY <2>4
  <2>6. Texts(Tail(input)) /\ (i = Len(input) => Tail(input) = <<>>)
    BY <2>3, <2>5, SoleChange
  <2>7. piece = input[1]
    BY <1>2, <1>3, TailOf
  <2> QED
    BY <2>2, <2>3, <2>5, <2>6, <2>7, <1>1, <1>2, <1>4 DEF InWire
<1>9. ASSUME piece # "text", active.phase = "observing", active.id \notin ended
      PROVE  ~active.started /\ active.id = piece
  <2>1. PICK i \in 1..Len(input) : input[i] = active.id
    BY <1>6, <1>9
  <2>2. i # 1 => input[i] = "text"
    BY <1>8, <1>9 DEF Sole
  <2>3. input[1] = piece
    BY <1>2, <1>3, TailOf
  <2> QED
    BY <2>1, <2>2, <2>3, <1>6, <1>9, <1>id
<1>10. CASE /\ piece = "enter" /\ shell' = [shell EXCEPT !.line = FALSE]
            /\ marks' = marks \o Prompt /\ appended' = appended
  <2>1. /\ marks' = sent \o Prompt /\ appended' = appended
        /\ shell'.runs = "nothing" /\ shell'.line = FALSE
    BY <1>1, <1>4, <1>10 DEF Typed, Shells
  <2>2. PICK after, i : after = sent \o Prompt /\ i = Len(sent) + 2
    OBVIOUS
  <2>3. Prompted(after, i) /\ i \in 1..Len(after) /\ i # 1
    <3>1. Prompted(sent \o Prompt, Len(sent) + 2)
      BY <1>8, <1>10, MarksChange
    <3>2. Len(sent \o Prompt) = Len(sent) + 2 /\ Len(sent) \in Nat
      BY PromptSent
    <3> QED
      BY <3>1, <3>2, <2>2
  <2>4. InMarks'
    BY <2>1, <2>2, <2>3, <1>1, <1>8, <1>10 DEF InMarks
  <2>5. ~(active.phase = "observing" /\ active.id \notin ended)
    BY <1>9, <1>10, <1>id, ExecAssumption
  <2>6. OwnMarks'
    BY <2>5, <1>1 DEF OwnMarks
  <2> QED
    BY <2>1, <2>4, <2>6, <1>1 DEF Undisturbed
<1>11. CASE /\ piece # "text"
            /\ shell' = [runs |-> IF piece = "enter" THEN "user" ELSE piece, line |-> FALSE]
            /\ marks' = Append(marks, "CommandStart")
            /\ appended' = (appended \/ (piece \in Exec /\ shell.line))
  <2>1. /\ shell' = [runs |-> IF piece = "enter" THEN "user" ELSE piece, line |-> FALSE]
        /\ marks' = Append(sent, "CommandStart")
        /\ appended' = (appended \/ (piece \in Exec /\ shell.line))
    BY <1>4, <1>11
  <2>2. shell'.runs # "nothing" /\ shell'.line = FALSE /\ (piece \in Exec => shell'.runs = piece)
    BY <2>1, <1>3, <1>11, ExecAssumption DEF Pieces
  <2>3. Unprompted(marks')
    BY <2>1, <1>8, <1>11, MarksChange
  <2>4. InShell'
    BY <2>2, <2>3, <1>1, <1>8, <1>11 DEF InShell
  <2>5. OwnMarks'
    BY <2>2, <2>4, <1>1, <1>9, <1>11, <1>id DEF OwnMarks
  <2>6. ~buffered => appended' = appended
    <3>1. appended \in BOOLEAN
      BY DEF Typed
    <3> QED
      BY <3>1, <2>1, <1>8, <1>11
  <2> QED
    BY <2>4, <2>5, <2>6, <1>1 DEF Undisturbed
<1> QED
  BY <1>2, <1>3, <1>7, <1>10, <1>11 DEF ShellReads

LEMMA EndKeeps ==
    ASSUME Typed, Requests, Undisturbed, CommandEnds
    PROVE  Undisturbed'
<1>1. /\ shell.runs # "nothing" /\ CommandIsOver /\ shell' = [shell EXCEPT !.runs = "nothing"]
      /\ UNCHANGED <<buffered, readiness, active, keptBack, inputDirty, wire>>
  BY DEF CommandEnds, ShellSide
<1>2. InShell
  BY <1>1 DEF Undisturbed, AtRest, InKept, InWire, InMarks
<1>3. PICK sent, after : sent \in Seq(Marks) /\ sent = marks /\ after = marks'
  BY DEF Typed
<1>4. Unprompted(sent)
  BY <1>2, <1>3 DEF InShell
<1>5. \/ after = sent \o <<"CommandFinished">> \o Prompt
      \/ after = sent \o Prompt \o <<"CommandFinished">>
  BY <1>1, <1>3 DEF CommandIsOver
<1>6. PICK i \in 1..Len(after) : Prompted(after, i) /\ i > 1
  BY <1>3, <1>4, <1>5, PromptFollows
<1>7. i # 1
  BY <1>6
<1>8. shell'.runs = "nothing" /\ shell'.line = shell.line
  BY <1>1 DEF Typed, Shells
<1>9. InMarks'
  BY <1>1, <1>2, <1>3, <1>6, <1>7, <1>8 DEF InMarks, InShell
<1>10. active.phase = "observing" => active.id \in ended'
  <2> SUFFICES ASSUME active.phase = "observing", active.id \notin ended'
               PROVE  FALSE
    OBVIOUS
  <2>1. ended \subseteq ended' /\ (shell.runs \in Exec => shell.runs \in ended')
    BY <1>1 DEF CommandIsOver
  <2>2. shell.runs = active.id
    BY <2>1, <1>2, OnePlace DEF Undisturbed, OwnMarks
  <2>3. active.id \in Exec
    <3>1. active.id \in Exec \cup {NoExec} /\ NoActive.phase = "none"
      BY DEF Typed, Actives, NoActive
    <3> QED
      BY <3>1 DEF Requests
  <2> QED
    BY <2>1, <2>2, <2>3
<1>11. OwnMarks'
  BY <1>1, <1>10 DEF OwnMarks
<1> QED
  BY <1>1, <1>9, <1>11 DEF Undisturbed

LEMMA InterruptedKeeps ==
    ASSUME Typed, Requests, Undisturbed, ShellInterrupted
    PROVE  Undisturbed'
<1>1. /\ shell' = [runs |-> "nothing", line |-> FALSE]
      /\ UNCHANGED <<buffered, readiness, active, keptBack, inputDirty>>
      /\ \E i \in DOMAIN wire : wire[i] = "ctrlC" /\ wire' = SubSeq(wire, i + 1, Len(wire))
  BY DEF ShellInterrupted, ShellSide
<1>2. PICK input \in Seq(Pieces), sent \in Seq(Marks) : input = wire /\ sent = marks
  BY DEF Typed
<1>3. PICK i \in 1..Len(input) : input[i] = "ctrlC" /\ wire' = SubSeq(input, i + 1, Len(input))
  <2>1. DOMAIN input = 1..Len(input)
    OBVIOUS
  <2> QED
    BY <2>1, <1>1, <1>2
<1>4. InWire
  <2>1. ~Texts(input)
    BY <1>3 DEF Texts
  <2> QED
    BY <2>1, <1>2 DEF Undisturbed, AtRest, InKept, InShell, InMarks
<1>5. Sole(input, i) /\ (~buffered => i = Len(input))
  BY <1>2, <1>3, <1>4 DEF InWire, Sole
<1>6. Texts(wire') /\ (~buffered => wire' = <<>>)
  BY <1>3, <1>5, SoleChange
<1>7. marks' = sent \o Prompt /\ ended' = ended
  BY <1>2, <1>4 DEF ShellInterrupted, InWire
<1>8. Finishes(sent)
  BY <1>2, <1>4 DEF InWire
<1>9. PICK after, j : after = sent \o Prompt /\ j = Len(sent) + 2
  OBVIOUS
<1>10. Prompted(after, j) /\ j \in 1..Len(after) /\ j # 1
  <2>1. Prompted(sent \o Prompt, Len(sent) + 2)
    BY <1>8, MarksChange
  <2>2. Len(sent \o Prompt) = Len(sent) + 2 /\ Len(sent) \in Nat
    BY PromptSent
  <2> QED
    BY <2>1, <2>2, <1>9
<1>11. InMarks'
  BY <1>1, <1>4, <1>6, <1>7, <1>9, <1>10 DEF InMarks, InWire
<1>12. ~(active.phase = "observing" /\ active.id \notin ended)
  <2> SUFFICES ASSUME active.phase = "observing", active.id \notin ended PROVE FALSE
    OBVIOUS
  <2>1. active.id \in Exec
    <3>1. active.id \in Exec \cup {NoExec} /\ NoActive.phase = "none"
      BY DEF Typed, Actives, NoActive
    <3> QED
      BY <3>1 DEF Requests
  <2>2. ~InShell
    BY <1>4 DEF InShell, InWire
  <2>3. PICK k \in 1..Len(input) : input[k] = active.id
    BY <2>2, <1>2 DEF Undisturbed, OwnMarks
  <2>4. input[k] \in {"text", "ctrlC"}
    BY <1>3, <1>5 DEF Sole
  <2> QED
    BY <2>1, <2>3, <2>4, ExecAssumption
<1>13. OwnMarks'
  BY <1>1, <1>7, <1>12 DEF OwnMarks
<1> QED
  BY <1>1, <1>11, <1>13 DEF Undisturbed

-----------------------------------------------------------------------------
LEMMA ExecStart == ExecInit => ExecInv
<1> SUFFICES ASSUME ExecInit PROVE ExecInv
  OBVIOUS
<1>1. RequestsInv
  BY RequestsStart
<1>2. PICK none \in Seq(Marks) : none = <<>> /\ Len(none) = 0
  <2>1. <<>> \in Seq(Marks) /\ Len(<<>>) = 0
    OBVIOUS
  <2> QED
    BY <2>1
<1>3. PICK sent : sent = none \o Prompt
  OBVIOUS
<1>4. sent = marks
  <2>1. none \o Prompt = Prompt
    BY <1>2 DEF Prompt
  <2> QED
    BY <2>1, <1>3 DEF ExecInit
<1>5. Prompted(sent, 2) /\ 2 \in 1..Len(sent)
  <2>1. Prompted(none \o Prompt, Len(none) + 2)
    <3>1. Finishes(none)
      BY <1>2 DEF Finishes
    <3> QED
      BY <3>1, MarksChange
  <2>2. Len(none \o Prompt) = Len(none) + 2
    BY PromptSent
  <2> QED
    BY <2>1, <2>2, <1>2, <1>3
<1>6. InMarks
  BY <1>4, <1>5 DEF ExecInit, InMarks, Texts
<1>7. OwnMarks
  BY DEF ExecInit, OwnMarks, NoActive
<1>8. Undisturbed
  BY <1>6, <1>7 DEF ExecInit, Undisturbed
<1>9. CompletionIsOwn /\ AgentCommandOnCleanLine
  BY DEF ExecInit, CompletionIsOwn, AgentCommandOnCleanLine
<1> QED
  BY <1>1, <1>8, <1>9 DEF ExecInv

LEMMA UndisturbedKept ==
    ASSUME Typed, Typed', Requests, [ExecNext]_execVars,
           readiness # "Disconnected", Undisturbed, Orderly', readiness' # "Disconnected"
    PROVE  Undisturbed'
<1>1. ASSUME NEW e \in Exec, NEW kind \in Kinds, NEW waits \in BOOLEAN, StartExec(e, kind, waits)
      PROVE  Undisturbed'
  BY <1>1, StartKeeps DEF Orderly
<1>2. ASSUME NEW e \in Exec, CancelExec(e) PROVE Undisturbed'
  BY <1>2, CancelKeeps
<1>3. ASSUME NEW timer \in timers, ExecTimeout(timer[1], timer[2]) PROVE Undisturbed'
  <2>1. PICK e \in Exec, phase \in Phases : timer = <<e, phase>> /\ ExecTimeout(e, phase)
    BY <1>3 DEF Typed
  <2> QED
    BY <2>1, TimeoutKeeps
<1>4. ASSUME NEW input \in Inputs, UserTypes(input) PROVE Undisturbed'
  BY <1>4, TypingKeeps DEF Orderly
<1>4a. ASSUME NEW n \in 1..MaxLines, SendInit(n) PROVE Undisturbed'
  BY <1>4a, InitKeeps DEF Orderly
<1>5. CASE FlushInput
  BY <1>5, FlushKeeps
<1>6. ~Interrupt /\ ~Reintegrate /\ ~Disconnect
  BY DEF Interrupt, Reintegrate, Disconnect, Orderly
<1>7. CASE OnPromptStart \/ OnInputStart \/ OnCommandStart \/ OnCommandFinished
  BY <1>7, PromptStartKeeps, InputStartKeeps, CommandStartKeeps, CommandFinishedKeeps DEF Orderly
<1>8. CASE ShellReads \/ CommandEnds \/ ShellInterrupted
  BY <1>8, ReadKeeps, EndKeeps, InterruptedKeeps
<1>9. CASE UNCHANGED execVars
  <2>1. CASE readiness = "Ready"
    <3>1. AtRest
      BY <2>1 DEF Undisturbed, InKept, InWire, InShell, InMarks
    <3>2. AtRest'
      BY <3>1, <1>9 DEF AtRest, execVars
    <3>3. OwnMarks'
      BY <3>2 DEF AtRest, OwnMarks, NoActive
    <3> QED
      BY <3>2, <3>3, <1>9 DEF Undisturbed, execVars
  <2>2. CASE readiness # "Ready"
    BY <2>2, <1>9, PlaceKept DEF execVars
  <2> QED
    BY <2>1, <2>2
<1> QED
  BY <1>1, <1>2, <1>3, <1>4, <1>4a, <1>5, <1>6, <1>7, <1>8, <1>9 DEF ExecNext

\* The histories: commands that ended stay so, and what makes
\* the session disorderly, or the backend it has, is not forgotten.
LEMMA HistoryKept ==
    ASSUME Typed, Requests, readiness = "Disconnected" => Closed, [ExecNext]_execVars
    PROVE  /\ ended \subseteq ended' /\ buffered' = buffered
           /\ Orderly' => Orderly
           /\ readiness = "Disconnected" => readiness' = "Disconnected"
           /\ ~OnCommandFinished => \A e \in Exec : answer'[e] = "exit" => answer[e] = "exit"
           /\ ~ShellReads => appended' = appended
<1>1. ended \subseteq ended' /\ buffered' = buffered /\ (Orderly' => Orderly)
  <2>1. UNCHANGED ended \/ CommandIsOver
    BY DEF ExecNext, StartExec, CancelExec, ExecTimeout, UserTypes, SendInit, FlushInput, Interrupt,
       Reintegrate, Disconnect, OnPromptStart, OnInputStart, OnCommandStart, OnCommandFinished, TakesMark, ShellReads, CommandEnds,
       ShellInterrupted, ShellSide, Outside, execVars
  <2>2. buffered' = buffered
    BY DEF ExecNext, StartExec, CancelExec, ExecTimeout, UserTypes, SendInit, FlushInput, Interrupt,
       Reintegrate, Disconnect, OnPromptStart, OnInputStart, OnCommandStart, OnCommandFinished, TakesMark, ShellReads, CommandEnds,
       ShellInterrupted, ShellSide, Outside, execVars
  <2>3. disturbed => disturbed'
    BY DEF ExecNext, StartExec, CancelExec, ExecTimeout, UserTypes, SendInit, FlushInput, Interrupt,
       Reintegrate, Disconnect, OnPromptStart, OnInputStart, OnCommandStart, OnCommandFinished, TakesMark,
       ShellReads, CommandEnds, ShellInterrupted, ShellSide, Outside, execVars
  <2>4. multiline => multiline'
    <3>1. ASSUME NEW e \in Exec, NEW kind \in Kinds, NEW table, Submit(e, kind, table)
          PROVE  multiline => multiline'
      BY <3>1, SubmitWrites
    <3>2. ASSUME NEW e \in Exec, NEW kind \in Kinds, NEW waits \in BOOLEAN, StartExec(e, kind, waits)
          PROVE  multiline => multiline'
      BY <3>1, <3>2 DEF StartExec
    <3>3. CASE OnInputStart
      <4>1. CASE active.phase \in {"waiting", "clearing"}
        <5>1. PICK e \in Exec, kind \in Kinds : e = active.id /\ kind = active.kind
          BY <4>1, OtherTypes DEF Requests, NoActive
        <5> QED
          BY <5>1, <4>1, <3>1, <3>3 DEF OnInputStart
      <4>2. CASE active.phase \notin {"waiting", "clearing"}
        BY <4>2, <3>3 DEF OnInputStart
      <4> QED
        BY <4>1, <4>2
    <3>4. ASSUME NEW e \in Exec, NEW phase, ExecTimeout(e, phase)
          PROVE  multiline => multiline'
      BY <3>4 DEF ExecTimeout
    <3> QED
      BY <3>2, <3>3, <3>4
         DEF ExecNext, CancelExec, ExecTimeout, UserTypes, SendInit, FlushInput, Interrupt, Reintegrate,
             Disconnect, OnPromptStart, OnCommandStart, OnCommandFinished, ShellReads, CommandEnds,
             ShellInterrupted, ShellSide, execVars
  <2> QED
    BY <2>1, <2>2, <2>3, <2>4 DEF CommandIsOver, Orderly
<1>2. ASSUME readiness = "Disconnected" PROVE readiness' = "Disconnected"
  <2>1. active = NoActive /\ timers = {} /\ marks = <<>> /\ NoActive.id = NoExec
    BY <1>2 DEF Closed, NoActive
  <2>2. \A e \in Exec : answer[e] # "pending"
    BY <2>1, ExecAssumption DEF Requests
  <2>3. ASSUME NEW e \in Exec, NEW kind \in Kinds, NEW waits \in BOOLEAN, StartExec(e, kind, waits)
        PROVE  readiness' = "Disconnected"
    BY <1>2, <2>1, <2>3 DEF StartExec
  <2> QED
    BY <1>2, <2>1, <2>2, <2>3 DEF ExecNext, CancelExec, UserTypes, SendInit, FlushInput, Interrupt,
       Reintegrate, Disconnect, OnPromptStart, OnInputStart, OnCommandStart, OnCommandFinished, TakesMark, ShellReads, CommandEnds,
       ShellInterrupted, ShellSide, execVars
<1>3. ~ShellReads => appended' = appended
  BY DEF ExecNext, StartExec, CancelExec, ExecTimeout, UserTypes, SendInit, FlushInput, Interrupt,
     Reintegrate, Disconnect, OnPromptStart, OnInputStart, OnCommandStart, OnCommandFinished, TakesMark, CommandEnds,
     ShellInterrupted, Outside, execVars
<1>4. ASSUME ~OnCommandFinished, NEW e \in Exec, answer'[e] = "exit"
      PROVE  answer[e] = "exit"
  <2>t. answer \in [Exec -> Answers]
    BY DEF Typed
  <2>s. ASSUME NEW d \in Exec, NEW kind \in Kinds, NEW table \in [Exec -> Answers],
               Submit(d, kind, table)
        PROVE  table[e] = "exit"
    BY <2>s, <1>4 DEF Submit
  <2>1. ASSUME NEW d \in Exec, NEW kind \in Kinds, NEW waits \in BOOLEAN, StartExec(d, kind, waits)
        PROVE  answer[e] = "exit"
    <3>1. PICK pending \in [Exec -> Answers] : pending = [answer EXCEPT ![d] = "pending"]
      BY <2>t, OtherTypes DEF Answers
    <3>2. CASE Submit(d, kind, pending)
      BY <3>1, <3>2, <2>s, <2>t
    <3>3. CASE ~Submit(d, kind, pending)
      <4>1. \E outcome \in {"busy", "disconnected", "unknown", "pending"} :
              answer' = [answer EXCEPT ![d] = outcome]
        BY <2>1, <3>1, <3>3 DEF StartExec
      <4> QED
        BY <4>1, <2>t, <1>4
    <3> QED
      BY <3>2, <3>3
  <2>2. ASSUME NEW d \in Exec, CancelExec(d) PROVE answer[e] = "exit"
    BY <2>2, <2>t, <1>4 DEF CancelExec
  <2>3. ASSUME NEW timer \in timers, ExecTimeout(timer[1], timer[2]) PROVE answer[e] = "exit"
    <3>1. PICK d \in Exec, phase \in Phases : timer = <<d, phase>> /\ ExecTimeout(d, phase)
      BY <2>3 DEF Typed
    <3>2. answer' = answer \/ \E outcome \in {"readyTimeout", "clearTimeout", "timedOut"} :
                  answer' = [answer EXCEPT ![d] = IF @ = "pending" THEN outcome ELSE @]
      BY <3>1 DEF ExecTimeout, Answer, Phases
    <3> QED
      BY <3>2, <2>t, <1>4
  <2>4. ASSUME NEW input \in Inputs, UserTypes(input) PROVE answer[e] = "exit"
    BY <2>4, <2>t, <1>4 DEF UserTypes, Answer
  <2>5. CASE Disconnect
    BY <2>5, <2>t, <1>4 DEF Disconnect
  <2>6. CASE OnInputStart
    <3>1. CASE active.phase \in {"waiting", "clearing"}
      <4>1. PICK d \in Exec, kind \in Kinds : d = active.id /\ kind = active.kind
        BY <3>1, OtherTypes DEF Requests, NoActive
      <4>2. Submit(d, kind, answer)
        BY <4>1, <3>1, <2>6 DEF OnInputStart
      <4> QED
        BY <4>2, <2>s, <2>t
    <3>2. CASE active.phase \notin {"waiting", "clearing"}
      BY <3>2, <2>6, <2>t, <1>4 DEF OnInputStart, Answer
    <3> QED
      BY <3>1, <3>2
  <2> QED
    BY <2>1, <2>2, <2>3, <2>4, <2>5, <2>6, <1>4 DEF ExecNext, SendInit, FlushInput, Interrupt,
       Reintegrate, OnPromptStart, OnCommandStart, ShellReads, CommandEnds, ShellInterrupted, ShellSide, execVars
<1> QED
  BY <1>1, <1>2, <1>3, <1>4

\* What is said of an orderly session holds in every reachable state.
THEOREM ExecInvariant == ExecSpec => []ExecInv
<1>1. ExecInit => ExecInv
  BY ExecStart
<1>2. ExecInv /\ RequestsInv' /\ [ExecNext]_execVars => ExecInv'
  <2> SUFFICES ASSUME ExecInv, RequestsInv', [ExecNext]_execVars PROVE ExecInv'
    OBVIOUS
  <2>1. Typed /\ Requests /\ (readiness = "Disconnected" => Closed)
    BY TypedMeansTypeOK DEF ExecInv, RequestsInv
  <2>2. Typed'
    BY <2>1, TypesKept
  <2>3. /\ ended \subseteq ended' /\ buffered' = buffered
        /\ Orderly' => Orderly
        /\ readiness = "Disconnected" => readiness' = "Disconnected"
        /\ ~OnCommandFinished => \A e \in Exec : answer'[e] = "exit" => answer[e] = "exit"
        /\ ~ShellReads => appended' = appended
    BY <2>1, HistoryKept
  <2>4. Orderly' /\ readiness' # "Disconnected" => readiness # "Disconnected" /\ Undisturbed
    BY <2>3 DEF ExecInv
  <2>5. Orderly' /\ readiness' # "Disconnected" => Undisturbed'
    BY <2>1, <2>2, <2>4, UndisturbedKept
  <2>6. CompletionIsOwn'
    <3> SUFFICES ASSUME Orderly', NEW e \in Exec, answer'[e] = "exit" PROVE e \in ended'
      BY DEF CompletionIsOwn, Orderly
    <3>1. CASE answer[e] = "exit"
      BY <3>1, <2>3 DEF ExecInv, CompletionIsOwn, Orderly
    <3>2. CASE answer[e] # "exit"
      <4>1. OnCommandFinished
        BY <3>2, <2>3
      <4>2. Completes /\ e = active.id
        BY <4>1, <3>2, <2>1 DEF OnCommandFinished, Answer, Typed
      <4>3. readiness # "Disconnected"
        BY <4>1, <2>1 DEF OnCommandFinished, TakesMark, Closed
      <4>4. Undisturbed
        BY <4>3, <2>3 DEF ExecInv
      <4> QED
        BY <4>1, <4>2, <4>4, <2>1, <2>3, CommandFinishedKeeps
    <3> QED
      BY <3>1, <3>2
  <2>7. AgentCommandOnCleanLine'
    <3> SUFFICES ASSUME ~buffered, Orderly' PROVE ~appended'
      BY <2>3 DEF AgentCommandOnCleanLine, Orderly
    <3>1. ~appended
      BY <2>3 DEF ExecInv, AgentCommandOnCleanLine, Orderly
    <3>2. CASE ShellReads
      <4>1. Undisturbed
        BY <3>2, <2>3 DEF ShellReads, ShellSide, ExecInv
      <4> QED
        BY <4>1, <3>1, <3>2, <2>1, ReadKeeps
    <3>3. CASE ~ShellReads
      BY <3>1, <3>3, <2>3
    <3> QED
      BY <3>2, <3>3
  <2> QED
    BY <2>5, <2>6, <2>7 DEF ExecInv
<1> QED
  BY <1>1, <1>2, RequestsInvariant, PTL DEF ExecSpec

\* As long as the session is orderly, an exit code is answered to the
\* request whose command has ended.
THEOREM CompletionsAreOwn == ExecSpec => []CompletionIsOwn
<1>1. ExecInv => CompletionIsOwn
  BY DEF ExecInv
<1> QED
  BY <1>1, ExecInvariant, PTL

\* As long as the session is orderly, no command is run together with
\* unsubmitted text on a local terminal.
THEOREM CommandsRunAlone == ExecSpec => []AgentCommandOnCleanLine
<1>1. ExecInv => AgentCommandOnCleanLine
  BY DEF ExecInv
<1> QED
  BY <1>1, ExecInvariant, PTL

-----------------------------------------------------------------------------
\* A step of MCServices is one of a service, with the other services at rest.
LEMMA ServicesStepServes ==
  ASSUME [ServicesNext]_servicesVars
  PROVE  [DavNext]_davVars /\ [GitNext]_gitVars /\ [ExecNext]_execVars
  <1>1. CASE ServicesNext
    BY <1>1 DEF ServicesNext
  <1>2. CASE UNCHANGED servicesVars
    BY <1>2 DEF servicesVars
  <1> QED
    BY <1>1, <1>2

\* A behaviour of MCServices is one of the WebDAV store, one of the Git store and one
\* of the supervised commands.
THEOREM ServicesServe == ServicesSpec => DavSpec /\ GitSpec /\ ExecSpec
  <1>1. ServicesInit => DavInit /\ GitInit /\ ExecInit
    BY DEF ServicesInit
  <1>2. [ServicesNext]_servicesVars => [DavNext]_davVars /\ [GitNext]_gitVars /\ [ExecNext]_execVars
    BY ServicesStepServes
  <1> QED
    BY <1>1, <1>2, PTL DEF ServicesSpec, DavSpec, GitSpec, ExecSpec

\* The types of the stores and of the supervised commands.
THEOREM ServicesTypes == ServicesSpec => []ServicesTypeOK
  <1>1. DavTypeOK /\ GitTypeOK /\ ExecTypeOK => ServicesTypeOK
    BY DEF ServicesTypeOK
  <1> QED
    BY <1>1, ServicesServe, DavTypes, GitTypes, ExecTypes, PTL
==============================================================================
