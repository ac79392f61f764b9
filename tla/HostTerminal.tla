---------------------------- MODULE HostTerminal ----------------------------
(***************************************************************************)
(* The interactive loop from the host's input to the host's screen:        *)
(* StreamTerminalBackend turns bytes into input events, TerminalRunner     *)
(* submits them to the machine session, the console's line discipline      *)
(* echoes and edits, the shell session reads complete lines and executes   *)
(* them, and the renderer shows the terminal before the next event is      *)
(* read.  All of it is one thread: the phases are the places of            *)
(* TerminalRunner::run, and one poll of the shell session is one step.     *)
(*                                                                         *)
(* Commands are abstracted to what they do to the terminal: "c" clears it, *)
(* "x" ends the session, an empty line does nothing and any other line     *)
(* writes Reply.  The prompt is one character.                             *)
(***************************************************************************)
EXTENDS Terminal, SequencesExt

CONSTANTS Configs,      \* [input, render, rows] the terminal is run with
          RawBytes,     \* bytes of a RAW input
          LineTexts,    \* what a LINE input has before its line feeds
          ReadBuffer,   \* SHELL_SESSION_READ_BUFFER_SIZE
          MaxTyped,     \* bound on the bytes read from the host
          MaxClosed     \* bound on the descriptors closed

VARIABLES config,       \* TerminalRunnerConfig
          phase,        \* "pump", "render", "read" or "done"
          term,         \* TerminalDevice
          console,      \* [line, ready, waiting]: current_line_, ready_input_,
                        \* whether input_waiters_ lists the shell's thread
          session,      \* [pending, prompt, running, status] of the shell session
                        \* and the machine session around it
          open,         \* the descriptors the shell's process has open, of 0 and 1
          thread,       \* state of the shell's thread in the scheduler
          host,         \* [shown, frame, result]: what the backend has printed,
                        \* last_screen_frame_, TerminalRunStatus
          typed,        \* the bytes read so far
          written,      \* every character ever written to the terminal
          commands,     \* the lines executed so far
          dropped       \* whether clear has thrown input away

vars == <<config, phase, term, console, session, open, thread, host, typed, written,
          commands, dropped>>

stdin == 0
stdout == 1

Prompt == <<">">>
Reply == <<"?", "NL">>

\* HostMachineSession::boot up to its first poll.
Init ==
  /\ config \in Configs
  /\ phase = "pump"
  /\ term = NewTerminal(config.rows)
  /\ console = [line |-> <<>>, ready |-> <<>>, waiting |-> FALSE]
  /\ session = [pending |-> <<>>, prompt |-> TRUE, running |-> TRUE, status |-> "WAITING"]
  /\ open = {stdin, stdout}
  /\ thread = "RUNNING"
  /\ host = [shown |-> <<>>, frame |-> <<>>, result |-> "NONE"]
  /\ typed = <<>> /\ written = <<>> /\ commands = <<>> /\ dropped = FALSE

-----------------------------------------------------------------------------
\* The console's line discipline.  d is the terminal and the console together.

handle_enter(d) ==
  [term    |-> write_output(d.term, <<"NL">>),
   console |-> [d.console EXCEPT !.ready = @ \o d.console.line \o <<"NL">>, !.line = <<>>]]

handle_backspace(d) ==
  IF d.console.line = <<>> THEN d
  ELSE [term    |-> write_output(d.term, <<"BS">>),
        console |-> [d.console EXCEPT !.line = Front(@)]]

handle_printable(d, char) ==
  [term    |-> write_output(d.term, <<char>>),
   console |-> [d.console EXCEPT !.line = Append(@, char)]]

handle_key_event(d, char) ==
  CASE char \in Enters -> handle_enter(d)
    [] char \in Erases -> handle_backspace(d)
    [] OTHER -> IF IsPrintable(char) THEN handle_printable(d, char) ELSE d

KeysHandled(d, keys) ==
  LET after[i \in 0 .. Len(keys)] ==
        IF i = 0 THEN d ELSE handle_key_event(after[i - 1], keys[i])
  IN  after[Len(keys)]

\* HostMachineSession::submit_input: the kernel hands the text to the console,
\* wakes the reader if a line is complete, and the scheduler runs it.
Submitted(after, keys) ==
  LET woken == console.waiting /\ \E i \in DOMAIN keys : keys[i] \in Enters
  IN  /\ term' = after.term
      /\ console' = [after.console EXCEPT !.waiting = @ /\ ~woken]
      /\ thread' = IF woken THEN "RUNNING" ELSE thread
      /\ written' = written \o SubSeq(after.term.out, Len(term.out) + 1, Len(after.term.out))

submit_input(keys) ==
  /\ Submitted(KeysHandled([term |-> term, console |-> console], keys), keys)
  /\ phase' = "pump"
  /\ UNCHANGED <<config, session, open, host, commands, dropped>>

-----------------------------------------------------------------------------
\* The shell session.

\* Console::copy_ready_input leaves what the buffer has no room for.
AfterRead(ready) == SubSeq(ready, ReadBuffer + 1, Len(ready))
ReadFrom(ready) == SubSeq(ready, 1, IF Len(ready) < ReadBuffer THEN Len(ready) ELSE ReadBuffer)

LineBreak(text) == SelectInSeq(text, LAMBDA char : char = "NL")
HasCompleteLine(text) == LineBreak(text) # 0

\* The line without a carriage return at its end.
CommandLine(text) ==
  LET line == SubSeq(text, 1, LineBreak(text) - 1)
  IN  IF line # <<>> /\ Last(line) = "CR" THEN Front(line) ELSE line

\* The read and the write of a closed descriptor fail with BAD_DESCRIPTOR.
Readable == stdin \in open
PromptFails == session.prompt /\ stdout \notin open

\* write_prompt_if_needed.
Prompted == IF session.prompt THEN write_output(term, Prompt) ELSE term

\* What a command does to the terminal: Shell::execute_line.  A command writes to
\* the console itself, not to standard output.
ExecuteLine(t, line) ==
  CASE line \in {<<>>, <<"x">>} -> t
    [] line = <<"c">>           -> clear_display(t)
    [] OTHER                    -> write_output(t, Reply)

\* Mutant: the characters behind the line are thrown away with it.
RestAfterLineNothing(text) == <<>>

RestAfterLine(text) == SubSeq(text, LineBreak(text) + 1, Len(text))

Executed(text, line, ready, t) ==
  LET running == line # <<"x">>
  IN  /\ term' = t
      /\ written' = written \o SubSeq(t.out, Len(term.out) + 1, Len(t.out))
      /\ commands' = Append(commands, line)
      /\ console' = IF line = <<"c">> THEN [console EXCEPT !.line = <<>>, !.ready = <<>>]
                    ELSE [console EXCEPT !.ready = ready]
      /\ dropped' = (dropped \/ (line = <<"c">> /\ (ready # <<>> \/ console.line # <<>>)))
      /\ session' = [pending |-> RestAfterLine(text), prompt |-> running, running |-> running,
                     status |-> IF running THEN "WAITING" ELSE "EXITED"]
      /\ phase' = IF running THEN "pump" ELSE "render"
      /\ UNCHANGED thread

\* ShellSession::poll with a line at hand, or with one completed by the read.
PollCommand ==
  LET held == HasCompleteLine(session.pending)
      text == IF held THEN session.pending ELSE session.pending \o ReadFrom(console.ready)
      ready == IF held THEN console.ready ELSE AfterRead(console.ready)
  IN  /\ phase = "pump"
      /\ ~PromptFails /\ (held \/ Readable)
      /\ HasCompleteLine(text)
      /\ Executed(text, CommandLine(text), ready, ExecuteLine(Prompted, CommandLine(text)))
      /\ UNCHANGED <<config, open, host, typed>>

PromptWritten ==
  /\ term' = Prompted
  /\ written' = IF session.prompt THEN written \o Prompt ELSE written

\* The read gave some characters and no line feed: PENDING_INPUT.
PollPending ==
  /\ phase = "pump"
  /\ ~PromptFails /\ Readable
  /\ ~HasCompleteLine(session.pending)
  /\ console.ready # <<>>
  /\ ~HasCompleteLine(session.pending \o ReadFrom(console.ready))
  /\ PromptWritten
  /\ session' = [session EXCEPT !.prompt = FALSE, !.pending = @ \o ReadFrom(console.ready)]
  /\ console' = [console EXCEPT !.ready = AfterRead(@)]
  /\ UNCHANGED <<config, phase, open, thread, host, typed, commands, dropped>>

\* Nothing to read: the thread joins the console's wait queue, once, and blocks,
\* and the host has to wait for input.
PollBlocked ==
  /\ phase = "pump"
  /\ ~PromptFails /\ Readable
  /\ ~HasCompleteLine(session.pending)
  /\ console.ready = <<>>
  /\ PromptWritten
  /\ session' = [session EXCEPT !.prompt = FALSE]
  /\ console' = [console EXCEPT !.waiting = TRUE]
  /\ thread' = "BLOCKED"
  /\ phase' = "render"
  /\ UNCHANGED <<config, open, host, typed, commands, dropped>>

\* IO_ERROR: the prompt could not be written, or it was and the read fails.  The
\* machine session polls no more.
PollFails ==
  /\ phase = "pump"
  /\ \/ PromptFails /\ UNCHANGED <<term, written>>
     \/ /\ ~PromptFails /\ ~HasCompleteLine(session.pending) /\ ~Readable
        /\ PromptWritten
  /\ session' = [session EXCEPT !.prompt = PromptFails, !.status = "SHELL_IO_ERROR"]
  /\ phase' = "render"
  /\ UNCHANGED <<config, console, open, thread, host, typed, commands, dropped>>

\* Kernel::close_fd on the shell's process, by the program around the session
\* while the session waits.
close_fd(descriptor) ==
  /\ phase = "read"
  /\ descriptor \in open
  /\ Cardinality({stdin, stdout} \ open) < MaxClosed
  /\ open' = open \ {descriptor}
  /\ UNCHANGED <<config, phase, term, console, session, thread, host, typed, written,
                 commands, dropped>>

-----------------------------------------------------------------------------
\* The renderer.

IsScreen == config.render \in {"ANSI_SCREEN", "PLAIN_SCREEN"}
UsesAnsi == config.render \in {"ANSI_STREAM", "ANSI_SCREEN"}

\* render_output_stream_for_host.
RenderChar(char) ==
  CASE char = "FF"     -> IF UsesAnsi THEN <<"CLS">> ELSE <<>>
    [] char \in Erases -> <<"BS", Blank, "BS">>
    [] OTHER           -> <<char>>
RenderStream(text) == FlattenSeq([i \in DOMAIN text |-> RenderChar(text[i])])

\* Mutant: the runner goes on polling.
AfterRenderPolls == IF session.status = "WAITING" THEN "pump" ELSE "done"

AfterRender == IF session.status = "WAITING" THEN "read" ELSE "done"

RenderedStream ==
  /\ ~IsScreen
  /\ host' = [host EXCEPT !.shown = @ \o RenderStream(term.out),
                          !.result = IF AfterRender = "done" THEN session.status ELSE @]
  /\ term' = discard_output_stream(term)

\* A frame that has not changed is not printed again.  The output stream is not
\* touched: in screen mode nobody ever discards it.
RenderedScreen ==
  /\ IsScreen
  /\ host' = [host EXCEPT !.frame = RenderDisplay(term),
                          !.result = IF AfterRender = "done" THEN session.status ELSE @]
  /\ UNCHANGED term

Render ==
  /\ phase = "render"
  /\ RenderedStream \/ RenderedScreen
  /\ phase' = AfterRender
  /\ UNCHANGED <<config, console, session, open, thread, typed, written, commands, dropped>>

\* The host's output stream fails on something that had to be printed.
RenderFails ==
  /\ phase = "render"
  /\ IF IsScreen THEN RenderDisplay(term) # host.frame ELSE RenderStream(term.out) # <<>>
  /\ host' = [host EXCEPT !.result = "HOST_IO_ERROR"]
  /\ phase' = "done"
  /\ UNCHANGED <<config, term, console, session, open, thread, typed, written, commands, dropped>>

-----------------------------------------------------------------------------
\* The backend.

\* The bytes of one RAW event: an escape takes the byte behind it, and one more
\* if that is the CSI introducer.  (Input that ends inside an escape sequence
\* gives an ESCAPE key, which is ignored, and then the end: Closed.)
RawEvents ==
  {<<b>> : b \in RawBytes \ {"ESC"}}
    \cup {<<"ESC", b>> : b \in RawBytes \ {"["}} \cup {<<"ESC", "[", b>> : b \in RawBytes}

\* host_input_event_from_raw_byte and host_input_event_to_terminal_input.
RawKeys(bytes) ==
  CASE bytes[1] = "ESC"    -> <<>>
    [] bytes[1] \in Enters -> <<"NL">>
    [] OTHER               -> bytes

Take(bytes) ==
  /\ Len(typed) + Len(bytes) <= MaxTyped
  /\ typed' = typed \o bytes

ReadRaw ==
  /\ phase = "read" /\ config.input = "RAW"
  /\ \E bytes \in RawEvents \ {<<"EOT">>} :
       /\ Take(bytes)
       /\ IF RawKeys(bytes) = <<>>
          THEN UNCHANGED <<config, phase, term, console, session, open, thread, host, written,
                           commands, dropped>>
          ELSE submit_input(RawKeys(bytes))

\* append_host_line_ending: one carriage return before the line feed is dropped.
LineKeys(text) ==
  Append(IF text # <<>> /\ Last(text) = "CR" THEN Front(text) ELSE text, "NL")

ReadLine ==
  /\ phase = "read" /\ config.input = "LINE"
  /\ \E text \in LineTexts : Take(Append(text, "NL")) /\ submit_input(LineKeys(text))

\* End of file, a control-D in RAW mode, or a failed read.
Closed ==
  /\ phase = "read"
  /\ \E result \in {"INPUT_CLOSED", "HOST_IO_ERROR"} : host' = [host EXCEPT !.result = result]
  /\ phase' = "done"
  /\ UNCHANGED <<config, term, console, session, open, thread, typed, written, commands, dropped>>

Done == phase = "done" /\ UNCHANGED vars

Step == PollCommand \/ PollPending \/ PollBlocked \/ PollFails \/ Render \/ RenderFails

Next == Step \/ ReadRaw \/ ReadLine \/ (\E fd \in {stdin, stdout} : close_fd(fd)) \/ Closed \/ Done

\* The loop is a thread of the host that only stops to wait for input.
Spec == Init /\ [][Next]_vars /\ WF_vars(Step)

-----------------------------------------------------------------------------
\* What a user at the keyboard expects, from the bytes alone.

\* In RAW mode, the bytes that belong to an escape sequence behind its start.
Swallowed(bytes) ==
  LET in[i \in 0 .. Len(bytes)] ==
        LET starts(j) == j >= 1 /\ bytes[j] = "ESC" /\ ~in[j]
        IN  i > 0 /\ (starts(i - 1) \/ (i > 2 /\ starts(i - 2) /\ bytes[i - 1] = "["))
  IN  {i \in DOMAIN bytes : config.input = "RAW" /\ in[i]}

\* In LINE mode the carriage return of a CR LF is part of the line's end.
Ignored(bytes) ==
  Swallowed(bytes) \cup {i \in DOMAIN bytes : config.input = "LINE" /\ i < Len(bytes)
                                               /\ bytes[i] = "CR" /\ bytes[i + 1] = "NL"}

Edited(bytes) ==
  LET skip == Ignored(bytes)
      e[i \in 0 .. Len(bytes)] ==
        IF i = 0 THEN [line |-> <<>>, lines |-> <<>>]
        ELSE CASE i \in skip -> e[i - 1]
               [] i \notin skip /\ bytes[i] \in Enters ->
                    [line |-> <<>>, lines |-> Append(e[i - 1].lines, e[i - 1].line)]
               [] i \notin skip /\ bytes[i] \in Erases ->
                    [e[i - 1] EXCEPT !.line = IF @ = <<>> THEN @ ELSE Front(@)]
               [] OTHER -> IF IsPrintable(bytes[i]) THEN [e[i - 1] EXCEPT !.line = Append(@, bytes[i])]
                           ELSE e[i - 1]
  IN  e[Len(bytes)]

\* The shell executes what was typed: the commands are the edited lines of the
\* input, in order, each once, however keys were grouped into events and lines
\* into reads; when the loop waits for input none is left over and the line
\* being edited is the one typed, the reader is in the console's wait queue and
\* will be woken.  The exception is a clear that runs while more input is
\* waiting: Console::clear drops that too.
CommandsAreEditedLines ==
  ~dropped =>
    LET e == Edited(typed)
    IN  /\ IsPrefix(commands, e.lines)
        /\ phase = "read" => /\ commands = e.lines /\ console.line = e.line
                             /\ session.pending = <<>> /\ console.ready = <<>>
                             /\ console.waiting /\ thread = "BLOCKED"

\* What is edited is what is seen: the cells before the cursor show the end of
\* the current line, as much of it as is on the screen, through wrapped rows,
\* scrolling, erasing and clearing.
EchoMatchesLine ==
  LET seen == IF Len(console.line) < Position(term) THEN Len(console.line) ELSE Position(term)
  IN  \A n \in 0 .. seen - 1 :
        term.cells[Position(term) - 1 - n] = console.line[Len(console.line) - n]

\* Before the loop waits for input, the host has been shown everything: in
\* stream mode every character written, once and in order, in screen mode the
\* display as it is.
HostSeesTerminal ==
  phase = "read" =>
    IF IsScreen THEN host.frame = RenderDisplay(term)
    ELSE host.shown = RenderStream(written) /\ term.out = <<>>

\* Every event is served: the loop always comes back to wait for input or ends.
EventServed == phase \in {"pump", "render"} ~> phase \in {"read", "done"}
=============================================================================
