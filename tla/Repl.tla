-------------------------------- MODULE Repl --------------------------------
(***************************************************************************)
(* The prompt and the interrupt character: pyexec_raw_repl,                *)
(* pyexec_friendly_repl and parse_compile_execute of lib/utils/pyexec.c,   *)
(* the soft reset loop of teensy/main.c, process_interrupt_char of         *)
(* core/usb_dev.c and pendsv_nlr_jump of stmhal/pendsv.c.                  *)
(*                                                                         *)
(* Packets arrive between any two steps.  Of a line only whether something *)
(* is typed is kept; whether it needs another line, compiles, ends, raises *)
(* an exception or catches one is left open, and whether the printing of   *)
(* an exception calls a method of the program.  An nlr_jump without a      *)
(* frame to return to is fatal, and the model stops.                       *)
(***************************************************************************)
EXTENDS Integers, Sequences, SequencesExt

CONSTANTS MaxInput,     \* characters received and not yet read (a bound)
          MaxPacket     \* characters in a packet (a bound)

ASSUME ReplAssumption == MaxInput \in Nat /\ MaxPacket \in Nat

\* Ctrl-A to Ctrl-E, Enter, and any other character.
Chars == {"A", "B", "C", "D", "E", "Enter", "x"}

VARIABLES
    pc,         \* where the main thread is
    source,     \* what parse_compile_execute runs: a file or a line
    mode,       \* pyexec_mode_kind
    typed,      \* something is typed since the prompt
    input,      \* the received packets
    intr,       \* user_interrupt_char is Ctrl-C, not -1
    pending,    \* mp_pending_exception is set
    said,       \* what the raw REPL has sent last
    printing,   \* an exception is being printed: the frame is gone
    loose,      \* history: a method called by the printing has enabled intr
    fault

repl == <<mode, typed, said>>
char == <<intr, loose>>
vars == <<pc, source, mode, typed, input, intr, pending, said, printing, loose, fault>>

Runs(p) == pc = p /\ fault = "none"
At(p)    == Runs(p) /\ UNCHANGED fault

Goto(p) == pc' = p

Init ==
    /\ pc = "boot" /\ source = "boot.py" /\ mode = "friendly" /\ typed = FALSE
    /\ input = <<>> /\ intr = FALSE /\ pending = FALSE
    /\ said = "nothing" /\ printing = FALSE /\ loose = FALSE /\ fault = "none"

----------------------------------------------------------------------------
(* A packet is received. *)

\* Faulty variant, for the mutants: the loop ends with the first match.
Strip_First(buf) ==
    LET at == SelectInSeq(buf, LAMBDA c : c = "C")
    IN IF at = 0 THEN buf ELSE RemoveAt(buf, at)

\* One turn of the loop of process_interrupt_char: dest runs behind src, and
\* every match shortens the packet.
StripStep(s, src) ==
    IF s.buf[src] = "C" THEN [buf |-> s.buf, dest |-> s.dest, len |-> s.len - 1]
    ELSE [buf |-> [s.buf EXCEPT ![s.dest + 1] = s.buf[src]], dest |-> s.dest + 1, len |-> s.len]

Strip(buf) ==
    LET loop[src \in 0 .. Len(buf)] ==
          IF src = 0 THEN [buf |-> buf, dest |-> 0, len |-> Len(buf)]
                     ELSE StripStep(loop[src - 1], src)
        end == loop[Len(buf)]
    IN SubSeq(end.buf, 1, end.len)

Matches(buf) == Len(buf) - Len(SelectSeq(buf, LAMBDA c : c # "C"))

\* parse_compile_execute has pushed its frame, and it is still there.
HasFrame == pc \in {"compile", "run", "wait", "ran"} /\ ~printing

\* nlr_jump, or RAISE in the VM: code of the program catches the exception, or
\* it ends in parse_compile_execute, or in nlr_jump_fail.
Raise ==
    \/ pc \in {"run", "wait"} /\ Goto("run") /\ UNCHANGED fault
    \/ HasFrame /\ Goto("except") /\ UNCHANGED fault
    \/ ~HasFrame /\ fault' = "fatal" /\ UNCHANGED pc

\* pendsv_nlr_jump for n matches: every second one forces the exception, when
\* the interrupt handler has returned.
Interrupt(n) ==
    LET marks == n + IF pending THEN 1 ELSE 0 IN
    /\ pending' = (marks % 2 = 1)
    /\ IF marks < 2 THEN UNCHANGED <<pc, fault>> ELSE Raise

Receive(packet) ==
    /\ fault = "none" /\ packet # <<>>
    /\ Len(input) + Len(packet) <= MaxInput
    /\ IF intr
       THEN input' = input \o Strip(packet) /\ Interrupt(Matches(packet))
       ELSE input' = input \o packet /\ UNCHANGED <<pc, pending, fault>>
    /\ UNCHANGED <<source, repl, printing, char>>

----------------------------------------------------------------------------
(* The prompts. *)

\* A file is run, or is missing; boot.py first, then main.py.
RunFile ==
    /\ pc \in {"boot", "main"} /\ At(pc)
    /\ source' = IF pc = "boot" THEN "boot.py" ELSE "main.py"
    /\ \/ Goto("compile")
       \/ Goto(IF pc = "boot" THEN "main" ELSE "repl")
    /\ UNCHANGED <<repl, input, pending, printing, char>>

\* The loop in main(): the REPL of the current mode starts.
StartRepl ==
    /\ At("repl")
    /\ Goto(mode) /\ typed' = FALSE
    /\ said' = IF mode = "raw" THEN "prompt" ELSE said
    /\ UNCHANGED <<source, mode, input, pending, printing, char>>

\* mp_hal_stdin_rx_chr.
Reads(p, c) ==
    /\ At(p) /\ input # <<>> /\ c = Head(input) /\ input' = Tail(input)
    /\ UNCHANGED <<pending, printing, char>>

\* pyexec_raw_repl.
RawChar(c) ==
    /\ Reads("raw", c)
    /\ CASE c = "B" -> /\ mode' = "friendly" /\ Goto("repl")
                       /\ said' = "nothing" /\ UNCHANGED <<typed, source>>
         [] c = "D" -> /\ said' = "OK" /\ typed' = FALSE
                       /\ IF typed THEN source' = "raw" /\ Goto("lexer")
                                   ELSE Goto("reset") /\ UNCHANGED source
                       /\ UNCHANGED mode
         [] OTHER   -> /\ typed' = (c \notin {"A", "C"})
                       /\ UNCHANGED <<pc, source, mode, said>>

\* The lexer is made from the line; without memory the raw REPL still sends
\* both end marks.
NewLexer ==
    /\ At("lexer")
    /\ \/ Goto("compile") /\ UNCHANGED said
       \/ /\ said' = IF source = "raw" THEN "output_end" ELSE said
          /\ Goto(IF source = "raw" THEN "done" ELSE "friendly")
    /\ UNCHANGED <<source, mode, typed, input, pending, printing, char>>

\* A line is complete: it needs another one, or is run.
EndOfLine ==
    \/ Goto("more") /\ UNCHANGED source
    \/ Goto("lexer") /\ source' = "friendly"

\* What readline leaves of the line when c is not an end of it: any other
\* character may also be one that deletes, and Ctrl-D deletes too.
Edited(c) ==
    CASE c = "x" -> BOOLEAN [] c = "D" -> {typed, FALSE} [] OTHER -> {typed}

\* readline with ">>> " in pyexec_friendly_repl: the control characters have a
\* meaning of their own only while nothing is typed, but for Ctrl-C.
FriendlyChar(c) ==
    /\ Reads("friendly", c)
    /\ typed' \in IF c \in {"C", "Enter"} THEN {FALSE} ELSE Edited(c)
    /\ IF typed /\ c = "Enter" THEN EndOfLine
       ELSE /\ Goto(CASE ~typed /\ c = "A" -> "repl"
                      [] ~typed /\ c = "D" -> "reset"
                      [] ~typed /\ c = "E" -> "paste"
                      [] OTHER -> "friendly")
            /\ UNCHANGED source
    /\ mode' = IF ~typed /\ c = "A" THEN "raw" ELSE mode
    /\ UNCHANGED said

\* readline with "... ": Ctrl-A, B and E at its start count as an empty line.
MoreChar(c) ==
    /\ Reads("more", c)
    /\ CASE c = "C" -> Goto("friendly") /\ typed' = FALSE /\ UNCHANGED source
         [] c = "D" /\ ~typed -> Goto("lexer") /\ source' = "friendly" /\ UNCHANGED typed
         [] c = "Enter" \/ (c \in {"A", "B", "E"} /\ ~typed) ->
               EndOfLine /\ typed' = FALSE
         [] OTHER -> typed' \in Edited(c) /\ UNCHANGED <<pc, source>>
    /\ UNCHANGED <<mode, said>>

PasteChar(c) ==
    /\ Reads("paste", c)
    /\ CASE c = "C" -> Goto("friendly") /\ UNCHANGED source
         [] c = "D" -> Goto("lexer") /\ source' = "friendly"
         [] OTHER   -> UNCHANGED <<pc, source>>
    /\ UNCHANGED repl

----------------------------------------------------------------------------
(* parse_compile_execute. *)

\* mp_hal_set_interrupt_char.
SetChar(on) == intr' = on /\ loose' = (on /\ printing)

\* The interrupt character is enabled only when the source has compiled.
Compile ==
    /\ At("compile")
    /\ \/ Goto("run") /\ SetChar(TRUE)
       \/ Goto("except") /\ UNCHANGED char
    /\ UNCHANGED <<source, repl, input, pending, printing>>

\* Faulty variant: an exception is noticed only while the interrupt character is
\* enabled.
Poll_IfEnabled ==
    /\ Runs("run") /\ pending /\ intr
    /\ pending' = FALSE /\ Raise
    /\ UNCHANGED <<source, repl, input, printing, char>>

\* pending_exception_check of the VM.
Poll ==
    /\ Runs("run") /\ pending
    /\ pending' = FALSE /\ Raise
    /\ UNCHANGED <<source, repl, input, printing, char>>

\* The program, or the method that prints, ends or raises an exception of its
\* own.
Return ==
    /\ Runs("run")
    /\ \/ Goto(IF printing THEN "print" ELSE "ran") /\ UNCHANGED fault
       \/ Raise
    /\ UNCHANGED <<source, repl, input, pending, printing, char>>

\* It asks for a character and waits in C code, where no exception is looked
\* for, until there is one.
Wait ==
    /\ At("run") /\ Goto("wait")
    /\ UNCHANGED <<source, repl, input, pending, printing, char>>

Got(c) == Reads("wait", c) /\ Goto("run") /\ UNCHANGED <<source, repl>>

\* pyb_usb_vcp_setinterrupt.
SetInterrupt ==
    /\ At("run") /\ \E on \in BOOLEAN : SetChar(on)
    /\ UNCHANGED <<pc, source, repl, input, pending, printing>>

\* Only the raw REPL asks for the end marks.
Sends(mark) == said' = IF source = "raw" THEN mark ELSE said

\* The end mark follows the output, whether the program has ended or raised.
Finished ==
    /\ At("ran")
    /\ SetChar(FALSE) /\ Sends("output_end") /\ Goto("done")
    /\ UNCHANGED <<source, mode, typed, input, pending, printing>>

\* Faulty variant: no end mark between the output and the exception.
Excepted_Unmarked ==
    /\ At("except")
    /\ SetChar(FALSE) /\ Goto("print") /\ printing' = TRUE /\ UNCHANGED said
    /\ UNCHANGED <<source, mode, typed, input, pending>>

\* Faulty variant: the interrupt character stays enabled.
Excepted_Enabled ==
    /\ At("except")
    /\ Sends("output_end") /\ Goto("print") /\ printing' = TRUE
    /\ UNCHANGED <<source, mode, typed, input, pending, char>>

\* The frame is gone, and the interrupt character still enabled.
Excepted ==
    /\ At("except")
    /\ SetChar(FALSE) /\ Sends("output_end") /\ Goto("print") /\ printing' = TRUE
    /\ UNCHANGED <<source, mode, typed, input, pending>>

\* mp_obj_print_exception, unless it is a SystemExit.  It may call a __repr__ or
\* __str__ of the program, and when that has returned one of the result, and may
\* itself raise an exception: the recursion too deep, or no memory.
PrintException ==
    /\ Runs("print")
    /\ \/ /\ (UNCHANGED said \/ Sends("exception")) /\ Goto("done")
          /\ printing' = FALSE /\ UNCHANGED fault
       \/ Sends("exception") /\ Goto("run") /\ UNCHANGED <<printing, fault>>
       \/ Sends("exception") /\ Raise /\ UNCHANGED printing
    /\ UNCHANGED <<source, mode, typed, input, pending, char>>

Done ==
    /\ At("done")
    /\ Sends("end") /\ Goto("back")
    /\ UNCHANGED <<source, mode, typed, input, pending, printing, char>>

Back ==
    /\ At("back")
    /\ Goto(CASE source = "boot.py" -> "main" [] source = "main.py" -> "repl"
              [] OTHER -> source)
    /\ typed' = FALSE /\ Sends("prompt")
    /\ UNCHANGED <<source, mode, input, pending, printing, char>>

\* From soft_reset: on; the mode and what was received stay.
SoftReset ==
    /\ At("reset")
    /\ pending' = FALSE /\ SetChar(FALSE)
    /\ said' = "nothing" /\ typed' = FALSE /\ Goto("boot")
    /\ UNCHANGED <<source, mode, input, printing>>

----------------------------------------------------------------------------
\* Everything the main thread does but a wait for a character.
Works ==
    \/ RunFile \/ StartRepl \/ NewLexer \/ Compile \/ Finished \/ Excepted
    \/ PrintException \/ Done \/ Back \/ SoftReset

Reading == \E c \in Chars : \/ RawChar(c) \/ FriendlyChar(c) \/ MoreChar(c)
                            \/ PasteChar(c) \/ Got(c)

Next ==
    \/ Works \/ Reading \/ Poll \/ Return \/ Wait \/ SetInterrupt
    \/ \E packet \in BoundedSeq(Chars, MaxPacket) : Receive(packet)

Spec == Init /\ [][Next]_vars
             /\ WF_vars(Works) /\ WF_vars(Reading) /\ SF_vars(Poll)

----------------------------------------------------------------------------
(* Type invariant, and where Ctrl-C is fatal.  The character is enabled    *)
(* only where parse_compile_execute has a frame, but for the moment in     *)
(* which its handler of exceptions disables it, and unless a method called *)
(* by the printing of an exception has enabled it: nobody disables it then *)
(* before the next command ends.  An exception finds no frame in that      *)
(* moment, while an exception is printed, and after such a method.         *)
ReplTypeOK ==
    /\ mode \in {"friendly", "raw"} /\ Len(input) <= MaxInput
    /\ printing => pc \in {"print", "run", "wait"}
    /\ intr => \/ pc \in {"run", "wait", "ran", "except"} /\ ~printing
               \/ loose
    /\ fault = "fatal" => (pc = "except" /\ intr) \/ printing \/ loose

(* Whatever Ctrl-C does to the program, and wherever it strikes, the raw   *)
(* REPL answers every command with OK, end mark, end mark and prompt.      *)
P == INSTANCE RawProtocol WITH seen <- said

AnswersInOrder == P!ProtocolSpec

(* The characters of a packet that do not interrupt, in their order.       *)
OtherChars(buf) ==
    LET before[n \in 0 .. Len(buf)] ==
          IF n = 0 THEN <<>>
          ELSE IF buf[n] = "C" THEN before[n - 1] ELSE Append(before[n - 1], buf[n])
    IN before[Len(buf)]

(* process_interrupt_char takes exactly the interrupt characters out of a  *)
(* packet, wherever they stand, and leaves the others in their order:      *)
(* this holds of every packet there is room for while the character is     *)
(* enabled.                                                                *)
StripsExactly ==
    intr => \A packet \in BoundedSeq({"C", "D", "x"}, MaxInput - Len(input)) :
                Strip(packet) = OtherChars(packet)

(* A Ctrl-C is heard: code that keeps running raises the pending          *)
(* KeyboardInterrupt, also when it reads characters and when the interrupt *)
(* character has been disabled since, unless it waits for a character that *)
(* does not come; and a command that is over, or has raised an exception,  *)
(* ends at a prompt, unless its printing is fatal or has called a method   *)
(* of the program, which need not return.                                  *)
InterruptHeard ==
    /\ pending /\ pc = "run" ~>
          \/ ~pending \/ pc \notin {"run", "wait"}
          \/ pc = "wait" /\ input = <<>>
          \/ fault # "none"
    /\ pc \in {"ran", "except", "print", "done"} ~>
          \/ pc \in {"raw", "friendly", "main", "repl"}
          \/ printing /\ pc = "run"
          \/ fault # "none"
=============================================================================
