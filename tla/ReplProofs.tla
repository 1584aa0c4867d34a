----------------------------- MODULE ReplProofs -----------------------------
(***************************************************************************)
(* Proofs about Repl, for packets and input of any length.                 *)
(***************************************************************************)
EXTENDS Repl, NatSets, SequenceTheorems, TLAPS

-----------------------------------------------------------------------------
(* The loops over a packet: what a recursive function is, for one packet.  *)
Start(buf) == [buf |-> buf, dest |-> 0, len |-> Len(buf)]
IsLoop(loop, buf) ==
    loop = [src \in 0 .. Len(buf) |->
              IF src = 0 THEN Start(buf) ELSE StripStep(loop[src - 1], src)]
IsBefore(before, buf) ==
    before = [n \in 0 .. Len(buf) |->
                IF n = 0 THEN <<>>
                ELSE IF buf[n] = "C" THEN before[n - 1] ELSE Append(before[n - 1], buf[n])]

States(buf) == [buf : [1 .. Len(buf) -> Chars], dest : Nat, len : Int]

LEMMA LoopExists ==
    ASSUME NEW buf \in Seq(Chars)
    PROVE  \E loop \in [0 .. Len(buf) -> States(buf)] : IsLoop(loop, buf)
<1> DEFINE S == States(buf)
           L == Len(buf)
           G == [s \in S |-> [i \in 1 .. L |-> StripStep(s, i)]]
<1>1. Start(buf) \in S
  BY LenProperties DEF Start, States
<1>2. ASSUME NEW s \in S, NEW i \in 1 .. L PROVE G[s][i] \in S /\ G[s][i] = StripStep(s, i)
  <2>1. G[s][i] = StripStep(s, i)
    OBVIOUS
  <2>2. s.buf \in [1 .. L -> Chars] /\ s.dest \in Nat /\ s.len \in Int
    BY DEF States
  <2>3. [s.buf EXCEPT ![s.dest + 1] = s.buf[i]] \in [1 .. L -> Chars]
    BY <2>2
  <2> QED BY <2>1, <2>2, <2>3 DEF StripStep, States
<1> HIDE DEF S
<1>3. L \in Nat /\ G \in [S -> [1 .. L -> S]]
  <2>1. ASSUME NEW s \in S, NEW i \in 1 .. L PROVE StripStep(s, i) \in S
    BY <1>2
  <2> QED BY <2>1, LenProperties
<1> HIDE DEF G
<1> HIDE DEF L
<1>4. PICK loop \in [0 .. L -> S] : IsIteration(loop, Start(buf), G, L)
  BY <1>1, <1>3, IterationExists
<1>5. loop = [i \in 0 .. L |-> IF i = 0 THEN Start(buf) ELSE StripStep(loop[i - 1], i)]
  <2>1. ASSUME NEW i \in 0 .. L, i # 0 PROVE G[loop[i - 1]][i] = StripStep(loop[i - 1], i)
    BY <1>2, <1>3, <2>1
  <2>2. \A i \in 0 .. L : i # 0 => loop[i] = StripStep(loop[i - 1], i)
    BY <1>3, <1>4, <2>1 DEF IsIteration
  <2> QED BY <1>3, <1>4, <2>2 DEF IsIteration
<1> QED BY <1>5 DEF IsLoop, S, L

LEMMA BeforeExists ==
    ASSUME NEW buf \in Seq(Chars)
    PROVE  \E before \in [0 .. Len(buf) -> Seq(Chars)] : IsBefore(before, buf)
<1> DEFINE L == Len(buf)
           Next1(s, i) == IF buf[i] = "C" THEN s ELSE Append(s, buf[i])
           G == [s \in Seq(Chars) |-> [i \in 1 .. L |-> Next1(s, i)]]
<1>1. <<>> \in Seq(Chars)
  OBVIOUS
<1>2. ASSUME NEW s \in Seq(Chars), NEW i \in 1 .. L
      PROVE  G[s][i] \in Seq(Chars) /\ G[s][i] = Next1(s, i)
  BY ElementOfSeq, AppendProperties
<1>3. L \in Nat /\ G \in [Seq(Chars) -> [1 .. L -> Seq(Chars)]]
  <2>1. ASSUME NEW s \in Seq(Chars), NEW i \in 1 .. L PROVE Next1(s, i) \in Seq(Chars)
    BY <1>2
  <2> HIDE DEF Next1
  <2> QED BY <2>1, LenProperties
<1> HIDE DEF G
<1> HIDE DEF L
<1>4. PICK before \in [0 .. L -> Seq(Chars)] : IsIteration(before, <<>>, G, L)
  BY <1>1, <1>3, IterationExists
<1>5. before = [i \in 0 .. L |-> IF i = 0 THEN <<>> ELSE Next1(before[i - 1], i)]
  <2>1. ASSUME NEW i \in 0 .. L, i # 0 PROVE G[before[i - 1]][i] = Next1(before[i - 1], i)
    <3>1. before[i - 1] \in Seq(Chars) /\ i \in 1 .. L
      BY <1>3, <2>1
    <3> HIDE DEF Next1
    <3> QED BY <1>2, <3>1
  <2> HIDE DEF Next1
  <2>2. \A i \in 0 .. L : i # 0 => before[i] = Next1(before[i - 1], i)
    BY <1>3, <1>4, <2>1 DEF IsIteration
  <2> QED BY <1>3, <1>4, <2>2 DEF IsIteration
<1> QED BY <1>5 DEF IsBefore, L

(* Behind src the packet is still as received, and before dest it is what  *)
(* is left of the characters up to src.                                    *)
Follows(s, rest, n, buf) ==
    /\ s \in States(buf) /\ rest \in Seq(Chars)
    /\ s.dest = Len(rest) /\ s.dest <= n /\ s.len = Len(buf) - n + s.dest
    /\ \A k \in 1 .. s.dest : s.buf[k] = rest[k]
    /\ \A k \in n + 1 .. Len(buf) : s.buf[k] = buf[k]

LEMMA FollowsStep ==
    ASSUME NEW buf \in Seq(Chars), NEW n \in Nat, n + 1 <= Len(buf),
           NEW s, NEW rest, Follows(s, rest, n, buf)
    PROVE  Follows(StripStep(s, n + 1),
                   IF buf[n + 1] = "C" THEN rest ELSE Append(rest, buf[n + 1]), n + 1, buf)
<1>1. /\ Len(buf) \in Nat /\ s \in States(buf) /\ rest \in Seq(Chars) /\ Len(rest) \in Nat
      /\ s.buf \in [1 .. Len(buf) -> Chars] /\ s.dest \in Nat /\ s.len \in Int
  BY LenProperties DEF Follows, States
<1>2. s.buf[n + 1] = buf[n + 1] /\ buf[n + 1] \in Chars
  BY <1>1 DEF Follows
<1>3. CASE buf[n + 1] = "C"
  <2>1. StripStep(s, n + 1) = [buf |-> s.buf, dest |-> s.dest, len |-> s.len - 1]
    BY <1>2, <1>3 DEF StripStep
  <2> DEFINE t == [buf |-> s.buf, dest |-> s.dest, len |-> s.len - 1]
  <2>2. t \in States(buf) /\ t.dest = s.dest /\ t.len = s.len - 1 /\ t.buf = s.buf
    BY <1>1 DEF States
  <2> HIDE DEF t
  <2>3. Follows(t, rest, n + 1, buf)
    <3>1. s.dest = Len(rest) /\ s.dest <= n /\ s.len = Len(buf) - n + s.dest
      BY DEF Follows
    <3>2. /\ \A k \in 1 .. t.dest : t.buf[k] = rest[k]
          /\ \A k \in n + 2 .. Len(buf) : t.buf[k] = buf[k]
      BY <1>1, <2>2 DEF Follows
    <3> QED BY <1>1, <2>2, <3>1, <3>2 DEF Follows
  <2> QED BY <1>3, <2>1, <2>3 DEF t
<1>4. CASE buf[n + 1] # "C"
  <2> DEFINE moved == [s.buf EXCEPT ![s.dest + 1] = buf[n + 1]]
             t == [buf |-> moved, dest |-> s.dest + 1, len |-> s.len]
             more == Append(rest, buf[n + 1])
  <2>1. StripStep(s, n + 1) = t
    BY <1>2, <1>4 DEF StripStep
  <2>2. /\ moved \in [1 .. Len(buf) -> Chars]
        /\ \A k \in 1 .. Len(buf) : moved[k] = IF k = s.dest + 1 THEN buf[n + 1] ELSE s.buf[k]
    BY <1>1, <1>2
  <2>3. /\ more \in Seq(Chars) /\ Len(more) = Len(rest) + 1
        /\ \A k \in 1 .. Len(rest) : more[k] = rest[k]
        /\ more[Len(rest) + 1] = buf[n + 1]
    BY <1>1, <1>2, AppendProperties
  <2> HIDE DEF moved, more
  <2>4. s.dest = Len(rest) /\ s.dest + 1 <= Len(buf) /\ s.dest <= n /\ s.len = Len(buf) - n + s.dest
    BY <1>1 DEF Follows
  <2>5. t \in States(buf) /\ t.dest = s.dest + 1 /\ t.len = s.len /\ t.buf = moved
    BY <1>1, <2>2 DEF States
  <2> HIDE DEF t
  <2>6. \A k \in 1 .. t.dest : t.buf[k] = more[k]
    <3>1. ASSUME NEW k \in 1 .. s.dest PROVE t.buf[k] = more[k]
      <4>1. s.buf[k] = rest[k] /\ more[k] = rest[k]
        BY <2>3, <2>4 DEF Follows
      <4>2. k \in 1 .. Len(buf) /\ k # s.dest + 1
        BY <1>1, <2>4
      <4> QED BY <2>2, <2>5, <4>1, <4>2
    <3>2. t.buf[s.dest + 1] = more[s.dest + 1]
      BY <1>1, <2>2, <2>3, <2>4, <2>5
    <3> QED BY <1>1, <2>5, <3>1, <3>2
  <2>7. \A k \in n + 2 .. Len(buf) : t.buf[k] = buf[k]
    BY <1>1, <2>2, <2>4, <2>5 DEF Follows
  <2>8. Follows(t, more, n + 1, buf)
    BY <1>1, <2>3, <2>4, <2>5, <2>6, <2>7 DEF Follows
  <2> QED BY <1>4, <2>1, <2>8 DEF more
<1> QED BY <1>3, <1>4

(* process_interrupt_char takes the interrupt characters out, and nothing  *)
(* else.                                                                   *)
LEMMA StripIsOthers ==
    ASSUME NEW buf \in Seq(Chars)
    PROVE  Strip(buf) = OtherChars(buf) /\ Strip(buf) \in Seq(Chars) /\ Len(Strip(buf)) <= Len(buf)
<1> DEFINE L == Len(buf)
           loop == CHOOSE f : IsLoop(f, buf)
           before == CHOOSE f : IsBefore(f, buf)
           T == {n \in Nat : n <= L => Follows(loop[n], before[n], n, buf)}
<1>1. IsLoop(loop, buf)
  BY LoopExists
<1>2. IsBefore(before, buf)
  BY BeforeExists
<1>3. Strip(buf) = SubSeq(loop[L].buf, 1, loop[L].len)
  BY Zenon DEF Strip, IsLoop, Start
<1>4. OtherChars(buf) = before[L]
  BY Zenon DEF OtherChars, IsBefore
<1> HIDE DEF loop, before
<1>5. L \in Nat /\ buf \in [1 .. L -> Chars]
  BY LenProperties
<1>6. 0 \in T
  <2>1. loop[0] = Start(buf) /\ before[0] = <<>>
    BY <1>1, <1>2, <1>5 DEF IsLoop, IsBefore
  <2>2. Start(buf) \in States(buf) /\ Len(<<>>) = 0 /\ <<>> \in Seq(Chars)
    BY <1>5 DEF Start, States
  <2>3. Follows(Start(buf), <<>>, 0, buf)
    BY <1>5, <2>2 DEF Start, Follows
  <2> QED BY <2>1, <2>3
<1>7. ASSUME NEW n \in Nat, n \in T PROVE n + 1 \in T
  <2> SUFFICES ASSUME n + 1 <= L PROVE Follows(loop[n + 1], before[n + 1], n + 1, buf)
    OBVIOUS
  <2>1. /\ loop[n + 1] = StripStep(loop[n], n + 1)
        /\ before[n + 1] = IF buf[n + 1] = "C" THEN before[n] ELSE Append(before[n], buf[n + 1])
    <3> HIDE DEF L
    <3>1. n + 1 \in 0 .. L /\ n + 1 # 0 /\ (n + 1) - 1 = n
      BY <1>5
    <3> QED BY <1>1, <1>2, <3>1 DEF IsLoop, IsBefore, L
  <2> QED BY <1>5, <1>7, <2>1, FollowsStep
<1>8. L \in T
  <2> HIDE DEF T
  <2> QED BY <1>5, <1>6, <1>7, SetInduction
<1>9. Follows(loop[L], before[L], L, buf)
  BY <1>5, <1>8
<1>10. SubSeq(loop[L].buf, 1, loop[L].len) = before[L] /\ Len(before[L]) <= L
  <2>1. loop[L].len = Len(before[L]) /\ Len(before[L]) \in Nat /\ Len(before[L]) <= L
    BY <1>5, <1>9, LenProperties DEF Follows
  <2>2. \A i \in 1 .. Len(before[L]) : loop[L].buf[i] \in Chars
    BY <1>5, <1>9, <2>1 DEF Follows, States
  <2> DEFINE sub == SubSeq(loop[L].buf, 1, loop[L].len)
  <2>3. /\ sub \in Seq(Chars) /\ Len(sub) = Len(before[L])
        /\ \A i \in 1 .. Len(before[L]) : sub[i] = loop[L].buf[i]
    BY <2>1, <2>2, SubSeqProperties
  <2> HIDE DEF sub
  <2>4. \A i \in 1 .. Len(sub) : sub[i] = before[L][i]
    BY <1>9, <2>1, <2>3 DEF Follows
  <2>5. sub = before[L]
    BY <1>9, <2>3, <2>4, SeqEqual DEF Follows
  <2> QED BY <2>1, <2>5 DEF sub
<1> QED BY <1>3, <1>4, <1>9, <1>10 DEF Follows

-----------------------------------------------------------------------------
Running == {"compile", "run", "wait", "ran"}
Places  == Running \cup {"boot", "main", "repl", "raw", "lexer", "friendly", "more",
                         "paste", "except", "print", "done", "back", "reset"}
Sources == {"boot.py", "main.py", "raw", "friendly"}

(* What the raw REPL has sent is a function of where the main thread is,   *)
(* almost: of a command, what its stage says, and otherwise the prompt or  *)
(* nothing.                                                                *)
Raw == source = "raw"
SaidAt ==
    /\ pc \in {"boot", "main", "repl", "friendly", "more", "paste"} => said = "nothing"
    /\ pc = "raw" => said = "prompt"
    /\ pc \in Running \cup {"lexer", "except"} /\ ~printing =>
          said = IF Raw THEN "OK" ELSE "nothing"
    /\ pc \in Running /\ printing => said = IF Raw THEN "exception" ELSE "nothing"
    /\ pc = "print" => said \in IF Raw THEN {"output_end", "exception"} ELSE {"nothing"}
    /\ pc = "done" => said \in IF Raw THEN {"output_end", "exception"} ELSE {"nothing"}
    /\ pc = "back" => said = IF Raw THEN "end" ELSE "nothing"
    /\ pc = "reset" => said \in {"OK", "nothing"}

Inv ==
    /\ pc \in Places /\ source \in Sources /\ mode \in {"friendly", "raw"}
    /\ SaidAt
    /\ input \in Seq(Chars) /\ Len(input) <= MaxInput
    /\ printing \in BOOLEAN /\ loose \in BOOLEAN
    /\ pc = "print" => printing
    /\ printing => pc \in {"print", "run", "wait"}
    /\ intr => \/ pc \in {"run", "wait", "ran", "except"} /\ ~printing
               \/ loose
    /\ fault \in {"none", "fatal"}
    /\ fault = "fatal" => (pc = "except" /\ intr) \/ printing \/ loose

LEMMA InvInit == Init => Inv
<1> SUFFICES ASSUME Init PROVE Inv
  OBVIOUS
<1>1. ~printing /\ ~loose /\ ~intr /\ printing \in BOOLEAN /\ loose \in BOOLEAN
  BY Zenon DEF Init
<1>2. input \in Seq(Chars) /\ Len(input) <= MaxInput
  BY ReplAssumption DEF Init
<1> QED BY <1>1, <1>2 DEF Init, Inv, Places, Running, Sources, SaidAt

(* The packets of the model are sequences of characters.                   *)
LEMMA BoundedSeqIsSeq ==
    ASSUME NEW n, NEW buf \in BoundedSeq(Chars, n)
    PROVE  buf \in Seq(Chars)
<1>1. PICK m \in 0 .. n : buf \in [1 .. m -> Chars]
  BY DEF BoundedSeq, SeqOf
<1> QED BY <1>1

(* An interrupt is fatal, or returns to the frame of the program.          *)
LEMMA InvReceive ==
    ASSUME Inv, NEW packet \in BoundedSeq(Chars, MaxPacket), Receive(packet)
    PROVE  Inv' /\ UNCHANGED said
<1>0. input' \in Seq(Chars) /\ Len(input') <= MaxInput
  <2>1. packet \in Seq(Chars)
    BY BoundedSeqIsSeq
  <2>2. PICK new \in Seq(Chars) : Len(new) <= Len(packet) /\ input' = input \o new
    BY <2>1, StripIsOthers DEF Receive
  <2>3. Len(input) + Len(packet) <= MaxInput /\ Len(packet) \in Nat /\ Len(input) \in Nat /\ Len(new) \in Nat
    BY <2>1, LenProperties DEF Receive, Inv
  <2> QED BY <2>2, <2>3, ReplAssumption, ConcatProperties DEF Inv
<1> USE <1>0 DEF Inv
<1>1. UNCHANGED <<source, mode, said, intr, printing, loose>> /\ fault = "none"
  BY DEF Receive, repl, char
<1>2. CASE UNCHANGED <<pc, fault>>
  BY <1>1, <1>2 DEF SaidAt, Raw
<1>3. CASE ~UNCHANGED <<pc, fault>>
  <2>1. intr /\ Interrupt(Matches(packet))
    BY <1>3 DEF Receive
  <2>2. \/ pc \in {"run", "wait"} /\ pc' = "run" /\ UNCHANGED fault
        \/ HasFrame /\ pc' = "except" /\ UNCHANGED fault
        \/ ~HasFrame /\ fault' = "fatal" /\ UNCHANGED pc
    BY <1>3, <2>1 DEF Interrupt, Raise, Goto
  <2>3. CASE pc \in {"run", "wait"} /\ pc' = "run" /\ UNCHANGED fault
    BY <1>1, <2>1, <2>3 DEF SaidAt, Raw, Running, Places
  <2>5. CASE HasFrame /\ pc' = "except" /\ UNCHANGED fault
    BY <1>1, <2>1, <2>5 DEF SaidAt, Raw, Running, Places, HasFrame
  <2>4. CASE ~HasFrame /\ fault' = "fatal" /\ UNCHANGED pc
    BY <1>1, <2>1, <2>4 DEF SaidAt, Raw, HasFrame
  <2> QED BY <2>2, <2>3, <2>4, <2>5
<1> QED BY <1>2, <1>3

(* Reading a character shortens the input.                                 *)
LEMMA InputRead ==
    ASSUME input \in Seq(Chars), Len(input) <= MaxInput, input # <<>>, input' = Tail(input)
    PROVE  input' \in Seq(Chars) /\ Len(input') <= MaxInput
<1>1. Tail(input) \in Seq(Chars) /\ Len(Tail(input)) = Len(input) - 1 /\ Len(input) \in Nat
  BY HeadTailProperties, LenProperties
<1> QED BY <1>1, ReplAssumption

LEMMA InvReading ==
    ASSUME Inv, NEW c \in Chars,
           RawChar(c) \/ FriendlyChar(c) \/ MoreChar(c) \/ PasteChar(c) \/ Got(c)
    PROVE  Inv' /\ [P!ProtocolNext]_said
<1>0. input' \in Seq(Chars) /\ Len(input') <= MaxInput
  BY InputRead DEF Inv, RawChar, FriendlyChar, MoreChar, PasteChar, Got, Reads
<1> USE <1>0 DEF Inv, SaidAt, Raw, Running, Places, Sources, Reads, Runs, At, Goto, repl, char
<1>1. CASE RawChar(c)
  BY <1>1 DEF RawChar, P!ProtocolNext, P!Goes
<1>2. CASE FriendlyChar(c)
  BY <1>2 DEF FriendlyChar, EndOfLine
<1>3. CASE MoreChar(c)
  BY <1>3 DEF MoreChar, EndOfLine
<1>4. CASE PasteChar(c)
  BY <1>4 DEF PasteChar
<1>5. CASE Got(c)
  BY <1>5 DEF Got
<1> QED BY <1>1, <1>2, <1>3, <1>4, <1>5

LEMMA InvWorks ==
    ASSUME Inv, Works
    PROVE  Inv' /\ [P!ProtocolNext]_said
<1> USE DEF Inv, SaidAt, Raw, Running, Places, Sources, Runs, At, Goto, Sends, SetChar, repl, char, P!ProtocolNext, P!Goes
<1>1. CASE RunFile \/ StartRepl
  BY <1>1 DEF RunFile, StartRepl
<1>2. CASE NewLexer \/ Compile
  BY <1>2 DEF NewLexer, Compile
<1>3. CASE Finished
  <2>1. ~intr' /\ ~loose' /\ loose' \in BOOLEAN
    BY <1>3, Zenon DEF Finished
  <2>2. ~printing /\ UNCHANGED printing
    BY <1>3 DEF Finished
  <2> QED BY <1>3, <2>1, <2>2 DEF Finished
<1>8. CASE Excepted
  <2>1. ~intr' /\ ~loose' /\ loose' \in BOOLEAN /\ printing' /\ printing' \in BOOLEAN
    BY <1>8, Zenon DEF Excepted
  <2> QED BY <1>8, <2>1 DEF Excepted
<1>4. CASE PrintException
  BY <1>4 DEF PrintException, Raise, HasFrame
<1>7. CASE Done
  BY <1>7 DEF Done
<1>5. CASE Back
  BY <1>5 DEF Back
<1>6. CASE SoftReset
  BY <1>6 DEF SoftReset
<1> QED BY <1>1, <1>2, <1>3, <1>4, <1>5, <1>6, <1>7, <1>8 DEF Works

(* Every step keeps the invariant, and is one of the protocol or sends     *)
(* nothing.                                                                *)
LEMMA InvStep ==
    ASSUME Inv, [Next]_vars
    PROVE  Inv' /\ [P!ProtocolNext]_said
<1>1. CASE Poll \/ Return \/ Wait
  <2>1. /\ pc = "run" /\ fault = "none"
        /\ UNCHANGED <<source, mode, said, input, intr, printing, loose>>
        /\ \/ pc' \in {"run", "wait"} /\ UNCHANGED fault
           \/ ~printing /\ pc' \in {"ran", "except"} /\ UNCHANGED fault
           \/ printing /\ pc' = "print" /\ UNCHANGED fault
           \/ printing /\ fault' = "fatal" /\ UNCHANGED pc
    BY <1>1 DEF Poll, Return, Wait, Runs, At, Goto, Raise, HasFrame, Inv, repl, char
  <2> QED BY <2>1 DEF Inv, SaidAt, Raw, Running, Places
<1>3. CASE SetInterrupt
  BY <1>3 DEF SetInterrupt, SetChar, Runs, At, Inv, SaidAt, Raw, Running, Places, repl
<1>2. CASE UNCHANGED vars
  BY <1>2 DEF vars, Inv, SaidAt, Raw
<1> QED BY <1>1, <1>2, <1>3, InvReceive, InvReading, InvWorks DEF Next, Reading

LEMMA InvCorrect == Spec => []Inv
  BY InvInit, InvStep, PTL DEF Spec

(* Whatever arrives and whenever an interrupt strikes, the host sees OK,   *)
(* end mark, exception, end mark and prompt in this order.                 *)
THEOREM AnswersCorrect == Spec => AnswersInOrder
<1>1. Init => P!ProtocolInit
  BY DEF Init, P!ProtocolInit
<1> QED BY <1>1, InvStep, InvCorrect, PTL DEF Spec, AnswersInOrder, P!ProtocolSpec

(* The character is enabled only where an exception finds a frame, but for *)
(* the moment in which the handler of exceptions disables it and after a   *)
(* method that the printing of an exception called has enabled it; and an  *)
(* exception is fatal only in that moment, while one is printed, and after *)
(* such a method.                                                          *)
THEOREM ReplTypeCorrect == Spec => []ReplTypeOK
<1>1. Inv => ReplTypeOK
  BY DEF Inv, ReplTypeOK
<1> QED BY <1>1, InvCorrect, PTL

(* process_interrupt_char takes out exactly the interrupt characters, of a *)
(* packet of any length: the loops behind it are run by induction.         *)
THEOREM StripCorrect == Spec => []StripsExactly
<1>1. StripsExactly
  <2>1. ASSUME NEW packet \in BoundedSeq({"C", "D", "x"}, MaxInput - Len(input))
        PROVE  Strip(packet) = OtherChars(packet)
    <3>1. PICK m \in 0 .. MaxInput - Len(input) : packet \in [1 .. m -> {"C", "D", "x"}]
      BY DEF BoundedSeq, SeqOf
    <3>2. packet \in Seq(Chars)
      BY <3>1 DEF Chars
    <3> QED BY <3>2, StripIsOthers
  <2> QED BY <2>1 DEF StripsExactly
<1> QED BY <1>1, PTL

=============================================================================
