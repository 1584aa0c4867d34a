------------------------------- MODULE Timer -------------------------------
(***************************************************************************)
(* teensy/timer.c: the Timer and TimerChannel objects of one timer of the  *)
(* chip, and ftm_irq_handler, which interrupts the program between any two *)
(* steps and runs its callbacks.                                           *)
(*                                                                         *)
(* The program may hold any object that exists; at a collection the ones   *)
(* it holds stay, and what they lead to.  pyb_timer_obj_all is not a root. *)
(* A callback may call any method any number of times, and then returns or *)
(* raises an exception, which is printed without another one.  The heap is *)
(* locked meanwhile: it cannot make a channel, but channel() of a number   *)
(* in use still turns off and unlinks the old one before it fails.  An     *)
(* operation of the program is cut where the handler could tell the        *)
(* difference; the search in channel() is cut at each pointer it reads.    *)
(* The model stops when the handler follows a pointer to an object that is *)
(* gone.                                                                   *)
(***************************************************************************)
CONSTANTS Timers,       \* Timer objects of the program (a bound)
          Chans,        \* TimerChannel objects of the program (a bound)
          Numbers,      \* the channels of the timer
          NULL

ASSUME TimerAssumption ==
    Timers \cap Chans = {} /\ NULL \notin Timers \cup Chans \cup Numbers

VARIABLES
    ftm,        \* the registers: clks, toie, tof, chie, chf, and the NVIC bit
    cb,         \* the objects whose callback is not None
    first,      \* pyb_timer_obj_t.channel
    next,       \* pyb_timer_channel_obj_t.next
    id,         \* pyb_timer_channel_obj_t.timer and .channel
    alive,      \* the objects that exist
    obj_all,    \* pyb_timer_obj_all of this timer
    main,       \* the operation the program is in, and its local variables
    isr,        \* where ftm_irq_handler is, and its local variables
    silent,     \* objects made without a callback, told to stop or stopped by
                \* an exception, and not told to start since
    raced,      \* a callback has replaced a channel under the program's search, and
                \* since then no call has ended with each number once
    fault

lists   == <<first, next>>
objects == <<cb, first, next, silent>>
vars    == <<ftm, cb, first, next, id, alive, obj_all, main, isr, silent, raced,
             fault>>

Idle == [pc |-> "idle", x |-> NULL, c |-> NULL, prev |-> NULL,
         n |-> NULL, new |-> FALSE]
Off  == [pc |-> "off", c |-> NULL, handled |-> FALSE, processed |-> {}]

\* The channels a walk along nx meets from c on: the least set with c that nx
\* does not lead out of.
Closed(nx, S) == \A d \in S : nx[d] \in S \cup {NULL}

Chain(nx, c) == {d \in Chans : \A S \in SUBSET Chans :
                                 c \in S \cup {NULL} /\ Closed(nx, S) => d \in S}

From(c) == Chain(next, c)

List(t) == From(first[t])

Init ==
    /\ ftm = [clks |-> FALSE, toie |-> FALSE, tof |-> FALSE,
              chie |-> {}, chf |-> {}, nvic |-> FALSE]
    /\ cb = {} /\ first = [t \in Timers |-> NULL]
    /\ next = [c \in Chans |-> NULL]
    /\ id = [c \in Chans |-> [timer |-> NULL, channel |-> NULL]]
    /\ alive = {} /\ obj_all = NULL
    /\ main = Idle /\ isr = Off /\ silent = {} /\ raced = FALSE /\ fault = "none"

Pending == ftm.nvic /\ ((ftm.toie /\ ftm.tof) \/ ftm.chie \cap ftm.chf # {})

\* The program runs only while the handler does not and has no cause to.
At(pc) == /\ main.pc = pc /\ isr.pc = "off" /\ ~Pending /\ fault = "none"
          /\ UNCHANGED <<isr, fault>>

Goes(pc) == main' = [main EXCEPT !.pc = pc]

----------------------------------------------------------------------------
(* What a method does to the registers f and to the objects. *)

\* __HAL_FTM_DISABLE_TOF_IT and __HAL_FTM_DISABLE_CH_IT.
Disabled(f, x) == IF x \in Timers THEN [f EXCEPT !.toie = FALSE]
                  ELSE [f EXCEPT !.chie = @ \ {id[x].channel}]

\* HAL_NVIC_EnableIRQ, then the Start_IT of the timer or of the channel.
Started(f, x) ==
    IF x \in Timers THEN [f EXCEPT !.clks = TRUE, !.toie = TRUE, !.nvic = TRUE]
    ELSE [f EXCEPT !.chie = @ \cup {id[x].channel}, !.nvic = TRUE]

\* callback(None) of a timer or of a channel.
CallbackNone(f, x) ==
    /\ ftm' = Disabled(f, x) /\ cb' = cb \ {x}
    /\ silent' = silent \cup {x} /\ UNCHANGED lists

\* Whom deinit tells to stop: the timer and the channels in its list.  A
\* channel that Unlink has dropped from the list is not told.
Stopped(t) == {t} \cup List(t)

\* Faulty variant, for the mutants: deinit forgets the channels.
Deinit_TimerOnly(f, t) ==
    /\ ftm' = [f EXCEPT !.toie = FALSE]
    /\ cb' = cb \ {t}
    /\ silent' = silent \cup Stopped(t)
    /\ UNCHANGED lists

\* pyb_timer_deinit as a callback runs it.
Deinit(f, t) ==
    LET L == List(t) IN
    /\ ftm' = [f EXCEPT !.toie = FALSE, !.chie = @ \ {id[c].channel : c \in L}]
    /\ cb' = cb \ Stopped(t)
    /\ first' = [first EXCEPT ![t] = NULL]
    /\ next' = [c \in Chans |-> IF c \in L THEN NULL ELSE next[c]]
    /\ silent' = silent \cup Stopped(t)

\* The channel of its number that a search from the head finds.
FirstOf(t, c) == \A d \in List(t) : id[d].channel = id[c].channel => d \in From(c)

\* channel() of a number in use as a callback runs it, up to the allocation,
\* which fails: c is turned off and unlinked.
Replace(f, t, c) ==
    /\ ftm' = Disabled(f, c) /\ cb' = cb \ {c} /\ silent' = silent \cup {c}
    /\ first' = [first EXCEPT ![t] = next[c]]
    /\ next' = [d \in Chans |-> IF d = c THEN NULL
                                ELSE IF d \in List(t) /\ next[d] = c THEN next[c]
                                ELSE next[d]]

----------------------------------------------------------------------------
(* The program. *)

\* pyb_timer_make_new; with arguments it goes on as init.
MakeNew(t) ==
    /\ At("idle") /\ t \in Timers \ alive
    /\ alive' = alive \cup {t} /\ cb' = cb \ {t} /\ silent' = silent \cup {t}
    /\ first' = [first EXCEPT ![t] = NULL]
    /\ \E pc \in {"base_init", "publish"} :
          main' = [Idle EXCEPT !.pc = pc, !.x = t, !.new = TRUE]
    /\ UNCHANGED <<ftm, next, id, obj_all, raced>>

\* make_new has still to register the timer.
Done(x, new) == main' = IF new THEN [Idle EXCEPT !.pc = "publish", !.x = x]
                        ELSE Idle

\* pyb_timer_init_helper: HAL_FTM_Base_Init, then HAL_FTM_Base_Start, which only
\* sets CLKS, or callback(f).
InitHelper(x, new) ==
    /\ \/ /\ ftm' = [ftm EXCEPT !.clks = TRUE, !.toie = FALSE]
          /\ Done(x, new)
       \/ /\ ftm' = [ftm EXCEPT !.clks = FALSE, !.toie = FALSE]
          /\ main' = [Idle EXCEPT !.pc = "set", !.x = x, !.new = new]
    /\ UNCHANGED <<objects, id, alive, obj_all, raced>>

InitNew == At("base_init") /\ InitHelper(main.x, TRUE)

InitAgain(t) == At("idle") /\ t \in Timers \cap alive /\ InitHelper(t, FALSE)

\* The two halves of callback(f): the callback is stored, then started.
SetCallback ==
    /\ At("set")
    /\ cb' = cb \cup {main.x} /\ silent' = silent \ {main.x}
    /\ Goes("start") /\ UNCHANGED <<ftm, lists, id, alive, obj_all, raced>>

StartIT ==
    /\ At("start")
    /\ ftm' = Started(ftm, main.x)
    /\ Done(main.x, main.new) /\ UNCHANGED <<objects, id, alive, obj_all, raced>>

Publish ==
    /\ At("publish")
    /\ obj_all' = main.x /\ main' = Idle
    /\ UNCHANGED <<ftm, objects, id, alive, raced>>

\* pyb_timer_callback and pyb_timer_channel_callback.
Callback(x) ==
    /\ At("idle") /\ x \in alive
    /\ \/ /\ main' = [Idle EXCEPT !.pc = "set", !.x = x]
          /\ UNCHANGED <<ftm, objects>>
       \/ CallbackNone(ftm, x) /\ UNCHANGED main
    /\ UNCHANGED <<id, alive, obj_all, raced>>

\* No channel number is twice in a list.
EachOnce == \A t \in Timers \cap alive : \A c, d \in List(t) :
                id[c].channel = id[d].channel => c = d

\* A call of channel() that ends with each number once has done no harm.
Forget == raced' = (raced /\ ~EachOnce)

\* pyb_timer_channel reads the head of the list ...
Channel(t, n) ==
    /\ At("idle") /\ t \in Timers \cap alive
    /\ main' = [Idle EXCEPT !.pc = IF first[t] = NULL THEN "alloc" ELSE "search",
                            !.x = t, !.n = n, !.c = first[t]]
    /\ UNCHANGED <<ftm, objects, id, alive, obj_all, raced>>

\* ... and goes on to the pointer that it finds in an element; an earlier
\* channel of this number is turned off.
Search ==
    /\ At("search")
    /\ IF id[main.c].channel = main.n
       THEN /\ CallbackNone(ftm, main.c)
            /\ Goes(IF main.prev = NULL THEN "unlink" ELSE "unlink_prev")
       ELSE /\ main' = IF next[main.c] # NULL
                       THEN [main EXCEPT !.prev = main.c, !.c = next[main.c]]
                       ELSE [main EXCEPT !.pc = "alloc", !.prev = NULL, !.c = NULL]
            /\ UNCHANGED <<ftm, objects>>
    /\ UNCHANGED <<id, alive, obj_all, raced>>

UnlinkPrev ==
    /\ At("unlink_prev")
    /\ next' = [next EXCEPT ![main.prev] = next[main.c]]
    /\ Goes("unlink")
    /\ UNCHANGED <<ftm, cb, first, silent, id, alive, obj_all, raced>>

\* Faulty variant: the replaced channel stays in the list.
Unlink_Not ==
    /\ At("unlink")
    /\ main' = [main EXCEPT !.pc = "alloc", !.c = NULL, !.prev = NULL]
    /\ UNCHANGED <<ftm, objects, id, alive, obj_all, raced>>

\* The head of the list is moved also when the channel is not the head.
Unlink ==
    /\ At("unlink")
    /\ first' = [first EXCEPT ![main.x] = next[main.c]]
    /\ next' = [next EXCEPT ![main.c] = NULL]
    /\ main' = [main EXCEPT !.pc = "alloc", !.c = NULL, !.prev = NULL]
    /\ UNCHANGED <<ftm, cb, silent, id, alive, obj_all, raced>>

\* A wrong argument or a full heap ends the call here, the old channel gone.
\* The new one, which nobody knows yet, takes the head of the list as its next.
NewChannel ==
    /\ At("alloc")
    /\ \/ main' = Idle /\ Forget /\ UNCHANGED <<cb, next, silent, id, alive>>
       \/ UNCHANGED raced /\ \E c \in Chans \ alive :
             /\ alive' = alive \cup {c}
             /\ id' = [id EXCEPT ![c] = [timer |-> main.x, channel |-> main.n]]
             /\ next' = [next EXCEPT ![c] = first[main.x]]
             /\ \/ cb' = cb \cup {c} /\ silent' = silent \ {c}
                \/ cb' = cb \ {c} /\ silent' = silent \cup {c}
             /\ main' = [main EXCEPT !.pc = "link", !.c = c]
    /\ UNCHANGED <<ftm, first, obj_all>>

\* Faulty variant: the head of the list is written first and then read.
Link_Swapped ==
    /\ At("link")
    /\ first' = [first EXCEPT ![main.x] = main.c]
    /\ next' = [next EXCEPT ![main.c] = first'[main.x]]
    /\ Goes("config")
    /\ UNCHANGED <<ftm, cb, silent, id, alive, obj_all, raced>>

Link ==
    /\ At("link")
    /\ first' = [first EXCEPT ![main.x] = main.c]
    /\ Goes("config")
    /\ UNCHANGED <<ftm, cb, next, silent, id, alive, obj_all, raced>>

\* The mode is written to CSC, with CHIE if there is a callback; a wrong mode
\* or polarity is found only here, with the channel in the list.
Config ==
    /\ At("config") /\ main' = Idle /\ Forget
    /\ \/ UNCHANGED ftm
       \/ ftm' = [ftm EXCEPT !.chie = IF main.c \in cb THEN @ \cup {main.n}
                                      ELSE @ \ {main.n}]
    /\ UNCHANGED <<objects, id, alive, obj_all>>

\* pyb_timer_deinit as the program runs it: the timer, then each channel.
DeinitBegin(t) ==
    /\ At("idle") /\ t \in Timers \cap alive
    /\ CallbackNone(ftm, t)
    /\ main' = [Idle EXCEPT !.pc = "deinit", !.x = t, !.c = first[t]]
    /\ UNCHANGED <<id, alive, obj_all, raced>>

DeinitList ==
    /\ At("deinit")
    /\ first' = [first EXCEPT ![main.x] = NULL]
    /\ silent' = silent \cup (Stopped(main.x) \ {main.x})
    /\ Goes("each")
    /\ UNCHANGED <<ftm, cb, next, id, alive, obj_all, raced>>

DeinitEach ==
    /\ At("each") /\ main.c # NULL
    /\ ftm' = Disabled(ftm, main.c) /\ cb' = cb \ {main.c}
    /\ silent' = silent \cup {main.c}
    /\ main' = [main EXCEPT !.c = next[main.c]]
    /\ next' = [next EXCEPT ![main.c] = NULL]
    /\ UNCHANGED <<first, id, alive, obj_all, raced>>

DeinitEnd ==
    /\ At("each") /\ main.c = NULL
    /\ ftm' = Disabled(ftm, main.x)
    /\ main' = Idle
    /\ UNCHANGED <<objects, id, alive, obj_all, raced>>

\* What the collector reaches from the objects the program holds.
Pointers(x) == (IF x \in Timers THEN {first[x]}
                ELSE {next[x], id[x].timer}) \ {NULL}

Reach(held) ==
    {x \in Timers \cup Chans : \A S \in SUBSET (Timers \cup Chans) :
        held \subseteq S /\ (\A y \in S : Pointers(y) \subseteq S) => x \in S}

\* A collection, also by the allocation in channel(); if the program holds
\* nothing, it is the reset of the heap at a soft reset, which leaves the timer
\* and its registration alone.
Collect ==
    /\ At("idle") \/ At("alloc")
    /\ \E held \in SUBSET alive :
          /\ main.x \in held \cup {NULL}
          /\ LET kept == Reach(held) IN
             /\ alive' = kept
             /\ cb' = cb \cap kept /\ silent' = silent \cap kept
             /\ first' = [t \in Timers |-> IF t \in kept THEN first[t] ELSE NULL]
             /\ next' = [c \in Chans |-> IF c \in kept THEN next[c] ELSE NULL]
             /\ id' = [c \in Chans |-> IF c \in kept THEN id[c]
                                       ELSE [timer |-> NULL, channel |-> NULL]]
    /\ UNCHANGED <<ftm, obj_all, main, raced>>

Program ==
    \/ \E t \in Timers : MakeNew(t) \/ InitAgain(t) \/ DeinitBegin(t)
    \/ \E x \in Timers \cup Chans : Callback(x)
    \/ \E t \in Timers, n \in Numbers : Channel(t, n)
    \/ InitNew \/ SetCallback \/ StartIT \/ Publish
    \/ Search \/ UnlinkPrev \/ Unlink \/ NewChannel \/ Link \/ Config
    \/ DeinitList \/ DeinitEach \/ DeinitEnd \/ Collect

----------------------------------------------------------------------------
(* The timer: it overflows, and a channel matches or captures. *)

Event ==
    /\ fault = "none" /\ ftm.clks
    /\ \/ ~ftm.tof /\ ftm' = [ftm EXCEPT !.tof = TRUE]
       \/ \E n \in Numbers \ ftm.chf : ftm' = [ftm EXCEPT !.chf = @ \cup {n}]
    /\ UNCHANGED <<objects, id, alive, obj_all, main, isr, raced, fault>>

----------------------------------------------------------------------------
(* ftm_irq_handler. *)

\* Whose interrupt the handler is at, and where it goes from there.
Handled == IF isr.c = NULL THEN obj_all ELSE isr.c

Onward(handled) ==
    isr' = [isr EXCEPT
      !.pc = "walk", !.handled = @ \/ handled,
      !.c = IF @ = NULL THEN first[obj_all] ELSE next[@],
      !.processed = IF isr.handled \/ handled THEN {}   \* no longer looked at
                    ELSE IF isr.c = NULL THEN @ ELSE @ \cup {id[isr.c].channel}]

\* ftm_handle_irq_callback, up to the call, with the flag cleared in f.
Answer(f) ==
    IF Handled \in cb
    THEN ftm' = f /\ isr' = [isr EXCEPT !.pc = "run"]
    ELSE ftm' = Disabled(f, Handled) /\ Onward(FALSE)

\* The handler starts: the overflow first.  With no timer registered it returns,
\* and is entered again.
Enter ==
    /\ isr.pc = "off" /\ Pending /\ fault = "none" /\ obj_all # NULL
    /\ \/ /\ obj_all \notin alive
          /\ fault' = "dead" /\ UNCHANGED <<ftm, isr>>
       \/ /\ obj_all \in alive /\ UNCHANGED fault
          /\ IF ftm.toie /\ ftm.tof
             THEN Answer([ftm EXCEPT !.tof = FALSE])
             ELSE Onward(FALSE) /\ UNCHANGED ftm
    /\ UNCHANGED <<objects, id, alive, obj_all, main, raced>>

HandleChannel ==
    LET n == id[isr.c].channel IN
    /\ isr.pc = "walk" /\ isr.c # NULL
    /\ IF n \in ftm.chie \cap ftm.chf
       THEN Answer([ftm EXCEPT !.chf = @ \ {n}])
       ELSE Onward(FALSE) /\ UNCHANGED ftm
    /\ UNCHANGED <<objects, id, alive, obj_all, main, raced, fault>>

\* What a callback does before it returns.
CallbackRuns ==
    /\ isr.pc = "run"
    /\ \/ UNCHANGED raced /\ \E y \in alive : CallbackNone(ftm, y)
       \/ UNCHANGED raced /\ \E y \in alive :
             /\ ftm' = Started(ftm, y) /\ cb' = cb \cup {y}
             /\ silent' = silent \ {y} /\ UNCHANGED lists
       \/ UNCHANGED raced /\ \E t \in alive \cap Timers : Deinit(ftm, t)
       \/ \E t \in alive \cap Timers : \E c \in List(t) :
             /\ FirstOf(t, c) /\ Replace(ftm, t, c)
             /\ raced' = (raced \/ (main.pc = "search" /\ main.x = t))
       \/ /\ ftm' = [ftm EXCEPT !.clks = TRUE, !.toie = FALSE]
          /\ UNCHANGED <<objects, raced>>
    /\ UNCHANGED <<id, alive, obj_all, main, isr, fault>>

\* It returns, or raises an exception, which clears the callback of the timer
\* also when it is a channel's.
CallbackEnds ==
    /\ isr.pc = "run"
    /\ \/ Onward(TRUE) /\ UNCHANGED <<ftm, cb, silent>>
       \/ /\ ftm' = Disabled(ftm, Handled) /\ Onward(FALSE)
          /\ cb' = cb \ {obj_all} /\ silent' = silent \cup {obj_all}
    /\ UNCHANGED <<lists, id, alive, obj_all, main, raced, fault>>

\* Faulty variant: the channels nobody has asked for keep interrupting.
HandleRest_Not ==
    /\ isr.pc = "walk" /\ isr.c = NULL /\ isr' = Off
    /\ UNCHANGED <<ftm, objects, id, alive, obj_all, main, raced, fault>>

\* Channels with a flag but not in the list are turned off.
HandleRest ==
    /\ isr.pc = "walk" /\ isr.c = NULL /\ isr' = Off
    /\ LET rest == IF isr.handled THEN {} ELSE ftm.chf \ isr.processed
       IN ftm' = [ftm EXCEPT !.chf = @ \ rest, !.chie = @ \ rest]
    /\ UNCHANGED <<objects, id, alive, obj_all, main, raced, fault>>

Handler == Enter \/ HandleChannel \/ CallbackEnds \/ HandleRest

Next == Program \/ Event \/ Handler \/ CallbackRuns

Spec == Init /\ [][Next]_vars /\ WF_vars(Handler)

----------------------------------------------------------------------------
(* Type invariant.  The list of a timer ends and holds existing channels   *)
(* of this timer only, also while the program and the handler's callbacks  *)
(* change it in turns.                                                     *)
TimerTypeOK ==
    /\ alive \subseteq Timers \cup Chans /\ cb \subseteq Timers \cup Chans
    /\ ftm.chie \cup ftm.chf \subseteq Numbers
    /\ \A t \in Timers \cap alive :
          /\ List(t) \subseteq alive
          /\ \A c \in List(t) : id[c].timer = t /\ c \notin From(next[c])

(* A number is in the list once: channel() leaves no earlier channel of    *)
(* its number behind, whose callback the handler would still find.  The    *)
(* one exception is a callback that has called channel() while the program *)
(* was in the search of its own (line 454): it cuts the pointer the search *)
(* is about to follow, and the earlier channel is missed.                  *)
NumbersOnce == raced \/ EachOnce

(* What was told to stop stays silent: an object whose callback was set to *)
(* None, and a channel that deinit or channel() has found in the list, has *)
(* no callback that the handler could still reach, although callbacks can  *)
(* run the same methods in the middle of the program's own, and line 522   *)
(* may link again what they have unlinked.  A channel that deinit does not *)
(* find in the list is not told to stop, whatever the comment of deinit    *)
(* says of any channel.                                                    *)
StoppedIsSilent ==
    \A t \in Timers \cap alive : silent \cap cb \cap ({t} \cup List(t)) = {}

(* The program goes on: the handler silences every interrupt it has no     *)
(* callback for, so unless the timer itself keeps interrupting, there is   *)
(* again and again a moment without a pending interrupt.  Exempt is a      *)
(* timer that interrupts before make_new has registered it.                *)
ProgramGoesOn ==
    \/ []<><<Event>>_vars
    \/ []<>(\/ isr.pc = "off" /\ (~Pending \/ obj_all = NULL)
            \/ fault # "none")
=============================================================================
