---------------------------- MODULE TimerProofs ----------------------------
(***************************************************************************)
(* Proofs about Timer, for any number of Timer and TimerChannel objects    *)
(* and of channels of the chip: the lists stay lists, a number is in one   *)
(* only once but for a race, and what is stopped is silent.                *)
(***************************************************************************)
EXTENDS Timer, TLAPS

-----------------------------------------------------------------------------
(* Chains. *)

Nexts == [Chans -> Chans \cup {NULL}]

LEMMA ChainLeast ==
  ASSUME NEW nx, NEW c, NEW S \in SUBSET Chans, c \in S \cup {NULL}, Closed(nx, S)
  PROVE  Chain(nx, c) \subseteq S
BY DEF Chain

LEMMA ChainClosed ==
  ASSUME NEW nx \in Nexts, NEW c
  PROVE  Chain(nx, c) \subseteq Chans /\ Closed(nx, Chain(nx, c))
<1>1. ASSUME NEW d \in Chain(nx, c), nx[d] # NULL
      PROVE  nx[d] \in Chain(nx, c)
  <2>1. d \in Chans /\ nx[d] \in Chans
    BY <1>1 DEF Chain, Nexts
  <2>2. ASSUME NEW S \in SUBSET Chans, c \in S \cup {NULL}, Closed(nx, S)
        PROVE  nx[d] \in S
    <3>1. d \in S
      BY <2>2, <1>1 DEF Chain
    <3> QED BY <3>1, <2>2, <1>1 DEF Closed
  <2> QED BY <2>1, <2>2 DEF Chain
<1> QED BY <1>1 DEF Closed, Chain

LEMMA ChainOfNull == ASSUME NEW nx PROVE Chain(nx, NULL) = {}
<1>1. {} \in SUBSET Chans /\ Closed(nx, {})
  BY DEF Closed
<1> QED BY <1>1, ChainLeast

LEMMA ChainStep ==
  ASSUME NEW nx \in Nexts, NEW c \in Chans
  PROVE  Chain(nx, c) = {c} \cup Chain(nx, nx[c])
<1>1. c \in Chain(nx, c)
  BY TimerAssumption DEF Chain, TimerAssumption
<1>2. Chain(nx, nx[c]) \subseteq Chain(nx, c)
  <2>1. nx[c] \in Chain(nx, c) \cup {NULL}
    BY <1>1, ChainClosed DEF Closed
  <2> QED BY <2>1, ChainClosed, ChainLeast
<1>3. Chain(nx, c) \subseteq {c} \cup Chain(nx, nx[c])
  <2> DEFINE T == {c} \cup Chain(nx, nx[c])
  <2>1. T \in SUBSET Chans
    BY ChainClosed
  <2>2. nx[c] \in T \cup {NULL}
    <3>1. nx[c] \in Chans \cup {NULL}
      BY DEF Nexts
    <3>2. nx[c] \in Chans => nx[c] \in Chain(nx, nx[c])
      BY TimerAssumption DEF Chain, TimerAssumption
    <3> QED BY <3>1, <3>2
  <2>3. Closed(nx, T)
    BY <2>2, ChainClosed DEF Closed
  <2> QED BY <2>1, <2>3, ChainLeast
<1> QED BY <1>1, <1>2, <1>3

\* The chain of a member of a chain is part of it.
LEMMA ChainPart ==
  ASSUME NEW nx \in Nexts, NEW c, NEW d \in Chain(nx, c) \cup {NULL}
  PROVE  Chain(nx, d) \subseteq Chain(nx, c)
BY ChainClosed, ChainLeast, ChainOfNull

\* Of two members of a chain, one comes behind the other.
LEMMA ChainOrdered ==
  ASSUME NEW nx \in Nexts, NEW a \in Chans \cup {NULL},
         NEW c \in Chain(nx, a), NEW d \in Chain(nx, a)
  PROVE  c = d \/ d \in Chain(nx, nx[c]) \/ c \in Chain(nx, nx[d])
<1> DEFINE C == Chain(nx, a)
           Behind(e, f) == f \in Chain(nx, nx[e])
           S == {e \in C : \A f \in C : e = f \/ Behind(e, f) \/ Behind(f, e)}
<1>1. C \subseteq Chans /\ Closed(nx, C)
  BY ChainClosed
<1>2. a \in S \cup {NULL}
  <2>1. CASE a \in Chans
    <3>1. C = {a} \cup Chain(nx, nx[a])
      BY <2>1, ChainStep
    <3> QED BY <3>1
  <2>2. CASE a = NULL
    BY <2>2
  <2> QED BY <2>1, <2>2
<1>3. Closed(nx, S)
  <2> SUFFICES ASSUME NEW e \in S, nx[e] # NULL PROVE nx[e] \in S
    BY DEF Closed
  <2>1. e \in Chans /\ nx[e] \in C
    BY <1>1 DEF Closed
  <2> DEFINE g == nx[e]
  <2> HIDE DEF g
  <2>2. g \in Chans /\ g \in C
    BY <2>1, <1>1 DEF g
  <2>3. Chain(nx, g) = {g} \cup Chain(nx, nx[g])
    BY <2>2, ChainStep
  <2>4. ASSUME NEW f \in C PROVE g = f \/ Behind(g, f) \/ Behind(f, g)
    <3>1. e = f \/ Behind(e, f) \/ Behind(f, e)
      OBVIOUS
    <3>2. CASE e = f
      BY <3>2, <2>3 DEF g
    <3>3. CASE Behind(e, f)
      BY <3>3, <2>3 DEF g
    <3>4. CASE Behind(f, e)
      BY <3>4, <2>2, ChainClosed, TimerAssumption DEF g, Closed, TimerAssumption
    <3> QED BY <3>1, <3>2, <3>3, <3>4
  <2> QED BY <2>2, <2>4 DEF g
<1> QED BY <1>1, <1>2, <1>3, ChainLeast

-----------------------------------------------------------------------------
(* How chains change. *)

\* Pointers are cut, or moved on along their chain.
Shrinks(nx, ny) == \A d \in Chans : ny[d] \in Chain(nx, nx[d]) \cup {NULL}

LEMMA ChainShrinks ==
  ASSUME NEW nx \in Nexts, NEW ny, Shrinks(nx, ny), NEW c \in Chans \cup {NULL}
  PROVE  Chain(ny, c) \subseteq Chain(nx, c)
<1> DEFINE S == Chain(nx, c)
<1>1. S \in SUBSET Chans /\ Closed(nx, S)
  BY ChainClosed
<1>2. c \in S \cup {NULL}
  BY ChainStep
<1>3. ASSUME NEW d \in S PROVE ny[d] \in S \cup {NULL}
  <2>1. nx[d] \in S \cup {NULL}
    BY <1>1 DEF Closed
  <2>2. Chain(nx, nx[d]) \subseteq S
    BY <2>1, ChainPart
  <2> QED BY <2>2, <1>1 DEF Shrinks
<1>4. Closed(ny, S)
  BY <1>3 DEF Closed
<1> QED BY <1>1, <1>2, <1>4, ChainLeast

\* The pointer of b is set to e.
LEMMA ChainGrows ==
  ASSUME NEW nx \in Nexts, NEW b \in Chans, NEW e \in Chans \cup {NULL},
         NEW c \in Chans \cup {NULL}
  PROVE  LET ny == [nx EXCEPT ![b] = e] IN
         /\ Chain(ny, c) \subseteq Chain(nx, c) \cup Chain(nx, e)
         /\ b \notin Chain(nx, c) => Chain(ny, c) \subseteq Chain(nx, c)
<1> DEFINE ny == [nx EXCEPT ![b] = e]
           C == Chain(nx, c)
           E == Chain(nx, e)
<1>1. /\ C \in SUBSET Chans /\ Closed(nx, C) /\ c \in C \cup {NULL}
      /\ E \in SUBSET Chans /\ Closed(nx, E) /\ e \in E \cup {NULL}
  BY ChainClosed, ChainStep
<1>2. \A d \in Chans : ny[d] = IF d = b THEN e ELSE nx[d]
  BY DEF Nexts
<1> HIDE DEF ny, C, E
<1>3. Closed(ny, C \cup E)
  BY <1>1, <1>2 DEF Closed
<1>4. b \notin C => Closed(ny, C)
  BY <1>1, <1>2 DEF Closed
<1>5. Chain(ny, c) \subseteq C \cup E
  BY <1>1, <1>3, ChainLeast
<1>6. b \notin C => Chain(ny, c) \subseteq C
  BY <1>1, <1>4, ChainLeast
<1> QED BY <1>5, <1>6 DEF ny, C, E

-----------------------------------------------------------------------------
(* The inductive invariant. *)

Pcs == {"idle", "base_init", "set", "start", "publish", "search", "unlink_prev",
        "unlink", "alloc", "link", "config", "deinit", "each"}

Registers == [clks : BOOLEAN, toie : BOOLEAN, tof : BOOLEAN,
              chie : SUBSET Numbers, chf : SUBSET Numbers, nvic : BOOLEAN]

Mains == [pc : Pcs, x : Timers \cup Chans \cup {NULL}, c : Chans \cup {NULL},
          prev : Chans \cup {NULL}, n : Numbers \cup {NULL},
          new : BOOLEAN]

Shape ==
    /\ ftm \in Registers
    /\ cb \subseteq Timers \cup Chans /\ alive \subseteq Timers \cup Chans
    /\ first \in [Timers -> Chans \cup {NULL}] /\ next \in Nexts
    /\ main \in Mains

\* Channels that exist have a timer that exists, and a number.
Owned ==
    /\ id \in [Chans -> [timer : Timers \cup {NULL}, channel : Numbers \cup {NULL}]]
    /\ \A c \in Chans \cap alive : id[c] \in [timer : Timers \cap alive, channel : Numbers]

\* Pointers lead to channels that exist, of the same timer, and no pointer leads
\* back.
Links ==
    /\ \A t \in Timers : first[t] # NULL =>
          first[t] \in Chans \cap alive /\ id[first[t]].timer = t
    /\ \A c \in Chans : next[c] # NULL =>
          next[c] \in Chans \cap alive /\ id[next[c]].timer = id[c].timer
    /\ \A c \in Chans : c \notin From(next[c])
    /\ \A c \in Chans \ alive : next[c] = NULL

Linking == {"search", "unlink_prev", "unlink", "link"}

\* What the operation of the program knows at each step, whatever callbacks
\* have done to the lists since it looked.
MainOK ==
    /\ main.pc \in {"base_init", "set", "start", "publish"} => main.x \in alive
    /\ main.pc \in {"base_init", "publish"} \/ main.new => main.x \in Timers
    /\ main.pc \in Linking \cup {"alloc", "config", "deinit", "each"}
          => main.x \in Timers \cap alive
    /\ main.pc \in Linking \cup {"alloc", "config"} => main.n \in Numbers
    /\ main.pc \in Linking => main.c \in Chans \cap alive /\ id[main.c].timer = main.x
    /\ main.pc \in {"unlink_prev", "unlink", "link"} => id[main.c].channel = main.n
    /\ main.pc \in {"deinit", "each"} => main.c \in (Chans \cap alive) \cup {NULL}

\* From the search until a channel is taken out from behind prev: what is behind
\* the channel does not lead to prev, nor to anything that does.
PrevOK ==
    /\ main.pc = "unlink_prev" => main.prev # NULL
    /\ main.pc \in {"search", "unlink_prev"} /\ main.prev # NULL =>
         /\ main.prev \in Chans \cap alive /\ id[main.prev].timer = main.x
         /\ \A d \in Chans : main.prev \in From(d) => d \notin From(next[main.c])

\* Stopped objects that still have a callback are in no list, and what the
\* program is about to link does not lead to one.
Quiet ==
    /\ silent \cap cb \cap Timers = {}
    /\ \A t \in Timers : silent \cap cb \cap List(t) = {}
    /\ main.pc \in Linking => silent \cap cb \cap From(main.c) = {}

TInv == Shape /\ Owned /\ Links /\ MainOK /\ PrevOK /\ Quiet

-----------------------------------------------------------------------------
(* The chains of a state with the invariant. *)

LEMMA ChainAlive ==
  ASSUME Shape, Links
  PROVE  /\ \A c \in Chans : From(next[c]) \subseteq
                               {d \in Chans \cap alive : id[d].timer = id[c].timer}
         /\ \A t \in Timers : List(t) \subseteq
                               {d \in Chans \cap alive : id[d].timer = t}
<1>1. ASSUME NEW t, NEW c \in Chans \cup {NULL},
             c # NULL => c \in Chans \cap alive /\ id[c].timer = t
      PROVE  From(c) \subseteq {d \in Chans \cap alive : id[d].timer = t}
  <2> DEFINE S == {d \in Chans \cap alive : id[d].timer = t}
  <2>1. S \in SUBSET Chans /\ c \in S \cup {NULL}
    BY <1>1
  <2>2. Closed(next, S)
    BY DEF Closed, Links
  <2> HIDE DEF S
  <2>3. Chain(next, c) \subseteq S
    BY <2>1, <2>2, ChainLeast
  <2> QED BY <2>3 DEF S, From
<1>2. \A c \in Chans : next[c] \in Chans \cup {NULL}
  BY DEF Shape, Nexts
<1>3. \A t \in Timers : first[t] \in Chans \cup {NULL}
  BY DEF Shape
<1>4. \A c \in Chans : From(next[c]) \subseteq
                         {d \in Chans \cap alive : id[d].timer = id[c].timer}
  BY <1>1, <1>2 DEF Links
<1>5. \A t \in Timers : From(first[t]) \subseteq
                          {d \in Chans \cap alive : id[d].timer = t}
  BY <1>1, <1>3 DEF Links
<1> QED BY <1>4, <1>5 DEF List

\* The list is as TimerTypeOK has it.
LEMMA ListsOK == ASSUME TInv PROVE TimerTypeOK
<1>0. Shape /\ Links
  BY DEF TInv
<1>1. next \in Nexts /\ \A t \in Timers : first[t] \in Chans \cup {NULL}
  BY <1>0 DEF Shape
<1>3. ASSUME NEW t \in Timers, NEW c \in List(t)
      PROVE  c \in alive /\ id[c].timer = t /\ c \notin From(next[c])
  BY <1>0, ChainAlive DEF Links
<1>4. ftm.chie \cup ftm.chf \subseteq Numbers
  BY <1>0 DEF Shape, Registers
<1> QED BY <1>0, <1>3, <1>4 DEF TimerTypeOK, Shape

LEMMA ListsSilent == ASSUME TInv PROVE StoppedIsSilent
BY DEF TInv, Quiet, StoppedIsSilent

-----------------------------------------------------------------------------
(* What a callback does, whatever the program is at: the chains get        *)
(* shorter, and no stopped object gets a callback.                         *)
NoneRevived == \A o \in silent' : o \in cb' => o \in silent /\ o \in cb

USE DEF NoneRevived

Disturbs ==
    /\ UNCHANGED <<main, id, alive>>
    /\ Shrinks(next, next')
    /\ \A t \in Timers : first'[t] \in From(first[t]) \cup {NULL}
    /\ NoneRevived

LEMMA Shortened ==
  ASSUME Shape, Shrinks(next, next'),
         \A t \in Timers : first'[t] \in From(first[t]) \cup {NULL}
  PROVE  /\ \A c \in Chans \cup {NULL} : From(c)' \subseteq From(c)
         /\ \A c \in Chans : From(next[c])' \subseteq From(next[c])
         /\ \A t \in Timers : List(t)' \subseteq List(t)
<1>1. next \in Nexts /\ \A t \in Timers : first[t] \in Chans \cup {NULL}
  BY DEF Shape
<1>2. \A c \in Chans \cup {NULL} : Chain(next', c) \subseteq Chain(next, c)
  BY <1>1, ChainShrinks
<1>3. ASSUME NEW a \in Chans \cup {NULL}, NEW b \in Chain(next, a) \cup {NULL}
      PROVE  Chain(next', b) \subseteq Chain(next, a)
  <2>1. b \in Chans \cup {NULL}
    BY <1>1, ChainClosed
  <2> QED BY <2>1, <1>1, <1>2, ChainPart
<1>4. \A c \in Chans : Chain(next', next'[c]) \subseteq Chain(next, next[c])
  BY <1>1, <1>3 DEF Shrinks, Nexts
<1>5. \A t \in Timers : Chain(next', first'[t]) \subseteq Chain(next, first[t])
  BY <1>1, <1>3 DEF From
<1> QED BY <1>2, <1>4, <1>5 DEF From, List

LEMMA DisturbsKeeps == ASSUME TInv, Disturbs, Shape' PROVE TInv'
<1>0. Shape /\ Owned /\ Links /\ MainOK /\ PrevOK /\ Quiet
  BY DEF TInv
<1>1. /\ \A c \in Chans \cup {NULL} : From(c)' \subseteq From(c)
      /\ \A c \in Chans : From(next[c])' \subseteq From(next[c])
      /\ \A t \in Timers : List(t)' \subseteq List(t)
  BY <1>0, Shortened DEF Disturbs
<1>2. main' = main /\ id' = id /\ alive' = alive
  BY DEF Disturbs
<1>3. Links'
  <2>1. \A t \in Timers : List(t) \subseteq {d \in Chans \cap alive : id[d].timer = t}
    BY <1>0, ChainAlive
  <2>2. \A c \in Chans : From(next[c]) \subseteq
                           {d \in Chans \cap alive : id[d].timer = id[c].timer}
    BY <1>0, ChainAlive
  <2>3. \A t \in Timers : first'[t] \in List(t) \cup {NULL}
    BY DEF Disturbs, List
  <2>4. \A c \in Chans : next'[c] \in From(next[c]) \cup {NULL}
    BY DEF Disturbs, Shrinks, From
  <2>5. \A c \in Chans \ alive : next'[c] = NULL
    <3>1. From(NULL) = {}
      BY ChainOfNull DEF From
    <3> QED BY <3>1, <2>4, <1>0 DEF Links
  <2>6. \A c \in Chans : c \notin From(next[c])'
    BY <1>0, <1>1 DEF Links
  <2>7. \A t \in Timers : first'[t] # NULL =>
          first'[t] \in Chans \cap alive /\ id[first'[t]].timer = t
    BY <2>1, <2>3
  <2>8. \A c \in Chans : next'[c] # NULL =>
          next'[c] \in Chans \cap alive /\ id[next'[c]].timer = id[c].timer
    BY <2>2, <2>4
  <2> QED BY <2>5, <2>6, <2>7, <2>8, <1>2 DEF Links
<1>4. Owned' /\ MainOK'
  BY <1>0, <1>2 DEF Owned, MainOK
<1>5. PrevOK'
  BY <1>0, <1>1, <1>2 DEF PrevOK, MainOK, Linking
<1>6. Quiet'
  <2>1. NoneRevived
    BY DEF Disturbs
  <2>2. main.pc \in Linking => From(main.c)' \subseteq From(main.c)
    <3>1. main.pc \in Linking => main.c \in Chans
      BY <1>0 DEF MainOK
    <3> DEFINE m == main.c
    <3>2. m' = m
      BY <1>2
    <3> HIDE DEF m
    <3>3. m \in Chans => From(m)' \subseteq From(m)
      BY <1>1, <3>2 DEF From
    <3> QED BY <3>1, <3>3 DEF m
  <2> QED BY <1>0, <1>1, <1>2, <2>1, <2>2 DEF Quiet
<1> QED BY <1>3, <1>4, <1>5, <1>6 DEF TInv


-----------------------------------------------------------------------------
(* The handler and its callbacks. *)

LEMMA DisabledOK ==
  ASSUME Shape, NEW f \in Registers,
         NEW x
  PROVE  Disabled(f, x) \in Registers
BY DEF Disabled, Registers

LEMMA StartedOK ==
  ASSUME Shape, Owned, NEW x \in alive
  PROVE  Started(ftm, x) \in Registers
<1>1. CASE x \in Timers
  BY <1>1 DEF Started, Shape, Registers
<1>2. CASE x \notin Timers
  <2>1. id[x].channel \in Numbers
    BY <1>2 DEF Shape, Owned
  <2> QED BY <1>2, <2>1 DEF Started, Shape, Registers
<1> QED BY <1>1, <1>2

\* Pointers that stay are shrunk.
LEMMA SameShrinks ==
  ASSUME Shape, UNCHANGED lists
  PROVE  /\ Shrinks(next, next')
         /\ \A t \in Timers : first'[t] \in From(first[t]) \cup {NULL}
<1>1. \A c \in Chans \cup {NULL} : c \in Chain(next, c) \cup {NULL}
  BY ChainStep DEF Shape
<1> QED BY <1>1 DEF Shape, Nexts, Shrinks, From, lists

\* A step that touches registers and callbacks only.
LEMMA SameLists ==
  ASSUME TInv, UNCHANGED <<main, id, alive, first, next>>, cb' \subseteq Timers \cup Chans,
         ftm' \in Registers,
         NoneRevived
  PROVE  TInv'
<1>1. Disturbs
  BY SameShrinks DEF Disturbs, TInv, lists
<1>2. Shape'
  BY DEF TInv, Shape
<1> QED BY <1>1, <1>2, DisturbsKeeps

LEMMA EventKeeps == ASSUME TInv, Event PROVE TInv'
<1>1. ftm' \in Registers
  <2>1. ftm \in Registers
    BY DEF TInv, Shape
  <2>2. [ftm EXCEPT !.tof = TRUE] \in Registers
    BY <2>1 DEF Registers
  <2>3. ASSUME NEW n \in Numbers PROVE [ftm EXCEPT !.chf = @ \cup {n}] \in Registers
    BY <2>1 DEF Registers
  <2> QED BY <2>2, <2>3 DEF Event
<1> QED BY <1>1, SameLists DEF Event, objects, TInv, Shape

LEMMA HandlerKeeps == ASSUME TInv, Handler PROVE TInv'
<1> USE DEF objects, lists
<1>0. Shape
  BY DEF TInv
<1>2. ASSUME NEW f, f \in Registers,
             Answer(f)
      PROVE  ftm' \in Registers
  BY <1>2, <1>0, DisabledOK DEF Answer
<1>3. CASE Enter
  <2>1. [ftm EXCEPT !.tof = FALSE] \in Registers
    BY <1>0 DEF Shape, Registers
  <2>2. ftm' \in Registers
    BY <1>3, <1>0, <1>2, <2>1 DEF Enter, Shape, Registers
  <2> QED BY <1>3, <1>0, <2>2, SameLists DEF Enter, Shape
<1>4. CASE HandleChannel
  <2>1. \A n : [ftm EXCEPT !.chf = @ \ {n}] \in Registers
    BY <1>0 DEF Shape, Registers
  <2>2. ftm' \in Registers
    BY <1>4, <1>0, <1>2, <2>1 DEF HandleChannel, Shape, Registers
  <2> QED BY <1>4, <1>0, <2>2, SameLists DEF HandleChannel, Shape
<1>5. CASE CallbackEnds
  <2>1. ftm' \in Registers
    <3>1. ftm \in Registers
      BY <1>0 DEF Shape
    <3> QED BY <1>5, <1>0, <3>1, DisabledOK DEF CallbackEnds
  <2> QED BY <1>5, <1>0, <2>1, SameLists DEF CallbackEnds, Shape
<1>6. CASE HandleRest
  <2>1. ftm' \in Registers
    BY <1>6, <1>0 DEF HandleRest, Shape, Registers
  <2> QED BY <1>6, <1>0, <2>1, SameLists DEF HandleRest, Shape
<1> QED BY <1>3, <1>4, <1>5, <1>6 DEF Handler

LEMMA DeinitDisturbs ==
  ASSUME TInv, NEW t \in Timers \cap alive, Deinit(ftm, t), UNCHANGED <<main, id, alive>>
  PROVE  Disturbs /\ Shape'
<1>0. Shape /\ Links
  BY DEF TInv
<1>1. \A c \in Chans : next'[c] = NULL \/ next'[c] = next[c]
  BY DEF Deinit
<1>2. \A d \in Timers : first'[d] = NULL \/ first'[d] = first[d]
  BY <1>0 DEF Deinit, Shape
<1>3. \A c \in Chans \cup {NULL} : c \in Chain(next, c) \cup {NULL}
  BY <1>0, ChainStep DEF Shape
<1>4. Shrinks(next, next') /\ \A d \in Timers : first'[d] \in From(first[d]) \cup {NULL}
  BY <1>0, <1>1, <1>2, <1>3 DEF Shrinks, From, Shape, Nexts
<1>5. Shape'
  <2>1. next' \in Nexts /\ first' \in [Timers -> Chans \cup {NULL}]
    BY <1>0 DEF Deinit, Shape, Nexts
  <2>2. ftm' \in Registers
    BY <1>0 DEF Deinit, Shape, Registers
  <2>3. cb' \subseteq Timers \cup Chans
    BY <1>0 DEF Deinit, Shape
  <2> QED BY <1>0, <2>1, <2>2, <2>3 DEF Shape
<1>6. NoneRevived
  BY DEF Deinit
<1> QED BY <1>4, <1>5, <1>6 DEF Disturbs

LEMMA ReplaceDisturbs ==
  ASSUME TInv, NEW t \in Timers \cap alive, NEW c \in List(t), Replace(ftm, t, c),
         UNCHANGED <<main, id, alive>>
  PROVE  Disturbs /\ Shape'
<1>0. Shape /\ Links
  BY DEF TInv
<1>1. c \in Chans
  BY <1>0, ChainAlive
<1>2. \A d \in Chans \cup {NULL} : d \in Chain(next, d) \cup {NULL}
  BY <1>0, ChainStep DEF Shape
<1>3. \A a \in Chans \cup {NULL} : \A d \in Chain(next, a) : next[d] \in Chain(next, a) \cup {NULL}
  BY <1>0, ChainClosed DEF Shape, Closed
<1>4. Shrinks(next, next')
  <2> SUFFICES ASSUME NEW d \in Chans PROVE next'[d] \in Chain(next, next[d]) \cup {NULL}
    BY DEF Shrinks
  <2>1. next[d] \in Chans \cup {NULL}
    BY <1>0 DEF Shape, Nexts
  <2>2. CASE next'[d] = NULL \/ next'[d] = next[d]
    BY <2>1, <2>2, <1>2
  <2>3. CASE next[d] = c /\ next'[d] = next[c]
    <3>1. c \in Chain(next, next[d])
      BY <2>3, <1>1, <1>2, TimerAssumption DEF TimerAssumption
    <3> QED BY <2>1, <2>3, <3>1, <1>3
  <2> QED BY <2>2, <2>3 DEF Replace
<1>5. \A d \in Timers : first'[d] \in From(first[d]) \cup {NULL}
  <2> SUFFICES ASSUME NEW d \in Timers PROVE first'[d] \in Chain(next, first[d]) \cup {NULL}
    BY DEF From
  <2>1. first[d] \in Chans \cup {NULL}
    BY <1>0 DEF Shape
  <2>2. CASE d # t
    <3>1. first'[d] = first[d]
      BY <2>2, <1>0 DEF Replace, Shape
    <3> QED BY <2>1, <3>1, <1>2
  <2>3. CASE d = t
    <3>1. first'[d] = next[c]
      BY <2>3, <1>0 DEF Replace, Shape
    <3>2. c \in Chain(next, first[d])
      BY <2>3 DEF List, From
    <3> QED BY <2>1, <3>1, <3>2, <1>3
  <2> QED BY <2>2, <2>3
<1>6. Shape'
  <2>1. next' \in Nexts /\ first' \in [Timers -> Chans \cup {NULL}]
    BY <1>0, <1>1 DEF Replace, Shape, Nexts
  <2>2. ftm' \in Registers
    BY <1>0, DisabledOK DEF Replace, Shape, Registers
  <2>3. cb' \subseteq Timers \cup Chans
    BY <1>0 DEF Replace, Shape
  <2> QED BY <1>0, <2>1, <2>2, <2>3 DEF Shape
<1>7. NoneRevived
  BY DEF Replace
<1> QED BY <1>4, <1>5, <1>6, <1>7 DEF Disturbs

LEMMA CallbackRunsKeeps == ASSUME TInv, CallbackRuns PROVE TInv'
<1> USE DEF objects, lists
<1>0. Shape /\ Owned
  BY DEF TInv
<1>1. UNCHANGED <<main, id, alive>>
  BY DEF CallbackRuns
<1>2. CASE \E y \in alive : CallbackNone(ftm, y)
  <2>1. ftm' \in Registers
    BY <1>2, <1>0, DisabledOK DEF CallbackNone, Shape, Registers
  <2> QED BY <1>0, <1>1, <1>2, <2>1, SameLists DEF CallbackNone, Shape
<1>3. CASE \E y \in alive : /\ ftm' = Started(ftm, y) /\ cb' = cb \cup {y}
                            /\ silent' = silent \ {y} /\ UNCHANGED lists
  <2>1. PICK y \in alive : /\ ftm' = Started(ftm, y) /\ cb' = cb \cup {y}
                           /\ silent' = silent \ {y} /\ UNCHANGED lists
    BY <1>3
  <2>2. ftm' \in Registers
    BY <2>1, <1>0, StartedOK
  <2> QED BY <1>0, <1>1, <2>1, <2>2, SameLists DEF Shape
<1>4. CASE \E t \in alive \cap Timers : Deinit(ftm, t)
  BY <1>1, <1>4, DeinitDisturbs, DisturbsKeeps
<1>5. CASE \E t \in alive \cap Timers : \E c \in List(t) : Replace(ftm, t, c)
  BY <1>1, <1>5, ReplaceDisturbs, DisturbsKeeps
<1>6. CASE ftm' = [ftm EXCEPT !.clks = TRUE, !.toie = FALSE] /\ UNCHANGED objects
  <2>1. ftm' \in Registers
    BY <1>6, <1>0 DEF Shape, Registers
  <2> QED BY <1>0, <1>1, <1>6, <2>1, SameLists DEF Shape
<1> QED BY <1>2, <1>3, <1>4, <1>5, <1>6 DEF CallbackRuns


-----------------------------------------------------------------------------
(* The program. *)

LEMMA IdleOK == Idle \in Mains /\ Idle.pc = "idle" /\ ~Idle.new
BY DEF Idle, Mains, Pcs

\* A step of the program that leaves the lists alone, to where no channel is
\* being linked.
LEMMA ListsAlone ==
  ASSUME TInv, UNCHANGED <<first, next, id, alive>>, Shape', MainOK',
         NoneRevived,
         main'.pc \notin Linking \cup {"alloc"}
  PROVE  TInv'
<1>1. Owned' /\ Links'
  BY DEF TInv, Owned, Links, From
<1>2. PrevOK' /\ Quiet'
  BY DEF TInv, PrevOK, Quiet, Linking, From, List
<1> QED BY <1>1, <1>2 DEF TInv

\* MakeNew, with its timer not in use before.
LEMMA MakeNewKeeps == ASSUME TInv, NEW t \in Timers, MakeNew(t) PROVE TInv'
<1>0. Shape /\ Owned /\ Links /\ Quiet
  BY DEF TInv
<1>1. /\ t \notin alive /\ alive' = alive \cup {t} /\ next' = next /\ id' = id /\ ftm' = ftm
      /\ cb' = cb \ {t} /\ silent' = silent \cup {t} /\ first' = [first EXCEPT ![t] = NULL]
  BY DEF MakeNew
<1>2. /\ main' \in Mains /\ main'.pc \in {"base_init", "publish"} /\ main'.x = t
  BY IdleOK DEF MakeNew, Idle, Mains, Pcs
<1>3. Shape'
  BY <1>0, <1>1, <1>2 DEF Shape
<1>4. Chans \cap alive' = Chans \cap alive /\ Chans \ alive' = Chans \ alive
  BY <1>1, TimerAssumption DEF TimerAssumption
<1>5. Owned'
  BY <1>0, <1>1, <1>4 DEF Owned
<1>6. \A d \in Timers : first'[d] = NULL \/ first'[d] = first[d]
  BY <1>0, <1>1 DEF Shape
<1>7. Links'
  BY <1>0, <1>1, <1>4, <1>6 DEF Links, From
<1>8. MainOK' /\ PrevOK'
  BY <1>1, <1>2 DEF MainOK, PrevOK, Linking
<1>9. Quiet'
  <2>1. \A d \in Timers : List(d)' \subseteq List(d)
    BY <1>1, <1>6, ChainOfNull DEF List, From
  <2> QED BY <2>1, <1>0, <1>1, <1>2 DEF Quiet, Linking
<1> QED BY <1>3, <1>5, <1>7, <1>8, <1>9 DEF TInv

LEMMA InitKeeps ==
  ASSUME TInv,
         (\E t \in Timers : InitAgain(t)) \/ InitNew \/ SetCallback \/ StartIT \/ Publish
  PROVE  TInv'
<1> USE DEF objects, lists
<1>0. Shape /\ Owned /\ MainOK /\ main \in Mains /\ ftm \in Registers
  BY DEF TInv, Shape
<1>1. ASSUME NEW x \in Timers \cap alive, NEW new \in BOOLEAN, InitHelper(x, new)
      PROVE  TInv'
  <2>1. /\ main' \in Mains /\ main'.pc \in {"set", "publish", "idle"}
        /\ main'.pc \in {"set", "publish"} => main'.x = x
        /\ main'.new => main'.x = x
    <3>1. CASE Done(x, new)
      <4>1. CASE new
        BY <3>1, <4>1 DEF Done, Idle, Mains, Pcs
      <4>2. CASE ~new
        BY <3>1, <4>2, IdleOK DEF Done
      <4> QED BY <4>1, <4>2
    <3>2. CASE main' = [Idle EXCEPT !.pc = "set", !.x = x, !.new = new]
      BY <3>2 DEF Idle, Mains, Pcs
    <3> QED BY <1>1, <3>1, <3>2 DEF InitHelper
  <2>2. ftm' \in Registers
    BY <1>0, <1>1 DEF InitHelper, Registers
  <2>3. Shape'
    BY <1>0, <1>1, <2>1, <2>2 DEF InitHelper, Shape
  <2>4. MainOK'
    BY <1>1, <2>1 DEF InitHelper, MainOK, Linking
  <2> QED BY <1>1, <2>1, <2>3, <2>4, ListsAlone DEF InitHelper, Linking
<1>2. CASE \E t \in Timers : InitAgain(t)
  BY <1>1, <1>2 DEF InitAgain
<1>3. CASE InitNew
  BY <1>0, <1>1, <1>3 DEF InitNew, At, MainOK
<1>4. ASSUME Done(main.x, main.new), main.pc = "start"
      PROVE  /\ main' \in Mains /\ main'.pc \in {"publish", "idle"}
             /\ main'.pc = "publish" \/ main'.new => main'.x \in Timers \cap alive
  BY <1>0, <1>4, IdleOK DEF Done, Idle, Mains, Pcs, MainOK
<1>5. CASE SetCallback
  <2>1. /\ main' \in Mains /\ main'.pc = "start" /\ main'.x = main.x /\ main'.new = main.new
        /\ main.x \in alive
    BY <1>0, <1>5 DEF SetCallback, At, Goes, Mains, Pcs, MainOK
  <2>2. Shape'
    BY <1>0, <1>5, <2>1 DEF SetCallback, Shape
  <2>3. MainOK'
    BY <1>0, <1>5, <2>1 DEF SetCallback, MainOK, Linking
  <2>4. NoneRevived
    BY <1>5 DEF SetCallback
  <2> QED BY <1>5, <2>1, <2>2, <2>3, <2>4, ListsAlone DEF SetCallback, Linking
<1>6. CASE StartIT
  <2>1. main.x \in alive
    BY <1>0, <1>6 DEF StartIT, At, MainOK
  <2>2. ftm' \in Registers
    BY <1>0, <1>6, <2>1, StartedOK DEF StartIT
  <2>3. /\ main' \in Mains /\ main'.pc \in {"publish", "idle"}
        /\ main'.pc = "publish" \/ main'.new => main'.x \in Timers \cap alive
    BY <1>4, <1>6 DEF StartIT, At
  <2>4. Shape'
    BY <1>0, <1>6, <2>2, <2>3 DEF StartIT, Shape
  <2>5. MainOK'
    BY <1>6, <2>3 DEF StartIT, MainOK, Linking
  <2> QED BY <1>6, <2>3, <2>4, <2>5, ListsAlone DEF StartIT, Linking
<1>7. CASE Publish
  <2>1. main' = Idle
    BY <1>7 DEF Publish
  <2>2. Shape' /\ MainOK'
    BY <1>0, <1>7, <2>1, IdleOK DEF Publish, Shape, MainOK, Linking
  <2> QED BY <1>7, <2>1, <2>2, IdleOK, ListsAlone DEF Publish, Linking
<1> QED BY <1>2, <1>3, <1>5, <1>6, <1>7

LEMMA CallbackKeeps == ASSUME TInv, NEW x \in Timers \cup Chans, Callback(x) PROVE TInv'
<1> USE DEF objects, lists
<1>0. Shape /\ Owned /\ MainOK /\ main.pc = "idle"
  BY DEF TInv, Callback, At
<1>1. CASE main' = [Idle EXCEPT !.pc = "set", !.x = x] /\ UNCHANGED <<ftm, objects>>
  <2>1. main' \in Mains /\ main'.pc = "set" /\ main'.x = x /\ ~main'.new
    BY <1>1 DEF Idle, Mains, Pcs
  <2>2. Shape'
    BY <1>0, <1>1, <2>1 DEF Callback, Shape
  <2>3. MainOK'
    BY <1>1, <2>1 DEF Callback, MainOK, Linking
  <2> QED BY <1>1, <2>1, <2>2, <2>3, ListsAlone DEF Callback, Linking
<1>2. CASE CallbackNone(ftm, x) /\ UNCHANGED main
  <2>1. ftm' \in Registers
    BY <1>0, <1>2, DisabledOK DEF CallbackNone, Shape
  <2> QED BY <1>0, <1>2, <2>1, SameLists DEF CallbackNone, Callback, Shape
<1> QED BY <1>1, <1>2 DEF Callback


LEMMA ChannelKeeps ==
  ASSUME TInv, NEW t \in Timers, NEW n \in Numbers, Channel(t, n)
  PROVE  TInv'
<1> USE DEF objects, lists
<1>0. Shape /\ Owned /\ Links /\ Quiet /\ t \in alive /\ main.pc = "idle"
  BY DEF TInv, Channel, At
<1>1. UNCHANGED <<ftm, cb, first, next, silent, id, alive>>
  BY DEF Channel
<1>2. first[t] # NULL => first[t] \in Chans \cap alive /\ id[first[t]].timer = t
  BY <1>0 DEF Links
<1>3. /\ main' \in Mains /\ main'.x = t /\ main'.n = n /\ main'.c = first[t]
      /\ main'.prev = NULL /\ ~main'.new
      /\ main'.pc = IF first[t] = NULL THEN "alloc" ELSE "search"
  BY <1>0, <1>2 DEF Channel, Idle, Mains, Pcs, Shape
<1>4. Shape' /\ Owned' /\ Links'
  BY <1>0, <1>1, <1>3 DEF Shape, Owned, Links, From
<1>5. MainOK'
  BY <1>0, <1>1, <1>2, <1>3 DEF MainOK, Linking
<1>6. PrevOK'
  BY <1>3 DEF PrevOK
<1>7. Quiet'
  <2>1. main'.pc \in Linking => From(main.c)' = List(t)
    BY <1>1, <1>3 DEF Linking, From, List
  <2> QED BY <1>0, <1>1, <2>1 DEF Quiet, From, List
<1> QED BY <1>4, <1>5, <1>6, <1>7 DEF TInv

LEMMA SearchKeeps == ASSUME TInv, Search PROVE TInv'
<1> USE DEF objects, lists
<1> DEFINE c == main.c
           x == main.x
<1>0. /\ Shape /\ Owned /\ Links /\ MainOK /\ PrevOK /\ Quiet /\ main.pc = "search"
      /\ main \in Mains /\ next \in Nexts
      /\ x \in Timers \cap alive /\ main.n \in Numbers
      /\ c \in Chans \cap alive /\ id[c].timer = x
  BY DEF TInv, Search, At, MainOK, Linking, Shape
<1>1. UNCHANGED <<first, next, id, alive>>
  BY DEF Search, CallbackNone
<1>2. /\ next[c] \in Chans \cup {NULL}
      /\ next[c] # NULL => next[c] \in Chans \cap alive /\ id[next[c]].timer = x
  BY <1>0 DEF Links, Nexts
<1>3. CASE id[c].channel = main.n
  <2>1. /\ CallbackNone(ftm, c)
        /\ main' = [main EXCEPT !.pc = IF main.prev = NULL THEN "unlink" ELSE "unlink_prev"]
    BY <1>3 DEF Search, Goes
  <2>2. /\ main' \in Mains /\ main'.x = x /\ main'.n = main.n /\ main'.c = c
        /\ main'.prev = main.prev /\ main'.new = main.new
        /\ main'.pc = IF main.prev = NULL THEN "unlink" ELSE "unlink_prev"
    BY <1>0, <2>1 DEF Mains, Pcs
  <2>3. ftm' \in Registers /\ cb' \subseteq Timers \cup Chans /\ NoneRevived
    BY <1>0, <2>1, DisabledOK DEF CallbackNone, Shape
  <2>4. Shape' /\ Owned' /\ Links'
    BY <1>0, <1>1, <2>2, <2>3 DEF Shape, Owned, Links, From
  <2>5. MainOK'
    BY <1>0, <1>1, <1>3, <2>2 DEF MainOK, Linking
  <2>6. PrevOK'
    BY <1>0, <1>1, <2>2 DEF PrevOK, From
  <2>7. From(main.c)' = From(main.c)
    BY <1>1, <2>2 DEF From
  <2>8. Quiet'
    BY <1>0, <1>1, <2>3, <2>7 DEF Quiet, Linking, From, List
  <2> QED BY <2>4, <2>5, <2>6, <2>8 DEF TInv
<1>4. CASE id[c].channel # main.n /\ next[c] = NULL
  <2>1. /\ main' = [main EXCEPT !.pc = "alloc", !.prev = NULL, !.c = NULL]
        /\ UNCHANGED <<ftm, objects>>
    BY <1>4 DEF Search
  <2>2. /\ main' \in Mains /\ main'.x = x /\ main'.n = main.n /\ main'.new = main.new
        /\ main'.pc = "alloc"
    BY <1>0, <2>1 DEF Mains, Pcs
  <2>3. Shape' /\ Owned' /\ Links'
    BY <1>0, <1>1, <2>1, <2>2 DEF Shape, Owned, Links, From
  <2>4. MainOK' /\ PrevOK'
    BY <1>0, <1>1, <2>2 DEF MainOK, PrevOK, Linking
  <2>5. Quiet'
    BY <1>0, <1>1, <2>1, <2>2 DEF Quiet, Linking, From, List
  <2> QED BY <2>3, <2>4, <2>5 DEF TInv
<1>5. CASE id[c].channel # main.n /\ next[c] # NULL
  <2> DEFINE e == next[c]
  <2>1. main' = [main EXCEPT !.prev = c, !.c = e] /\ UNCHANGED <<ftm, objects>>
    BY <1>5 DEF Search
  <2>2. /\ main' \in Mains /\ main'.x = x /\ main'.n = main.n /\ main'.c = e
        /\ main'.prev = c /\ main'.new = main.new /\ main'.pc = "search"
    BY <1>0, <1>2, <2>1 DEF Mains, Pcs
  <2>3. Shape' /\ Owned' /\ Links'
    BY <1>0, <1>1, <2>1, <2>2 DEF Shape, Owned, Links, From
  <2>4. MainOK'
    BY <1>0, <1>1, <1>2, <1>5, <2>2 DEF MainOK, Linking
  <2>5. From(next[e]) \subseteq From(e) /\ From(e) \subseteq From(c)
    <3>1. e \in Chans /\ next[e] \in Chans \cup {NULL}
      BY <1>0, <1>2, <1>5 DEF Nexts
    <3>2. Chain(next, e) = {e} \cup Chain(next, next[e])
      BY <1>0, <3>1, ChainStep
    <3>3. Chain(next, c) = {c} \cup Chain(next, e)
      BY <1>0, ChainStep
    <3> QED BY <3>2, <3>3 DEF From
  <2>6. ASSUME NEW d \in Chans, c \in From(d), d \in From(next[e]) PROVE FALSE
    <3>1. d \in Chain(next, e)
      BY <2>5, <2>6 DEF From
    <3>2. Chain(next, d) \subseteq Chain(next, e)
      BY <1>0, <3>1, ChainPart
    <3>3. c \in From(next[c])
      BY <2>6, <3>2 DEF From
    <3> QED BY <1>0, <3>3 DEF Links
  <2>7. PrevOK'
    <3>1. UNCHANGED next
      BY <1>1
    <3>2. main'.c = e /\ main'.prev = c /\ main'.pc = "search" /\ main'.x = x
      BY <2>2
    <3>3. \A d \in Chans : c \in Chain(next, d) => d \notin Chain(next, next[e])
      BY <2>6 DEF From
    <3>4. c \in Chans \cap alive' /\ id'[c].timer = x
      BY <1>0, <1>1
    <3> HIDE DEF e, c, x
    <3> QED BY <3>1, <3>2, <3>3, <3>4 DEF PrevOK, From
  <2>8. Quiet'
    <3>1. Chain(next, e) \subseteq Chain(next, c)
      BY <2>5 DEF From
    <3>2. silent \cap cb \cap Chain(next, c) = {}
      BY <1>0 DEF Quiet, Linking, From
    <3> QED BY <1>0, <1>1, <2>1, <2>2, <3>1, <3>2 DEF Quiet, Linking, From, List
  <2> QED BY <2>3, <2>4, <2>7, <2>8 DEF TInv
<1> QED BY <1>3, <1>4, <1>5

LEMMA UnlinkPrevKeeps == ASSUME TInv, UnlinkPrev PROVE TInv'
<1> DEFINE p == main.prev
           c == main.c
<1>0. /\ Shape /\ Owned /\ Links /\ MainOK /\ PrevOK /\ Quiet /\ main.pc = "unlink_prev"
      /\ p \in Chans \cap alive /\ id[p].timer = main.x
      /\ main.n \in Numbers /\ main.x \in Timers \cap alive
      /\ c \in Chans \cap alive /\ id[c].timer = main.x /\ id[c].channel = main.n
      /\ \A d \in Chans : p \in From(d) => d \notin From(next[c])
  BY DEF TInv, UnlinkPrev, At, PrevOK, MainOK, Linking
<1>1. /\ next \in Nexts /\ next[c] \in Chans \cup {NULL} /\ next' = [next EXCEPT ![p] = next[c]]
      /\ UNCHANGED <<ftm, cb, first, silent, id, alive>>
  BY <1>0 DEF UnlinkPrev, Shape, Nexts
<1>2. \A d \in Chans : next'[d] = IF d = p THEN next[c] ELSE next[d]
  BY <1>1 DEF Nexts
<1>3. /\ main' \in Mains /\ main'.pc = "unlink" /\ main'.x = main.x /\ main'.n = main.n
      /\ main'.c = c /\ main'.new = main.new
  BY <1>0 DEF UnlinkPrev, Goes, Shape, Mains, Pcs
<1>4. \A a \in Chans \cup {NULL} :
         /\ From(a)' \subseteq From(a) \cup From(next[c])
         /\ p \notin From(a) => From(a)' \subseteq From(a)
  <2>1. p \in Chans
    BY <1>0
  <2> HIDE DEF p, c
  <2> QED BY <1>1, <2>1, ChainGrows DEF From
<1>5. Shape' /\ Owned'
  BY <1>0, <1>1, <1>3 DEF Shape, Owned, Nexts
<1>6. \A d \in Chans : d \notin From(next[d])'
  <2> SUFFICES ASSUME NEW d \in Chans, d \in Chain(next', next'[d]) PROVE FALSE
    BY DEF From
  <2>0. next[d] \in Chans \cup {NULL} /\ p \in From(p)
    BY <1>0, <1>1, ChainStep DEF Nexts, From
  <2>1. p \notin From(next[c])
    BY <1>0, <2>0
  <2>2. CASE d = p
    <3>1. d \in From(next[c])
      BY <1>1, <1>2, <1>4, <2>1, <2>2 DEF From
    <3> QED BY <3>1, <2>1, <2>2
  <2>3. CASE d # p
    <3>1. next'[d] = next[d]
      BY <1>2, <2>3
    <3>2. CASE p \in From(next[d])
      <4>1. p \in From(d)
        BY <3>2, <1>1, ChainStep DEF From
      <4>2. d \in From(next[d]) \cup From(next[c])
        BY <3>1, <2>0, <1>4 DEF From
      <4> QED BY <4>1, <4>2, <1>0 DEF Links
    <3>3. CASE p \notin From(next[d])
      <4>1. d \in From(next[d])
        BY <3>1, <3>3, <2>0, <1>4 DEF From
      <4> QED BY <4>1, <1>0 DEF Links
    <3> QED BY <3>2, <3>3
  <2> QED BY <2>2, <2>3
<1>7. Links'
  <2>1. \A d \in Chans : next'[d] # NULL =>
           next'[d] \in Chans \cap alive /\ id[next'[d]].timer = id[d].timer
    BY <1>0, <1>2 DEF Links
  <2>2. \A d \in Chans \ alive : next'[d] = NULL
    BY <1>0, <1>2 DEF Links
  <2> QED BY <1>0, <1>1, <1>6, <2>1, <2>2 DEF Links
<1>8. MainOK' /\ PrevOK'
  BY <1>0, <1>1, <1>3 DEF MainOK, PrevOK, Linking
<1>9. Quiet'
  <2>1. From(next[c]) \subseteq From(c)
    BY <1>0, <1>1, ChainStep DEF From
  <2>2. \A t \in Timers : List(t)' \subseteq List(t) \cup From(c)
    BY <1>0, <1>1, <1>4, <2>1 DEF List, From, Shape
  <2>3. From(c)' \subseteq From(c)
    BY <1>0, <1>3, <1>4, <2>1 DEF From
  <2>4. silent \cap cb \cap From(c) = {}
    BY <1>0 DEF Quiet, Linking
  <2> QED BY <1>0, <1>1, <1>3, <2>2, <2>3, <2>4 DEF Quiet, Linking
<1> QED BY <1>5, <1>7, <1>8, <1>9 DEF TInv

LEMMA UnlinkKeeps == ASSUME TInv, Unlink PROVE TInv'
<1> DEFINE c == main.c
           x == main.x
<1>0. /\ Shape /\ Owned /\ Links /\ MainOK /\ Quiet /\ main.pc = "unlink"
      /\ x \in Timers \cap alive /\ main.n \in Numbers
      /\ c \in Chans \cap alive /\ id[c].timer = x
  BY DEF TInv, Unlink, At, MainOK, Linking
<1>1. /\ next \in Nexts /\ next[c] \in Chans \cup {NULL}
      /\ first' = [first EXCEPT ![x] = next[c]] /\ next' = [next EXCEPT ![c] = NULL]
      /\ UNCHANGED <<ftm, cb, silent, id, alive>>
  BY <1>0 DEF Unlink, Shape, Nexts
<1>2. /\ \A d \in Chans : next'[d] = IF d = c THEN NULL ELSE next[d]
      /\ \A t \in Timers : first'[t] = IF t = x THEN next[c] ELSE first[t]
  BY <1>0, <1>1 DEF Nexts, Shape
<1>3. main' \in Mains /\ main'.pc = "alloc" /\ main'.x = x /\ main'.n = main.n /\ main'.new = main.new
  BY <1>0 DEF Unlink, Shape, Mains, Pcs
<1>4. \A a \in Chans \cup {NULL} : Chain(next', a) \subseteq Chain(next, a)
  BY <1>0, <1>1, ChainGrows, ChainOfNull
<1>5. /\ \A d \in Chans : Chain(next', next'[d]) \subseteq Chain(next, next[d])
      /\ \A t \in Timers : Chain(next', first'[t]) \subseteq
             IF t = x THEN Chain(next, next[c]) ELSE Chain(next, first[t])
  BY <1>0, <1>1, <1>2, <1>4, ChainOfNull DEF Nexts, Shape
<1>6. Shape' /\ Owned'
  BY <1>0, <1>1, <1>3 DEF Shape, Owned, Nexts
<1>7. Links'
  <2>1. \A d \in Chans : d \notin From(next[d])'
    BY <1>0, <1>5 DEF Links, From
  <2>2. \A t \in Timers : first'[t] # NULL =>
          first'[t] \in Chans \cap alive /\ id[first'[t]].timer = t
    BY <1>0, <1>2 DEF Links
  <2> QED BY <1>0, <1>1, <1>2, <2>1, <2>2 DEF Links
<1>9. MainOK' /\ PrevOK'
  BY <1>0, <1>1, <1>3 DEF MainOK, PrevOK, Linking
<1>11. Quiet'
  <2>1. Chain(next, next[c]) \subseteq Chain(next, c)
    BY <1>0, <1>1, ChainStep
  <2>2. silent \cap cb \cap Chain(next, c) = {}
    BY <1>0 DEF Quiet, Linking, From
  <2>3. \A t \in Timers : silent \cap cb \cap Chain(next', first'[t]) = {}
    BY <1>0, <1>5, <2>1, <2>2 DEF Quiet, List, From
  <2> QED BY <1>0, <1>1, <1>3, <2>3 DEF Quiet, Linking, List, From
<1> QED BY <1>6, <1>7, <1>9, <1>11 DEF TInv


LEMMA NewChannelKeeps == ASSUME TInv, NewChannel PROVE TInv'
<1> USE DEF objects, lists
<1> DEFINE x == main.x
<1>0. /\ Shape /\ Owned /\ Links /\ MainOK /\ Quiet /\ main.pc = "alloc"
      /\ x \in Timers \cap alive /\ main.n \in Numbers /\ main \in Mains /\ next \in Nexts
      /\ UNCHANGED <<ftm, first, obj_all>>
  BY DEF TInv, NewChannel, At, MainOK, Linking, Shape
<1>1. CASE main' = Idle /\ UNCHANGED <<cb, next, silent, id, alive>>
  <2>1. Shape' /\ MainOK'
    BY <1>0, <1>1, IdleOK DEF Shape, MainOK, Linking
  <2> QED BY <1>0, <1>1, <2>1, IdleOK, ListsAlone DEF Linking
<1>2. ASSUME NEW c \in Chans \ alive,
             alive' = alive \cup {c},
             id' = [id EXCEPT ![c] = [timer |-> x, channel |-> main.n]],
             next' = [next EXCEPT ![c] = first[x]],
             \/ cb' = cb \cup {c} /\ silent' = silent \ {c}
             \/ cb' = cb \ {c} /\ silent' = silent \cup {c},
             main' = [main EXCEPT !.pc = "link", !.c = c]
      PROVE  TInv'
  <2>1. /\ first[x] \in Chans \cup {NULL}
        /\ first[x] # NULL => first[x] \in Chans \cap alive /\ id[first[x]].timer = x
    BY <1>0 DEF Shape, Links
  <2>2. \A d \in Chans : next'[d] = IF d = c THEN first[x] ELSE next[d]
    BY <1>0, <1>2 DEF Nexts
  <2>3. /\ \A d \in Chans \cap alive : id'[d] = id[d] /\ d # c
        /\ id'[c] = [timer |-> x, channel |-> main.n]
        /\ id' \in [Chans -> [timer : Timers \cup {NULL}, channel : Numbers \cup {NULL}]]
    BY <1>0, <1>2 DEF Owned
  <2>4. /\ main' \in Mains /\ main'.pc = "link" /\ main'.c = c /\ main'.x = x
        /\ main'.n = main.n /\ main'.new = main.new
    BY <1>0, <1>2 DEF Mains, Pcs
\* Nothing leads to c yet.
  <2>5. /\ \A d \in Chans : c \notin Chain(next, next[d])
        /\ \A t \in Timers : c \notin Chain(next, first[t])
    BY <1>0, <1>2, ChainAlive DEF From, List
  <2>6. \A a \in Chans \cup {NULL} : c \notin Chain(next, a) => Chain(next', a) \subseteq Chain(next, a)
    BY <1>0, <1>2, <2>1, ChainGrows
  <2>7. \A d \in Chans : Chain(next', next'[d]) \subseteq
               IF d = c THEN Chain(next, first[x]) ELSE Chain(next, next[d])
    <3>1. Chain(next', first[x]) \subseteq Chain(next, first[x])
      BY <1>0, <2>1, <2>5, <2>6
    <3>2. \A d \in Chans : Chain(next', next[d]) \subseteq Chain(next, next[d])
      BY <1>0, <2>5, <2>6 DEF Nexts
    <3> QED BY <2>2, <3>1, <3>2
  <2>8. Shape' /\ Owned'
    <3>1. cb' \subseteq Timers \cup Chans /\ alive' \subseteq Timers \cup Chans
      BY <1>0, <1>2 DEF Shape
    <3>2. next' \in Nexts
      BY <1>0, <1>2, <2>1 DEF Nexts
    <3>3. Shape'
      BY <1>0, <2>4, <3>1, <3>2 DEF Shape
    <3>4. \A d \in Chans \cap alive' : id'[d] \in [timer : Timers \cap alive', channel : Numbers]
      BY <1>0, <1>2, <2>3 DEF Owned
    <3> QED BY <2>3, <3>3, <3>4 DEF Owned
  <2>9. Links'
    <3>1. \A t \in Timers : first[t] # NULL =>
            first[t] \in Chans \cap alive' /\ id'[first[t]].timer = t
      BY <1>0, <1>2, <2>3 DEF Links
    <3>2. \A d \in Chans : next'[d] # NULL =>
            next'[d] \in Chans \cap alive' /\ id'[next'[d]].timer = id'[d].timer
      <4> SUFFICES ASSUME NEW d \in Chans, next'[d] # NULL
                   PROVE  next'[d] \in Chans \cap alive' /\ id'[next'[d]].timer = id'[d].timer
        OBVIOUS
      <4>1. CASE d = c
        BY <4>1, <1>2, <2>1, <2>2, <2>3
      <4>2. CASE d # c
        <5>1. next'[d] = next[d] /\ d \in alive
          BY <4>2, <2>2, <1>0 DEF Links
        <5> QED BY <5>1, <1>0, <1>2, <2>3 DEF Links
      <4> QED BY <4>1, <4>2
    <3>3. \A d \in Chans : d \notin Chain(next', next'[d])
      BY <1>0, <2>5, <2>7 DEF Links, From
    <3>4. \A d \in Chans \ alive' : next'[d] = NULL
      BY <1>0, <1>2, <2>2 DEF Links
    <3> QED BY <1>0, <3>1, <3>2, <3>3, <3>4 DEF Links, From
  <2>10. MainOK' /\ PrevOK'
    BY <1>0, <1>2, <2>3, <2>4 DEF MainOK, PrevOK, Linking
  <2>11. Quiet'
    <3>1. NoneRevived /\ ~(c \in silent' /\ c \in cb')
      BY <1>2
    <3>2. \A t \in Timers : Chain(next', first[t]) \subseteq Chain(next, first[t])
      BY <1>0, <2>5, <2>6 DEF Shape
    <3>3. Chain(next', c) \subseteq {c} \cup Chain(next, first[x])
      <4>1. next' \in Nexts
        BY <2>8 DEF Shape
      <4>2. Chain(next', c) = {c} \cup Chain(next', next'[c])
        BY <4>1, <1>2, ChainStep
      <4> QED BY <2>7, <4>2, <1>2
    <3>4. silent' \cap cb' \cap Chain(next', c) = {}
      BY <1>0, <3>1, <3>3 DEF Quiet, List, From
    <3>5. \A t \in Timers : silent' \cap cb' \cap Chain(next', first[t]) = {}
      BY <1>0, <3>1, <3>2 DEF Quiet, List, From
    <3>6. silent' \cap cb' \cap Timers = {}
      BY <1>0, <3>1 DEF Quiet
    <3> QED BY <1>0, <2>4, <3>4, <3>5, <3>6 DEF Quiet, From, List
  <2> QED BY <2>8, <2>9, <2>10, <2>11 DEF TInv
<1> QED BY <1>1, <1>2 DEF NewChannel

LEMMA LinkKeeps == ASSUME TInv, Link PROVE TInv'
<1> DEFINE c == main.c
           x == main.x
<1>0. /\ Shape /\ Owned /\ Links /\ MainOK /\ Quiet /\ main.pc = "link"
      /\ x \in Timers \cap alive /\ main.n \in Numbers
      /\ c \in Chans \cap alive /\ id[c].timer = x
  BY DEF TInv, Link, At, MainOK, Linking
<1>1. /\ first' = [first EXCEPT ![x] = c] /\ UNCHANGED <<ftm, cb, next, silent, id, alive>>
  BY DEF Link
<1>2. /\ main' \in Mains /\ main'.pc = "config" /\ main'.x = x /\ main'.n = main.n
      /\ main'.new = main.new
  BY <1>0 DEF Link, Goes, Shape, Mains, Pcs
<1>3. \A t \in Timers : first'[t] = IF t = x THEN c ELSE first[t]
  BY <1>0, <1>1 DEF Shape
<1>4. Shape' /\ Owned'
  BY <1>0, <1>1, <1>2 DEF Shape, Owned
<1>5. Links'
  BY <1>0, <1>1, <1>3 DEF Links, From
<1>6. MainOK' /\ PrevOK'
  BY <1>0, <1>1, <1>2 DEF MainOK, PrevOK, Linking
<1>7. Quiet'
  BY <1>0, <1>1, <1>2, <1>3 DEF Quiet, Linking, List, From
<1> QED BY <1>4, <1>5, <1>6, <1>7 DEF TInv

LEMMA ConfigKeeps == ASSUME TInv, Config PROVE TInv'
<1> USE DEF objects, lists
<1>0. Shape /\ MainOK /\ main.n \in Numbers
  BY DEF TInv, Config, At, MainOK, Linking
<1>1. main' = Idle
  BY DEF Config
<1>2. ftm' \in Registers
  BY <1>0 DEF Config, Shape, Registers
<1>3. Shape' /\ MainOK'
  BY <1>0, <1>1, <1>2, IdleOK DEF Config, Shape, MainOK, Linking
<1> QED BY <1>1, <1>3, IdleOK, ListsAlone DEF Config, Linking


LEMMA DeinitBeginKeeps == ASSUME TInv, NEW t \in Timers, DeinitBegin(t) PROVE TInv'
<1> USE DEF lists
<1>0. Shape /\ Links /\ MainOK /\ t \in alive
  BY DEF TInv, DeinitBegin
<1>1. CallbackNone(ftm, t) /\ UNCHANGED <<first, next, id, alive>>
  BY DEF DeinitBegin, CallbackNone
<1>2. first[t] \in (Chans \cap alive) \cup {NULL}
  BY <1>0 DEF Links, Shape
<1>3. main' \in Mains /\ main'.pc = "deinit" /\ main'.x = t /\ main'.c = first[t] /\ ~main'.new
  BY <1>0, <1>2 DEF DeinitBegin, Idle, Mains, Pcs
<1>4. ftm' \in Registers
  BY <1>0, <1>1, DisabledOK DEF CallbackNone, Shape
<1>5. Shape'
  BY <1>0, <1>1, <1>3, <1>4 DEF CallbackNone, Shape
<1>6. MainOK'
  BY <1>0, <1>1, <1>2, <1>3 DEF MainOK, Linking
<1>7. NoneRevived
  BY <1>1 DEF CallbackNone
<1> QED BY <1>1, <1>3, <1>5, <1>6, <1>7, ListsAlone DEF Linking

\* The list is emptied, so that what is now stopped is in no list, whether or
\* not the walk gets to it.
LEMMA DeinitListKeeps == ASSUME TInv, DeinitList PROVE TInv'
<1> DEFINE x == main.x
<1>0. /\ Shape /\ Owned /\ Links /\ MainOK /\ Quiet /\ main.pc = "deinit"
      /\ x \in Timers \cap alive /\ main.c \in (Chans \cap alive) \cup {NULL}
  BY DEF TInv, DeinitList, At, MainOK
<1>1. /\ first' = [first EXCEPT ![x] = NULL] /\ silent' = silent \cup (Stopped(x) \ {x})
      /\ UNCHANGED <<ftm, cb, next, id, alive>>
  BY DEF DeinitList
<1>2. /\ main' \in Mains /\ main'.pc = "each" /\ main'.x = x /\ main'.c = main.c
      /\ main'.new = main.new
  BY <1>0 DEF DeinitList, Goes, Shape, Mains, Pcs
<1>3. \A t \in Timers : first'[t] = IF t = x THEN NULL ELSE first[t]
  BY <1>0, <1>1 DEF Shape
<1>4. Shape' /\ Owned'
  BY <1>0, <1>1, <1>2 DEF Shape, Owned
<1>5. Links'
  BY <1>0, <1>1, <1>3 DEF Links, From
<1>6. MainOK' /\ PrevOK'
  BY <1>0, <1>1, <1>2 DEF MainOK, PrevOK, Linking
<1>7. Quiet'
  <2>1. \A t \in Timers : List(t) \subseteq {d \in Chans \cap alive : id[d].timer = t}
    BY <1>0, ChainAlive
  <2>2. silent' = silent \cup (List(x) \ {x})
    BY <1>1 DEF Stopped
  <2>3. silent' \cap Timers = silent \cap Timers
    BY <2>1, <2>2, <1>0, TimerAssumption DEF TimerAssumption
  <2>4. ASSUME NEW t \in Timers PROVE silent' \cap cb' \cap List(t)' = {}
    <3>1. CASE t = x
      BY <3>1, <1>3, ChainOfNull DEF List, From
    <3>2. CASE t # x
      <4>1. List(t)' = List(t)
        BY <3>2, <1>1, <1>3 DEF List, From
      <4>2. List(x) \cap List(t) = {}
        BY <3>2, <2>1, <1>0
      <4> QED BY <4>1, <4>2, <2>2, <1>0, <1>1 DEF Quiet
    <3> QED BY <3>1, <3>2
  <2> QED BY <1>0, <1>1, <1>2, <2>3, <2>4 DEF Quiet, Linking
<1> QED BY <1>4, <1>5, <1>6, <1>7 DEF TInv

LEMMA DeinitEachKeeps == ASSUME TInv, DeinitEach PROVE TInv'
<1> DEFINE c == main.c
<1>0. /\ Shape /\ Owned /\ Links /\ MainOK /\ Quiet /\ main.pc = "each"
      /\ main.x \in Timers \cap alive /\ c \in Chans \cap alive
  BY DEF TInv, DeinitEach, At, MainOK
<1>1. /\ next \in Nexts /\ next' = [next EXCEPT ![c] = NULL]
      /\ cb' = cb \ {c} /\ silent' = silent \cup {c} /\ UNCHANGED <<first, id, alive>>
  BY <1>0 DEF DeinitEach, Shape
<1>2. \A d \in Chans : next'[d] = IF d = c THEN NULL ELSE next[d]
  BY <1>1 DEF Nexts
<1>3. next[c] \in (Chans \cap alive) \cup {NULL}
  BY <1>0 DEF Links
<1>4. /\ main' \in Mains /\ main'.pc = "each" /\ main'.x = main.x /\ main'.c = next[c]
      /\ main'.new = main.new
  BY <1>0, <1>3 DEF DeinitEach, Shape, Mains, Pcs
<1>5. ftm' \in Registers
  BY <1>0, DisabledOK DEF DeinitEach, Shape
<1>6. Shape' /\ Owned'
  BY <1>0, <1>1, <1>4, <1>5 DEF Shape, Owned, Nexts
<1>7. \A a \in Chans \cup {NULL} : Chain(next', a) \subseteq Chain(next, a)
  BY <1>0, <1>1, ChainGrows, ChainOfNull
<1>8. /\ \A d \in Chans : Chain(next', next'[d]) \subseteq Chain(next, next[d])
      /\ \A t \in Timers : Chain(next', first'[t]) \subseteq Chain(next, first[t])
  BY <1>0, <1>1, <1>2, <1>7, ChainOfNull DEF Nexts, Shape
<1>9. Links'
  <2>1. \A d \in Chans : d \notin From(next[d])'
    BY <1>0, <1>8 DEF Links, From
  <2> QED BY <1>0, <1>1, <1>2, <2>1 DEF Links
<1>10. MainOK' /\ PrevOK'
  BY <1>0, <1>1, <1>3, <1>4 DEF MainOK, PrevOK, Linking
<1>11. Quiet'
  <2>1. NoneRevived
    BY <1>1
  <2> QED BY <1>0, <1>4, <1>8, <2>1 DEF Quiet, Linking, List, From
<1> QED BY <1>6, <1>9, <1>10, <1>11 DEF TInv

LEMMA DeinitEndKeeps == ASSUME TInv, DeinitEnd PROVE TInv'
<1> USE DEF objects, lists
<1>0. Shape
  BY DEF TInv
<1>1. main' = Idle /\ ftm' \in Registers
  BY <1>0, DisabledOK DEF DeinitEnd, Shape
<1>2. Shape' /\ MainOK'
  BY <1>0, <1>1, IdleOK DEF DeinitEnd, Shape, MainOK, Linking
<1> QED BY <1>1, <1>2, IdleOK, ListsAlone DEF DeinitEnd, Linking

\* What is reached from objects that exist exists, and includes what its
\* members point to.
LEMMA ReachClosed ==
  ASSUME Shape, Owned, Links, NEW held \in SUBSET alive
  PROVE  /\ Reach(held) \subseteq alive
         /\ \A y \in Reach(held) : Pointers(y) \subseteq Reach(held)
<1>1. \A y \in alive : Pointers(y) \subseteq alive
  <2> SUFFICES ASSUME NEW y \in alive PROVE Pointers(y) \subseteq alive
    OBVIOUS
  <2>1. CASE y \in Timers
    BY <2>1 DEF Pointers, Links
  <2>2. CASE y \notin Timers
    <3>1. y \in Chans \cap alive
      BY <2>2 DEF Shape
    <3>2. id[y].timer \in alive /\ next[y] \in alive \cup {NULL}
      BY <3>1 DEF Owned, Links
    <3> QED BY <2>2, <3>2 DEF Pointers
  <2> QED BY <2>1, <2>2
<1>2. alive \in SUBSET (Timers \cup Chans)
  BY DEF Shape
<1>3. Reach(held) \subseteq alive
  BY <1>1, <1>2 DEF Reach
<1>4. ASSUME NEW y \in Reach(held), NEW z \in Pointers(y) PROVE z \in Reach(held)
  <2>1. z \in Timers \cup Chans
    BY <1>1, <1>2, <1>3
  <2>2. ASSUME NEW S \in SUBSET (Timers \cup Chans), held \subseteq S,
               \A w \in S : Pointers(w) \subseteq S
        PROVE  z \in S
    BY <2>2 DEF Reach
  <2> QED BY <2>1, <2>2 DEF Reach
<1> QED BY <1>3, <1>4

LEMMA CollectKeeps == ASSUME TInv, Collect PROVE TInv'
<1>0. Shape /\ Owned /\ Links /\ MainOK /\ Quiet /\ main.pc \in {"idle", "alloc"}
  BY DEF TInv, Collect, At
<1>1. PICK held \in SUBSET alive :
        /\ main.x \in held \cup {NULL}
        /\ LET kept == Reach(held) IN
             /\ alive' = kept
             /\ cb' = cb \cap kept /\ silent' = silent \cap kept
             /\ first' = [t \in Timers |-> IF t \in kept THEN first[t] ELSE NULL]
             /\ next' = [c \in Chans |-> IF c \in kept THEN next[c] ELSE NULL]
             /\ id' = [c \in Chans |-> IF c \in kept THEN id[c]
                                       ELSE [timer |-> NULL, channel |-> NULL]]
  BY DEF Collect
<1> DEFINE kept == Reach(held)
<1>2. kept \subseteq alive /\ \A y \in kept : Pointers(y) \subseteq kept
  BY <1>0, ReachClosed
<1>3. /\ \A c \in Chans \cap kept : next[c] \in kept \cup {NULL} /\ id[c].timer \in kept \cup {NULL}
      /\ \A t \in Timers \cap kept : first[t] \in kept \cup {NULL}
  BY <1>2, TimerAssumption DEF Pointers, TimerAssumption
<1> HIDE DEF kept
<1>4. /\ alive' = kept /\ cb' = cb \cap kept /\ silent' = silent \cap kept
      /\ first' = [t \in Timers |-> IF t \in kept THEN first[t] ELSE NULL]
      /\ next' = [c \in Chans |-> IF c \in kept THEN next[c] ELSE NULL]
      /\ id' = [c \in Chans |-> IF c \in kept THEN id[c]
                                ELSE [timer |-> NULL, channel |-> NULL]]
      /\ UNCHANGED <<ftm, main>>
  BY <1>1 DEF kept, Collect
<1>5. /\ \A c \in Chans : next'[c] = IF c \in kept THEN next[c] ELSE NULL
      /\ \A t \in Timers : first'[t] = IF t \in kept THEN first[t] ELSE NULL
      /\ \A c \in Chans \cap kept : id'[c] = id[c]
  BY <1>4
<1>6. Shape'
  <2>1. /\ next' \in Nexts /\ first' \in [Timers -> Chans \cup {NULL}]
    BY <1>0, <1>4 DEF Shape, Nexts
  <2> QED BY <1>0, <1>2, <1>4, <2>1 DEF Shape
<1>7. Owned'
  <2>1. id' \in [Chans -> [timer : Timers \cup {NULL}, channel : Numbers \cup {NULL}]]
    BY <1>0, <1>4 DEF Owned
  <2>2. \A c \in Chans \cap kept : id'[c] \in [timer : Timers \cap kept, channel : Numbers]
    <3> SUFFICES ASSUME NEW c \in Chans \cap kept
                 PROVE  id[c] \in [timer : Timers \cap kept, channel : Numbers]
      BY <1>5
    <3>1. id[c] \in [timer : Timers \cap alive, channel : Numbers]
      BY <1>0, <1>2 DEF Owned
    <3>2. id[c].timer \in kept
      BY <1>3, <3>1, TimerAssumption DEF TimerAssumption
    <3> QED BY <3>1, <3>2
  <2> QED BY <2>1, <2>2, <1>4 DEF Owned
<1>8. \A a \in Chans \cup {NULL} : Chain(next', a) \subseteq Chain(next, a)
  <2>1. \A c \in Chans \cup {NULL} : c \in Chain(next, c) \cup {NULL}
    BY <1>0, ChainStep DEF Shape
  <2>2. Shrinks(next, next')
    BY <1>0, <1>5, <2>1 DEF Shrinks, Shape, Nexts
  <2> QED BY <1>0, <2>2, ChainShrinks DEF Shape
<1>9. \A c \in Chans \cap kept :
         \A d \in Chain(next, next[c]) : d \in Chans /\ d \in kept
  <2> DEFINE T == {d \in Chans : d \in kept}
  <2>1. T \in SUBSET Chans /\ Closed(next, T)
    BY <1>0, <1>3 DEF Closed, Shape, Nexts
  <2>2. \A c \in T : next[c] \in T \cup {NULL}
    BY <2>1 DEF Closed
  <2> HIDE DEF T
  <2>3. \A c \in T : Chain(next, next[c]) \subseteq T
    BY <2>1, <2>2, ChainLeast
  <2> QED BY <2>3 DEF T
<1>10. Links'
  <2>1. \A t \in Timers : first'[t] # NULL =>
          first'[t] \in Chans \cap kept /\ id'[first'[t]].timer = t
    BY <1>0, <1>3, <1>5 DEF Links
  <2>2. \A c \in Chans : next'[c] # NULL =>
          next'[c] \in Chans \cap kept /\ id'[next'[c]].timer = id'[c].timer
    BY <1>0, <1>3, <1>5 DEF Links
  <2>3. ASSUME NEW c \in Chans, c \in Chain(next', next'[c]) PROVE FALSE
    <3>1. c \in kept
      BY <1>5, <2>3, ChainOfNull
    <3>2. c \in Chain(next, next[c])
      BY <1>0, <1>5, <1>8, <2>3, <3>1 DEF Shape, Nexts
    <3> QED BY <1>0, <3>2 DEF Links, From
  <2>4. \A c \in Chans \ kept : next'[c] = NULL
    BY <1>5
  <2> QED BY <1>4, <2>1, <2>2, <2>3, <2>4 DEF Links, From
<1>11. MainOK' /\ PrevOK'
  <2>1. main.x \in Timers => main.x \in kept
    BY <1>1, TimerAssumption DEF kept, Reach, TimerAssumption
  <2> QED BY <1>0, <1>4, <2>1 DEF MainOK, PrevOK, Linking
<1>12. Quiet'
  <2>1. \A t \in Timers : Chain(next', first'[t]) \subseteq Chain(next, first[t])
    BY <1>0, <1>5, <1>8, ChainOfNull DEF Shape
  <2> QED BY <1>0, <1>4, <2>1 DEF Quiet, Linking, List, From
<1> QED BY <1>6, <1>7, <1>10, <1>11, <1>12 DEF TInv


-----------------------------------------------------------------------------
LEMMA TInvInit == Init => TInv
<1> SUFFICES ASSUME Init PROVE TInv
  OBVIOUS
<1>1. \A c : From(next[c]) = {} \/ c \notin Chans
  BY ChainOfNull DEF Init, From
<1>2. \A t \in Timers : List(t) = {}
  BY ChainOfNull DEF Init, List, From
<1>3. Shape
  BY IdleOK DEF Init, Shape, Registers, Nexts
<1>4. Owned /\ Links
  BY <1>1 DEF Init, Owned, Links
<1>5. MainOK /\ PrevOK /\ Quiet
  BY <1>2, IdleOK DEF Init, MainOK, PrevOK, Quiet, Linking
<1> QED BY <1>3, <1>4, <1>5 DEF TInv

LEMMA TInvStep == TInv /\ [Next]_vars => TInv'
<1> SUFFICES ASSUME TInv, [Next]_vars PROVE TInv'
  OBVIOUS
<1>1. CASE UNCHANGED vars
  BY <1>1 DEF vars, TInv, Shape, Owned, Links, MainOK, PrevOK, Quiet,
     From, List
<1>2. CASE Program
  BY <1>2, MakeNewKeeps, InitKeeps, CallbackKeeps, ChannelKeeps, UnlinkPrevKeeps,
     SearchKeeps, UnlinkKeeps, NewChannelKeeps, LinkKeeps, ConfigKeeps,
     DeinitBeginKeeps, DeinitListKeeps, DeinitEachKeeps, DeinitEndKeeps, CollectKeeps
  DEF Program
<1> QED BY <1>1, <1>2, EventKeeps, HandlerKeeps, CallbackRunsKeeps DEF Next

-----------------------------------------------------------------------------
(* The numbers in a list, unless a callback has raced the program's search. *)

Once(S) == \A c, d \in S : id[c].channel = id[d].channel => c = d

\* What is in the list or behind the channel the program is at.
SearchOnce == main.pc \in {"search", "unlink_prev", "unlink"} =>
                  Once(List(main.x) \cup From(main.c))

\* A channel of the number that the program has not met yet is still ahead.
Ahead == main.pc = "search" =>
            \A d \in List(main.x) : id[d].channel = main.n => d \in From(main.c)

NumberFree == main.pc = "alloc" => \A d \in List(main.x) : id[d].channel # main.n

LinkOnce == main.pc = "link" => Once(From(main.c))

NInv == raced \/ (EachOnce /\ SearchOnce /\ Ahead /\ NumberFree /\ LinkOnce)

Marking == {"search", "unlink_prev", "unlink", "alloc", "link"}

\* Pointers outside a chain do not matter to it.
LEMMA ChainSame ==
  ASSUME NEW nx \in Nexts, NEW ny \in Nexts, NEW c \in Chans,
         \A d \in Chain(nx, c) : ny[d] = nx[d]
  PROVE  Chain(nx, c) \subseteq Chain(ny, c)
<1> DEFINE C == Chain(nx, c)
           D == Chain(ny, c)
           T == C \cap D
<1>1. /\ C \in SUBSET Chans /\ Closed(nx, C) /\ c \in C
      /\ D \in SUBSET Chans /\ Closed(ny, D) /\ c \in D
  BY ChainClosed, ChainStep
<1>2. \A d \in C : ny[d] = nx[d]
  OBVIOUS
<1> HIDE DEF C, D
<1>3. Closed(nx, T) /\ T \in SUBSET Chans /\ c \in T
  BY <1>1, <1>2 DEF Closed
<1> HIDE DEF T
<1>4. Chain(nx, c) \subseteq T
  BY <1>3, ChainLeast
<1> QED BY <1>4 DEF T, C, D

LEMMA SameNumbers ==
  ASSUME NInv, UNCHANGED <<first, next, id, alive, main, raced>>
  PROVE  NInv'
BY DEF NInv, EachOnce, SearchOnce, Ahead, NumberFree, LinkOnce, Once, List, From

\* A step to where no channel is being replaced.
LEMMA NumbersAlone ==
  ASSUME NInv, UNCHANGED <<first, next, id, alive>>, main'.pc \notin Marking,
         raced' = raced \/ Forget
  PROVE  NInv'
<1>1. EachOnce' = EachOnce
  BY DEF EachOnce, List, From
<1>2. raced' \/ EachOnce
  BY DEF NInv, Forget
<1>3. SearchOnce' /\ Ahead' /\ NumberFree' /\ LinkOnce'
  BY DEF SearchOnce, Ahead, NumberFree, LinkOnce, Marking
<1> QED BY <1>1, <1>2, <1>3 DEF NInv

\* What a callback does to the lists; if the program is searching this one, it
\* must leave what is ahead, or nothing.
LEMMA DisturbedNumbers ==
  ASSUME TInv, NInv, Disturbs, raced => raced',
         ~raced' /\ main.pc = "search" =>
            From(main.c) \subseteq From(main.c)' \/ List(main.x)' = {}
  PROVE  NInv'
<1> SUFFICES ASSUME ~raced' PROVE NInv'
  BY DEF NInv
<1>0. EachOnce /\ SearchOnce /\ Ahead /\ NumberFree /\ LinkOnce /\ Shape /\ MainOK
  BY DEF NInv, TInv
<1>1. /\ \A c \in Chans \cup {NULL} : From(c)' \subseteq From(c)
      /\ \A t \in Timers : List(t)' \subseteq List(t)
  BY <1>0, Shortened DEF Disturbs
<1>2. main' = main /\ id' = id /\ alive' = alive
  BY DEF Disturbs
<1>3. EachOnce'
  BY <1>0, <1>1, <1>2 DEF EachOnce
<1> DEFINE c == main.c
           x == main.x
<1>4. c' = c /\ x' = x
  BY <1>2
<1>5. /\ main.pc \in Marking => x \in Timers
      /\ main.pc \in Marking \ {"alloc"} => c \in Chans
  BY <1>0 DEF MainOK, Marking, Linking
<1> HIDE DEF c, x
<1>6. /\ main.pc \in Marking => List(x)' \subseteq List(x)
      /\ main.pc \in Marking \ {"alloc"} => From(c)' \subseteq From(c)
  BY <1>1, <1>4, <1>5 DEF From, List
<1>7. SearchOnce'
  BY <1>0, <1>2, <1>6 DEF SearchOnce, Once, Marking, c, x
<1>8. Ahead'
  BY <1>0, <1>2, <1>6 DEF Ahead, Marking, c, x
<1>9. NumberFree' /\ LinkOnce'
  BY <1>0, <1>2, <1>6 DEF NumberFree, LinkOnce, Once, Marking, c, x
<1> QED BY <1>3, <1>7, <1>8, <1>9 DEF NInv

LEMMA CallbackRunsNumbers == ASSUME TInv, NInv, CallbackRuns PROVE NInv'
<1> USE DEF objects, lists
<1>0. Shape /\ Links /\ MainOK /\ UNCHANGED <<main, id, alive>>
  BY DEF TInv, CallbackRuns
<1> DEFINE c == main.c
           x == main.x
<1>1. main.pc = "search" => /\ x \in Timers /\ c \in Chans /\ id[c].timer = x
                            /\ next \in Nexts
                            /\ \A d \in From(c) : d \in Chans /\ id[d].timer = x
  <2> SUFFICES ASSUME main.pc = "search"
               PROVE  /\ x \in Timers /\ c \in Chans /\ id[c].timer = x /\ next \in Nexts
                      /\ \A d \in From(c) : d \in Chans /\ id[d].timer = x
    OBVIOUS
  <2>1. x \in Timers /\ c \in Chans /\ id[c].timer = x /\ next \in Nexts
    BY <1>0 DEF MainOK, Linking, Shape
  <2>2. From(c) = {c} \cup From(next[c])
    BY <2>1, ChainStep DEF From
  <2>3. \A d \in From(next[c]) : d \in Chans /\ id[d].timer = x
    BY <1>0, <2>1, ChainAlive
  <2> QED BY <2>1, <2>2, <2>3
<1>2. c' = c /\ x' = x
  BY <1>0
<1> HIDE DEF c, x
\* A step that touches only the pointers of another timer's channels.
<1>3. ASSUME NEW t \in Timers, t # x, main.pc = "search", Shape',
             \A d \in Chans : id[d].timer # t => next'[d] = next[d]
      PROVE  From(c) \subseteq From(c)'
  <2>1. \A d \in From(c) : next'[d] = next[d]
    BY <1>1, <1>3
  <2>2. next' \in Nexts
    BY <1>3 DEF Shape
  <2>3. Chain(next, c) \subseteq Chain(next', c)
    BY <1>1, <1>3, <2>1, <2>2, ChainSame DEF From
  <2> QED BY <1>2, <2>3 DEF From
<1>4. ASSUME NEW t \in Timers, List(t) \subseteq {d \in Chans : id[d].timer = t}
      PROVE  \A d \in Chans : id[d].timer # t => d \notin List(t)
  BY <1>4
<1>5. \A t \in Timers : List(t) \subseteq {d \in Chans : id[d].timer = t}
  BY <1>0, ChainAlive
<1>6. ASSUME NEW t \in alive \cap Timers, Deinit(ftm, t), UNCHANGED raced
      PROVE  NInv'
  <2>1. Disturbs /\ Shape'
    BY <1>0, <1>6, DeinitDisturbs
  <2>2. ASSUME main.pc = "search", t = x
        PROVE  List(x)' = {}
    <3>1. first'[t] = NULL
      BY <1>0, <1>6 DEF Deinit, Shape
    <3> QED BY <1>2, <2>2, <3>1, ChainOfNull DEF List, From
  <2>3. ASSUME main.pc = "search", t # x
        PROVE  From(c) \subseteq From(c)'
    <3>1. \A d \in Chans : id[d].timer # t => next'[d] = next[d]
      BY <1>4, <1>5, <1>6 DEF Deinit
    <3> QED BY <1>3, <2>1, <2>3, <3>1
  <2>4. main.pc = "search" => From(main.c) \subseteq From(main.c)' \/ List(main.x)' = {}
    BY <2>2, <2>3 DEF c, x
  <2> QED BY <1>6, <2>1, <2>4, DisturbedNumbers
<1>7. ASSUME NEW t \in alive \cap Timers, NEW b \in List(t), Replace(ftm, t, b),
             raced' = (raced \/ (main.pc = "search" /\ main.x = t))
      PROVE  NInv'
  <2>1. Disturbs /\ Shape'
    BY <1>0, <1>7, ReplaceDisturbs
  <2>2. ASSUME main.pc = "search", t # x
        PROVE  From(c) \subseteq From(c)'
    <3>1. \A d \in Chans : id[d].timer # t => next'[d] = next[d]
      BY <1>4, <1>5, <1>7 DEF Replace
    <3> QED BY <1>3, <2>1, <2>2, <3>1
  <2>3. ~raced' /\ main.pc = "search" => From(main.c) \subseteq From(main.c)' \/ List(main.x)' = {}
    BY <1>7, <2>2 DEF c, x
  <2>4. raced => raced'
    BY <1>7
  <2> QED BY <2>1, <2>3, <2>4, DisturbedNumbers
<1>8. CASE UNCHANGED <<first, next, raced>>
  BY <1>0, <1>8, SameNumbers
<1> QED BY <1>6, <1>7, <1>8 DEF CallbackRuns, CallbackNone

LEMMA MakeNewNumbers ==
  ASSUME TInv, NInv, NEW t \in Timers, MakeNew(t) PROVE NInv'
<1>0. Shape
  BY DEF TInv
<1>1. /\ alive' = alive \cup {t} /\ first' = [first EXCEPT ![t] = NULL]
      /\ UNCHANGED <<next, id, raced>> /\ main'.pc \in {"base_init", "publish"}
  BY IdleOK DEF MakeNew, Idle
<1>2. \A d \in Timers : List(d)' = IF d = t THEN {} ELSE List(d)
  BY <1>0, <1>1, ChainOfNull DEF Shape, List, From
<1>3. EachOnce => EachOnce'
  BY <1>1, <1>2 DEF EachOnce
<1>4. SearchOnce' /\ Ahead' /\ NumberFree' /\ LinkOnce'
  BY <1>1 DEF SearchOnce, Ahead, NumberFree, LinkOnce
<1> QED BY <1>1, <1>3, <1>4 DEF NInv

LEMMA ChannelNumbers ==
  ASSUME TInv, NInv, NEW t \in Timers, NEW n \in Numbers, Channel(t, n) PROVE NInv'
<1>1. /\ UNCHANGED <<first, next, id, alive, raced>> /\ t \in alive
      /\ main'.x = t /\ main'.c = first[t]
      /\ main'.pc = IF first[t] = NULL THEN "alloc" ELSE "search"
  BY DEF Channel, Idle, objects
<1> SUFFICES ASSUME EachOnce PROVE EachOnce' /\ SearchOnce' /\ Ahead' /\ NumberFree' /\ LinkOnce'
  BY <1>1 DEF NInv
<1>2. EachOnce'
  BY <1>1 DEF EachOnce, List, From
<1>3. List(main.x)' = List(t) /\ From(main.c)' = List(t)
  BY <1>1 DEF List, From
<1>4. SearchOnce'
  BY <1>1, <1>3 DEF SearchOnce, EachOnce, Once
<1>5. Ahead'
  BY <1>3 DEF Ahead
<1>6. NumberFree'
  BY <1>1, <1>3, ChainOfNull DEF NumberFree, List, From
<1>7. LinkOnce'
  BY <1>1 DEF LinkOnce
<1> QED BY <1>2, <1>4, <1>5, <1>6, <1>7

LEMMA SearchNumbers == ASSUME TInv, NInv, Search PROVE NInv'
<1> DEFINE c == main.c
           x == main.x
<1>0. /\ Shape /\ main.pc = "search" /\ next \in Nexts /\ main \in Mains
      /\ x \in Timers \cap alive /\ c \in Chans
  BY DEF TInv, Search, At, MainOK, Linking, Shape
<1>1. UNCHANGED <<first, next, id, alive, raced>>
  BY DEF Search, CallbackNone, objects, lists
<1> SUFFICES ASSUME EachOnce, SearchOnce, Ahead
             PROVE  EachOnce' /\ SearchOnce' /\ Ahead' /\ NumberFree' /\ LinkOnce'
  BY <1>1 DEF NInv
<1>2. EachOnce'
  BY <1>1 DEF EachOnce, List, From
<1>3. Once(List(x) \cup From(c))
  BY <1>0 DEF SearchOnce
<1>4. From(c) = {c} \cup From(next[c])
  BY <1>0, ChainStep DEF From
<1>5. \A d \in List(x) : id[d].channel = main.n => d \in From(c)
  BY <1>0 DEF Ahead
<1>6. CASE id[c].channel = main.n
  <2>1. main'.x = x /\ main'.c = c /\ main'.pc \in {"unlink", "unlink_prev"}
    BY <1>0, <1>6 DEF Search, Goes, Mains
  <2>2. List(main.x)' = List(x) /\ From(main.c)' = From(c)
    BY <1>1, <2>1 DEF List, From
  <2>3. SearchOnce'
    BY <1>1, <1>3, <2>2 DEF SearchOnce, Once
  <2> QED BY <1>2, <2>1, <2>3 DEF Ahead, NumberFree, LinkOnce
<1>7. CASE id[c].channel # main.n /\ next[c] = NULL
  <2>1. main'.x = x /\ main'.pc = "alloc" /\ main'.n = main.n
    BY <1>0, <1>7 DEF Search, Mains
  <2>2. List(main.x)' = List(x)
    BY <1>1, <2>1 DEF List, From
  <2>3. From(c) = {c}
    BY <1>4, <1>7, ChainOfNull DEF From
  <2>4. NumberFree'
    BY <1>1, <1>5, <1>7, <2>1, <2>2, <2>3 DEF NumberFree
  <2> QED BY <1>2, <2>1, <2>4 DEF SearchOnce, Ahead, LinkOnce
<1>8. CASE id[c].channel # main.n /\ next[c] # NULL
  <2>1. main'.x = x /\ main'.c = next[c] /\ main'.pc = "search" /\ main'.n = main.n
    BY <1>0, <1>8 DEF Search, Mains
  <2>2. List(main.x)' = List(x) /\ From(main.c)' = From(next[c])
    BY <1>1, <2>1 DEF List, From
  <2>3. SearchOnce'
    BY <1>1, <1>3, <1>4, <2>2 DEF SearchOnce, Once
  <2>4. Ahead'
    BY <1>1, <1>4, <1>5, <1>8, <2>1, <2>2 DEF Ahead
  <2> QED BY <1>2, <2>1, <2>3, <2>4 DEF NumberFree, LinkOnce
<1> QED BY <1>6, <1>7, <1>8

LEMMA UnlinkPrevNumbers == ASSUME TInv, NInv, UnlinkPrev PROVE NInv'
<1> DEFINE p == main.prev
           c == main.c
           x == main.x
<1>0. /\ Shape /\ Links /\ main.pc = "unlink_prev" /\ next \in Nexts /\ main \in Mains
      /\ x \in Timers \cap alive /\ c \in Chans /\ p \in Chans /\ id[p].timer = x
      /\ next[c] \in Chans \cup {NULL}
  BY DEF TInv, UnlinkPrev, At, MainOK, PrevOK, Linking, Shape, Nexts
<1>1. UNCHANGED <<first, id, alive, raced>> /\ next' = [next EXCEPT ![p] = next[c]]
  BY DEF UnlinkPrev
<1>2. main'.x = x /\ main'.c = c /\ main'.pc = "unlink"
  BY <1>0 DEF UnlinkPrev, Goes, Mains
<1> SUFFICES ASSUME EachOnce, SearchOnce
             PROVE  EachOnce' /\ SearchOnce' /\ Ahead' /\ NumberFree' /\ LinkOnce'
  BY <1>1 DEF NInv
<1> DEFINE S == List(x) \cup From(c)
<1>3. Once(S)
  BY <1>0 DEF SearchOnce
<1>4. From(next[c]) \subseteq From(c)
  BY <1>0, ChainStep DEF From
<1>5. \A a \in Chans \cup {NULL} :
         /\ Chain(next', a) \subseteq Chain(next, a) \cup Chain(next, next[c])
         /\ p \notin Chain(next, a) => Chain(next', a) \subseteq Chain(next, a)
  <2> HIDE DEF p, c
  <2> QED BY <1>0, <1>1, ChainGrows
<1>6. first[x] \in Chans \cup {NULL} /\ \A t \in Timers : first[t] \in Chans \cup {NULL}
  BY <1>0 DEF Shape
<1>7. List(x)' \subseteq S
  BY <1>1, <1>2, <1>4, <1>5, <1>6 DEF List, From
<1>8. From(c)' \subseteq S
  BY <1>0, <1>1, <1>2, <1>4, <1>5 DEF From
<1>9. \A t \in Timers : t # x => List(t)' \subseteq List(t)
  <2> SUFFICES ASSUME NEW t \in Timers, t # x PROVE List(t)' \subseteq List(t)
    OBVIOUS
  <2>1. p \notin List(t)
    BY <1>0, ChainAlive
  <2> QED BY <1>1, <1>5, <1>6, <2>1 DEF List, From
<1>10. List(x)' = List(main.x)' /\ From(c)' = From(main.c)'
  BY <1>2 DEF List, From
<1> HIDE DEF S
<1>11. EachOnce'
  BY <1>1, <1>2, <1>3, <1>7, <1>9 DEF EachOnce, Once
<1>12. SearchOnce'
  BY <1>1, <1>3, <1>7, <1>8, <1>10 DEF SearchOnce, Once
<1> QED BY <1>2, <1>11, <1>12 DEF Ahead, NumberFree, LinkOnce

LEMMA UnlinkNumbers == ASSUME TInv, NInv, Unlink PROVE NInv'
<1> DEFINE c == main.c
           x == main.x
<1>0. /\ Shape /\ Links /\ main.pc = "unlink" /\ next \in Nexts /\ main \in Mains
      /\ x \in Timers \cap alive /\ c \in Chans /\ id[c].channel = main.n
      /\ next[c] \in Chans \cup {NULL}
  BY DEF TInv, Unlink, At, MainOK, Linking, Shape, Nexts
<1>1. /\ UNCHANGED <<id, alive, raced>> /\ next' = [next EXCEPT ![c] = NULL]
      /\ first' = [first EXCEPT ![x] = next[c]]
  BY DEF Unlink
<1>2. main'.x = x /\ main'.n = main.n /\ main'.pc = "alloc"
  BY <1>0 DEF Unlink, Mains
<1> SUFFICES ASSUME EachOnce, SearchOnce
             PROVE  EachOnce' /\ SearchOnce' /\ Ahead' /\ NumberFree' /\ LinkOnce'
  BY <1>1 DEF NInv
<1>3. Once(List(x) \cup From(c))
  BY <1>0 DEF SearchOnce
<1>4. From(c) = {c} \cup From(next[c]) /\ c \notin From(next[c])
  BY <1>0, ChainStep DEF From, Links
<1>5. \A a \in Chans \cup {NULL} : Chain(next', a) \subseteq Chain(next, a)
  <2> HIDE DEF c
  <2> QED BY <1>0, <1>1, ChainGrows, ChainOfNull
<1>6. \A t \in Timers : first'[t] = IF t = x THEN next[c] ELSE first[t]
  BY <1>0, <1>1 DEF Shape
<1>7. List(x)' \subseteq From(next[c])
  BY <1>0, <1>2, <1>5, <1>6 DEF List, From
<1>8. \A t \in Timers : t # x => List(t)' \subseteq List(t)
  BY <1>0, <1>5, <1>6 DEF List, From, Shape
<1>9. List(x)' = List(main.x)'
  BY <1>2 DEF List, From
<1>10. \A d \in From(next[c]) : id[d].channel # main.n
  BY <1>0, <1>3, <1>4 DEF Once
<1> HIDE DEF c
<1>11. EachOnce'
  BY <1>1, <1>2, <1>3, <1>4, <1>7, <1>8 DEF EachOnce, Once
<1>12. NumberFree'
  BY <1>1, <1>2, <1>7, <1>9, <1>10 DEF NumberFree
<1> QED BY <1>2, <1>11, <1>12 DEF SearchOnce, Ahead, LinkOnce

LEMMA NewChannelNumbers == ASSUME TInv, NInv, NewChannel PROVE NInv'
<1> DEFINE x == main.x
<1>0. /\ Shape /\ Owned /\ Links /\ main.pc = "alloc" /\ next \in Nexts /\ main \in Mains
      /\ x \in Timers \cap alive /\ UNCHANGED first
  BY DEF TInv, NewChannel, At, MainOK, Shape
<1>1. CASE main' = Idle /\ Forget /\ UNCHANGED <<cb, next, silent, id, alive>>
  BY <1>0, <1>1, IdleOK, NumbersAlone DEF Marking
<1>2. ASSUME NEW c \in Chans \ alive,
             alive' = alive \cup {c},
             id' = [id EXCEPT ![c] = [timer |-> x, channel |-> main.n]],
             next' = [next EXCEPT ![c] = first[x]],
             main' = [main EXCEPT !.pc = "link", !.c = c],
             UNCHANGED raced
      PROVE  NInv'
  <2> SUFFICES ASSUME EachOnce, NumberFree
               PROVE  EachOnce' /\ SearchOnce' /\ Ahead' /\ NumberFree' /\ LinkOnce'
    BY <1>2 DEF NInv
  <2>1. main'.pc = "link" /\ main'.c = c
    BY <1>0, <1>2 DEF Mains
  <2>2. /\ \A d \in Chans \cap alive : id'[d] = id[d]
        /\ id'[c].channel = main.n
    BY <1>0, <1>2 DEF Owned
  <2>3. \A t \in Timers : \A d \in List(t) : d \in Chans /\ d \in alive
    BY <1>0, ChainAlive
  <2>4. first[x] \in Chans \cup {NULL} /\ \A t \in Timers : first[t] \in Chans \cup {NULL}
    BY <1>0 DEF Shape
  <2>5. \A a \in Chans \cup {NULL} : c \notin Chain(next, a) => Chain(next', a) \subseteq Chain(next, a)
    <3> DEFINE e == first[x]
    <3>1. next \in Nexts /\ c \in Chans /\ e \in Chans \cup {NULL} /\ next' = [next EXCEPT ![c] = e]
      BY <1>0, <1>2, <2>4
    <3> HIDE DEF e, x
    <3> QED BY <3>1, ChainGrows
  <2>6. \A t \in Timers : Chain(next', first[t]) \subseteq List(t)
    BY <1>2, <2>3, <2>4, <2>5 DEF List, From
  <2>7. Chain(next', c) \subseteq {c} \cup List(x)
    <3>1. next' \in Nexts /\ next'[c] = first[x]
      BY <1>0, <1>2, <2>4 DEF Nexts
    <3>2. Chain(next', c) = {c} \cup Chain(next', next'[c])
      BY <3>1, <1>2, ChainStep
    <3> QED BY <1>0, <2>6, <3>1, <3>2
  <2>8. \A d \in List(x) : id[d].channel # main.n
    BY <1>0 DEF NumberFree
  <2>9. alive' \cap Timers = alive \cap Timers
    BY <1>2, TimerAssumption DEF TimerAssumption
  <2>10. EachOnce'
    <3>1. \A t \in Timers : List(t)' \subseteq List(t)
      BY <1>0, <2>6 DEF List, From
    <3> QED BY <2>2, <2>3, <2>9, <3>1 DEF EachOnce
  <2>11. LinkOnce'
    <3>1. From(main.c)' \subseteq {c} \cup List(x)
      BY <2>1, <2>7 DEF From
    <3>2. \A d, e \in List(x) : id[d].channel = id[e].channel => d = e
      BY <1>0 DEF EachOnce
    <3>3. \A d \in List(x) : id'[d] = id[d]
      BY <1>0, <2>2, <2>3
    <3> QED BY <2>2, <2>8, <3>1, <3>2, <3>3 DEF LinkOnce, Once
  <2> QED BY <2>1, <2>10, <2>11 DEF SearchOnce, Ahead, NumberFree
<1> QED BY <1>1, <1>2 DEF NewChannel

LEMMA LinkNumbers == ASSUME TInv, NInv, Link PROVE NInv'
<1> DEFINE c == main.c
           x == main.x
<1>0. Shape /\ main.pc = "link" /\ main \in Mains /\ x \in Timers \cap alive
  BY DEF TInv, Link, At, MainOK, Linking, Shape
<1>1. first' = [first EXCEPT ![x] = c] /\ UNCHANGED <<next, id, alive, raced>>
  BY DEF Link
<1>2. main'.pc = "config"
  BY <1>0 DEF Link, Goes, Mains
<1> SUFFICES ASSUME EachOnce, LinkOnce
             PROVE  EachOnce' /\ SearchOnce' /\ Ahead' /\ NumberFree' /\ LinkOnce'
  BY <1>1 DEF NInv
<1>3. \A t \in Timers : List(t)' = IF t = x THEN From(c) ELSE List(t)
  BY <1>0, <1>1 DEF Shape, List, From
<1>4. Once(From(c))
  BY <1>0 DEF LinkOnce
<1>5. EachOnce'
  BY <1>1, <1>3, <1>4 DEF EachOnce, Once
<1> QED BY <1>2, <1>5 DEF SearchOnce, Ahead, NumberFree, LinkOnce

\* The steps of deinit() and a collection make the lists shorter.
LEMMA ShorterNumbers ==
  ASSUME NInv, UNCHANGED raced, alive' \cap Timers \subseteq alive,
         \A t \in Timers \cap alive' : List(t)' \subseteq List(t),
         \A t \in Timers \cap alive' : \A d \in List(t)' : id'[d] = id[d],
         main'.pc \notin Marking \ {"alloc"},
         main'.pc = "alloc" => main' = main /\ main.x \in Timers \cap alive'
  PROVE  NInv'
<1> SUFFICES ASSUME EachOnce, NumberFree
             PROVE  EachOnce' /\ SearchOnce' /\ Ahead' /\ NumberFree' /\ LinkOnce'
  BY DEF NInv
<1>1. EachOnce'
  BY DEF EachOnce
<1>2. NumberFree'
  <2> SUFFICES ASSUME main'.pc = "alloc"
               PROVE  \A d \in List(main.x)' : id'[d].channel # main'.n
    BY DEF NumberFree
  <2> DEFINE x == main.x
  <2>1. main' = main /\ x \in Timers \cap alive' /\ x' = x
    OBVIOUS
  <2>2. \A d \in List(x) : id[d].channel # main.n
    BY <2>1 DEF NumberFree
  <2> HIDE DEF x
  <2>3. List(x)' \subseteq List(x) /\ \A d \in List(x)' : id'[d] = id[d]
    BY <2>1 DEF List, From
  <2>4. \A d \in List(x)' : id'[d].channel # main'.n
    BY <2>1, <2>2, <2>3
  <2> QED BY <2>4 DEF x
<1> QED BY <1>1, <1>2 DEF SearchOnce, Ahead, LinkOnce, Marking

LEMMA DeinitNumbers == ASSUME TInv, NInv, DeinitList \/ DeinitEach PROVE NInv'
<1>0. Shape /\ MainOK /\ main \in Mains /\ main.x \in Timers
  BY DEF TInv, DeinitList, DeinitEach, At, MainOK, Shape
<1>1. UNCHANGED <<id, alive, raced>> /\ main'.pc = "each"
  BY <1>0 DEF DeinitList, DeinitEach, At, Goes, Mains
<1>2. \A t \in Timers : List(t)' \subseteq List(t)
  <2>1. CASE DeinitList
    <3>1. \A t \in Timers : first'[t] = IF t = main.x THEN NULL ELSE first[t]
      BY <1>0, <2>1 DEF DeinitList, Shape
    <3>2. UNCHANGED next
      BY <2>1 DEF DeinitList
    <3> QED BY <3>1, <3>2, ChainOfNull DEF List, From
  <2>2. CASE DeinitEach
    <3> DEFINE c == main.c
    <3>1. next \in Nexts /\ c \in Chans /\ next' = [next EXCEPT ![c] = NULL] /\ UNCHANGED first
      BY <1>0, <2>2 DEF DeinitEach, At, MainOK, Shape
    <3>2. \A t \in Timers : first[t] \in Chans \cup {NULL}
      BY <1>0 DEF Shape
    <3> HIDE DEF c
    <3>3. \A a \in Chans \cup {NULL} : Chain(next', a) \subseteq Chain(next, a)
      BY <3>1, ChainGrows, ChainOfNull
    <3> QED BY <3>1, <3>2, <3>3 DEF List, From
  <2> QED BY <2>1, <2>2
<1> QED BY <1>1, <1>2, ShorterNumbers DEF Marking

LEMMA CollectNumbers == ASSUME TInv, NInv, Collect PROVE NInv'
<1>0. Shape /\ Owned /\ Links /\ MainOK /\ main.pc \in {"idle", "alloc"}
  BY DEF TInv, Collect, At
<1>1. PICK held \in SUBSET alive :
        /\ main.x \in held \cup {NULL}
        /\ alive' = Reach(held)
        /\ first' = [t \in Timers |-> IF t \in Reach(held) THEN first[t] ELSE NULL]
        /\ next' = [c \in Chans |-> IF c \in Reach(held) THEN next[c] ELSE NULL]
        /\ id' = [c \in Chans |-> IF c \in Reach(held) THEN id[c]
                                  ELSE [timer |-> NULL, channel |-> NULL]]
        /\ UNCHANGED <<main, raced>>
  BY DEF Collect
<1> DEFINE kept == Reach(held)
<1>2. /\ kept \subseteq alive /\ \A y \in kept : Pointers(y) \subseteq kept
      /\ main.x \in Timers => main.x \in kept
  BY <1>0, <1>1, ReachClosed, TimerAssumption DEF Reach, TimerAssumption
<1> HIDE DEF kept
<1>3. /\ alive' = kept
      /\ first' = [t \in Timers |-> IF t \in kept THEN first[t] ELSE NULL]
      /\ next' = [c \in Chans |-> IF c \in kept THEN next[c] ELSE NULL]
      /\ id' = [c \in Chans |-> IF c \in kept THEN id[c]
                                ELSE [timer |-> NULL, channel |-> NULL]]
  BY <1>1 DEF kept
<1>4. /\ \A t \in Timers : first'[t] = IF t \in kept THEN first[t] ELSE NULL
      /\ \A c \in Chans : next'[c] = IF c \in kept THEN next[c] ELSE NULL
      /\ \A c \in Chans \cap kept : id'[c] = id[c]
  BY <1>3
<1>5. \A a \in Chans \cup {NULL} : Chain(next', a) \subseteq Chain(next, a)
  <2>1. \A c \in Chans \cup {NULL} : c \in Chain(next, c) \cup {NULL}
    BY <1>0, ChainStep DEF Shape
  <2>2. Shrinks(next, next')
    BY <1>0, <1>4, <2>1 DEF Shrinks, Shape, Nexts
  <2> QED BY <1>0, <2>2, ChainShrinks DEF Shape
<1>6. \A t \in Timers : List(t)' \subseteq List(t)
  BY <1>0, <1>4, <1>5, ChainOfNull DEF List, From, Shape
<1>7. ASSUME NEW t \in Timers PROVE \A d \in List(t)' : d \in Chans /\ d \in kept
  <2>1. \A c \in Chans : next'[c] # NULL => next'[c] \in Chans \cap kept
    <3> SUFFICES ASSUME NEW c \in Chans, next'[c] # NULL PROVE next'[c] \in Chans \cap kept
      OBVIOUS
    <3>1. c \in kept /\ next'[c] = next[c]
      BY <1>4
    <3>2. next[c] \in Pointers(c)
      BY <3>1, TimerAssumption DEF Pointers, TimerAssumption
    <3> QED BY <1>0, <1>2, <3>1, <3>2 DEF Links
  <2>2. first'[t] # NULL => first'[t] \in Chans \cap kept
    <3> SUFFICES ASSUME first'[t] # NULL PROVE first'[t] \in Chans \cap kept
      OBVIOUS
    <3>1. t \in kept /\ first'[t] = first[t]
      BY <1>4
    <3>2. first[t] \in Pointers(t)
      BY <3>1 DEF Pointers
    <3> QED BY <1>0, <1>2, <3>1, <3>2 DEF Links
  <2> DEFINE T == {c \in Chans : c \in kept}
  <2>3. Closed(next', T) /\ T \in SUBSET Chans /\ first'[t] \in T \cup {NULL}
    BY <2>1, <2>2 DEF Closed
  <2> HIDE DEF T
  <2>4. Chain(next', first'[t]) \subseteq T
    BY <2>3, ChainLeast
  <2>5. \A d \in T : d \in Chans /\ d \in kept
    BY DEF T
  <2>6. List(t)' = Chain(next', first'[t])
    BY DEF List, From
  <2> QED BY <2>4, <2>5, <2>6
<1>8. \A t \in Timers \cap alive' : \A d \in List(t)' : id'[d] = id[d]
  BY <1>4, <1>7
<1>9. main.pc = "alloc" => main.x \in Timers \cap alive'
  BY <1>0, <1>2, <1>3 DEF MainOK
<1> QED BY <1>0, <1>1, <1>2, <1>3, <1>6, <1>8, <1>9, ShorterNumbers DEF Marking

LEMMA QuietNumbers ==
  ASSUME TInv, NInv,
         \/ \E t \in Timers : InitAgain(t) \/ DeinitBegin(t)
         \/ \E x \in Timers \cup Chans : Callback(x)
         \/ InitNew \/ SetCallback \/ StartIT \/ Publish \/ Config \/ DeinitEnd
  PROVE  NInv'
<1>1. UNCHANGED <<first, next, id, alive>>
  BY DEF InitAgain, InitNew, InitHelper, DeinitBegin, Callback, CallbackNone, SetCallback,
     StartIT, Publish, Config, DeinitEnd, objects, lists
<1>2. raced' = raced \/ Forget
  BY DEF InitAgain, InitNew, InitHelper, DeinitBegin, Callback, SetCallback,
     StartIT, Publish, Config, DeinitEnd
<1>3. ASSUME NEW x, NEW new, Done(x, new) PROVE main'.pc \in {"publish", "idle"}
  BY <1>3 DEF Done, Idle
<1>4. ASSUME NEW x, NEW new, InitHelper(x, new) PROVE main'.pc \in {"publish", "idle", "set"}
  BY <1>3, <1>4 DEF InitHelper, Idle
<1>5. main \in Mains
  BY DEF TInv, Shape
<1>6. main'.pc \notin Marking
  <2>1. CASE (\E t \in Timers : InitAgain(t)) \/ InitNew
    BY <1>4, <2>1 DEF InitAgain, InitNew, Marking
  <2>2. CASE \E t \in Timers : DeinitBegin(t)
    BY <2>2 DEF DeinitBegin, Idle, Marking
  <2>3. CASE \E x \in Timers \cup Chans : Callback(x)
    BY <2>3 DEF Callback, Idle, Marking, At
  <2>4. CASE SetCallback
    BY <1>5, <2>4 DEF SetCallback, Goes, Mains, Marking
  <2>5. CASE StartIT
    BY <1>3, <2>5 DEF StartIT, Marking
  <2>6. CASE Publish \/ Config \/ DeinitEnd
    BY <2>6 DEF Publish, Config, DeinitEnd, Idle, Marking
  <2> QED BY <2>1, <2>2, <2>3, <2>4, <2>5, <2>6
<1> QED BY <1>1, <1>2, <1>6, NumbersAlone

LEMMA NInvInit == Init => NInv
<1> SUFFICES ASSUME Init PROVE NInv
  OBVIOUS
<1>1. EachOnce
  BY DEF Init, EachOnce
<1>2. main.pc = "idle"
  BY IdleOK DEF Init
<1> QED BY <1>1, <1>2 DEF NInv, SearchOnce, Ahead, NumberFree, LinkOnce

LEMMA NInvStep == TInv /\ NInv /\ [Next]_vars => NInv'
<1> SUFFICES ASSUME TInv, NInv, [Next]_vars PROVE NInv'
  OBVIOUS
<1>1. CASE UNCHANGED vars
  BY <1>1, SameNumbers DEF vars
<1>2. CASE Event \/ Handler
  BY <1>2, SameNumbers DEF Event, Handler, Enter, HandleChannel, CallbackEnds, HandleRest,
     objects, lists
<1>3. CASE Program
  BY <1>3, MakeNewNumbers, ChannelNumbers, SearchNumbers, UnlinkPrevNumbers,
     UnlinkNumbers, NewChannelNumbers, LinkNumbers, DeinitNumbers, CollectNumbers,
     QuietNumbers
  DEF Program
<1> QED BY <1>1, <1>2, <1>3, CallbackRunsNumbers DEF Next

-----------------------------------------------------------------------------
(* The list of a timer stays a list of its own channels, whatever          *)
(* callbacks do in the middle of the program's channel(), its search       *)
(* included, and deinit().                                                 *)
THEOREM TimerTypeCorrect == Spec => []TimerTypeOK
<1>1. TInv => TimerTypeOK
  BY ListsOK
<1> QED BY <1>1, TInvInit, TInvStep, PTL DEF Spec

(* A number comes into a list twice only if a callback's channel() has met *)
(* the program in the search of its own.                                   *)
THEOREM NumbersOnceCorrect == Spec => []NumbersOnce
<1>1. NInv => NumbersOnce
  BY DEF NInv, NumbersOnce
<1> QED BY <1>1, TInvInit, TInvStep, NInvInit, NInvStep, PTL DEF Spec

(* What was told to stop, itself or as a channel that deinit() or          *)
(* channel() found in the list, has no callback that the handler could     *)
(* reach.                                                                  *)
THEOREM StoppedCorrect == Spec => []StoppedIsSilent
<1>1. TInv => StoppedIsSilent
  BY ListsSilent
<1> QED BY <1>1, TInvInit, TInvStep, PTL DEF Spec

=============================================================================
