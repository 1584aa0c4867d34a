---------------------------- MODULE FlashPipeline ----------------------------
(***************************************************************************)
(* Building and flashing: the part of dev() in PyinArm.py that fills       *)
(* teensy/scripts with the files of a project, runs make and runs the      *)
(* Teensy loader.                                                          *)
(*                                                                         *)
(* os.popen's result is dropped at once, so the handler waits for the      *)
(* command and never sees its exit status: it runs make also when make     *)
(* clean has failed, and the loader also when make has.  Nothing else is   *)
(* served in the meantime.  What can come between two steps is the server  *)
(* being stopped, from its terminal and its command with it; that also     *)
(* forgets the counter `contador'.                                         *)
(***************************************************************************)
EXTENDS Workspace

CONSTANTS FlagBoards,    \* the boards whose page tells a build from a flash: mk66fx1m0
          MaxContador    \* the counter is not observed above this (a bound)

ASSUME FlashAssumption == FlagBoards \subseteq Boards /\ MaxContador \in Nat \ 0 .. 3

VARIABLES
    contador,   \* the global counter of flash requests
    scripts,    \* teensy/scripts, whose files the next build freezes
    hex,        \* build-TEENSY_x/micropython.hex of each board, or None
    frozen,     \* build-TEENSY_x/frozen.c, what the next hex is made of, or None
    device,     \* what the loader wrote into the Teensy last
    request,    \* the flash request being served
    asked,      \* history: the files of the project when a build was last
                \* begun for each board
    unclean     \* history: the boards whose last make clean failed

flash == <<contador, scripts, hex, frozen, device, request, asked, unclean>>
fvars == <<wvars, flash>>

NoRequest == [step |-> "none"]
Idle == request = NoRequest

(* One tree of sources ships with the repository, and a hex of it.         *)
Shipped == <<>>

FlashInit ==
    /\ WorkspaceInit
    /\ contador = 0 /\ scripts = Shipped
    /\ hex = [b \in Boards |-> Shipped] /\ frozen = hex
    /\ asked = hex /\ unclean = {}
    /\ device = None /\ request = NoRequest

-----------------------------------------------------------------------------
(* The counter of the boards without a build flag decides what a request   *)
(* does; the request that finds it at 3 or more does nothing.              *)
Counted == IF contador < MaxContador THEN contador + 1 ELSE contador

StepOf(b, build, count) ==
    IF b \in FlagBoards THEN IF build THEN "clean" ELSE "load"
    ELSE CASE count = 1 -> "clean" [] count \in {2, 3} -> "load" [] OTHER -> "none"

(* Faulty variant, for the mutants: the folder is not emptied first.       *)
Refill_NoWipe(p) ==
    scripts' = [f \in DOMAIN scripts \cup DOMAIN disk.tree[p] |->
                  IF f \in DOMAIN disk.tree[p] THEN disk.tree[p][f] ELSE scripts[f]]

(* teensy/scripts is emptied, then the files of the project are copied.    *)
Refill(p) == scripts' = disk.tree[p]

(* A request to build or to flash project p.                               *)
FlashRequest(p, build) ==
    /\ Idle /\ HasProject(disk, p)
    /\ Refill(p)
    /\ LET count == IF board \in FlagBoards THEN contador ELSE Counted
           step == StepOf(board, build, count)
       IN /\ contador' = count
          /\ request' = IF step = "none" THEN NoRequest
                        ELSE [step |-> step, board |-> board, from |-> p]
    /\ UNCHANGED <<wvars, hex, frozen, device, asked, unclean>>

(* If the project is gone the folder is emptied, and the request fails.    *)
FlashMissing ==
    /\ Idle /\ DOMAIN disk.tree # Projects
    /\ scripts' = <<>>
    /\ UNCHANGED <<wvars, contador, hex, frozen, device, request, asked, unclean>>

(* Faulty variant: make is run without make clean before it.               *)
Clean_Skipped ==
    /\ request.step = "clean"
    /\ asked' = [asked EXCEPT ![request.board] = disk.tree[request.from]]
    /\ request' = [step |-> "make", board |-> request.board, from |-> request.from]
    /\ UNCHANGED <<wvars, contador, scripts, hex, frozen, device, unclean>>

(* make clean removes the build directory of the board; or it fails, and   *)
(* any part of that may be left.                                           *)
Clean ==
    /\ request.step = "clean"
    /\ LET b == request.board IN
       /\ hex' \in {hex, [hex EXCEPT ![b] = None]}
       /\ frozen' \in {frozen, [frozen EXCEPT ![b] = None]}
       /\ unclean' = IF hex'[b] = None /\ frozen'[b] = None THEN unclean \ {b}
                     ELSE unclean \cup {b}
       /\ asked' = [asked EXCEPT ![b] = disk.tree[request.from]]
    /\ request' = [step |-> "make", board |-> request.board, from |-> request.from]
    /\ UNCHANGED <<wvars, contador, scripts, device>>

(* frozen.c is made anew if there is none or if a script is newer, as all  *)
(* are that were just copied; of no scripts none is newer, and an old      *)
(* frozen.c may stay.                                                      *)
Freeze(b) ==
    \/ frozen' = [frozen EXCEPT ![b] = scripts]
    \/ frozen[b] # None /\ DOMAIN scripts = {} /\ UNCHANGED frozen

(* make freezes the scripts and makes a hex of them, or fails before or    *)
(* after the first; the page says "Build finish" in each case.             *)
Make ==
    /\ request.step = "make"
    /\ LET b == request.board IN
       \/ Freeze(b) /\ hex' \in {hex, [hex EXCEPT ![b] = frozen'[b]]}
       \/ UNCHANGED <<hex, frozen>>
    /\ request' = NoRequest
    /\ UNCHANGED <<wvars, contador, scripts, device, asked, unclean>>

(* The loader waits for the Teensy and writes the hex, or fails: always    *)
(* when there is none.                                                     *)
Load ==
    /\ request.step = "load"
    /\ LET b == request.board
           count == IF b \in FlagBoards THEN Counted ELSE contador
       IN /\ \/ hex[b] # None /\ device' = [mcu |-> b, image |-> hex[b]]
             \/ UNCHANGED device
          /\ contador' = IF b \notin FlagBoards /\ count = 3 THEN 0 ELSE count
    /\ request' = NoRequest
    /\ UNCHANGED <<wvars, scripts, hex, frozen, asked, unclean>>

(* The server is stopped, in a request or between two, and started again:  *)
(* scripts may be left with any part of the files.                         *)
Stop ==
    /\ Restart
    /\ contador' = 0 /\ request' = NoRequest
    /\ \/ UNCHANGED scripts
       \/ \E kept \in SUBSET DOMAIN scripts : scripts' = Restrict(scripts, kept)
    /\ UNCHANGED <<hex, frozen, device, asked, unclean>>

(* Faulty variant: a request is served while a command runs.               *)
Serve_Meanwhile == Request /\ UNCHANGED flash

(* Any other request, served when no command runs.                         *)
Serve == Idle /\ Request /\ UNCHANGED flash

FlashNext ==
    \/ Serve
    \/ \E p \in Projects, build \in BOOLEAN : FlashRequest(p, build)
    \/ FlashMissing
    \/ Clean \/ Make \/ Load
    \/ Stop

FlashSpec == FlashInit /\ [][FlashNext]_fvars

-----------------------------------------------------------------------------
IsSnapshot(s) == DOMAIN s \subseteq Files /\ \A f \in DOMAIN s : s[f] \in Texts

FlashTypeOK ==
    /\ WorkspaceTypeOK
    /\ contador \in 0 .. MaxContador
    /\ IsSnapshot(scripts)
    /\ \A b \in Boards : /\ hex[b] = None \/ IsSnapshot(hex[b])
                         /\ frozen[b] = None \/ IsSnapshot(frozen[b])
                         /\ IsSnapshot(asked[b])
    /\ unclean \subseteq Boards
    /\ device # None => device.mcu \in Boards /\ IsSnapshot(device.image)
    /\ ~Idle => /\ request.step \in {"clean", "make", "load"}
                /\ request.board \in Boards /\ request.from \in DOMAIN disk.tree

(* Whatever requests, failures and restarts came before, what is built for *)
(* a board is all that one project had when a build was asked for: never   *)
(* files of two projects, nor one deleted since.  frozen.c changes only to *)
(* what the last build asked for, and a hex only to what is in frozen.c -  *)
(* which, where make clean failed, may be of an earlier build.             *)
HexIsOneProject ==
    [][ \A b \in Boards : /\ frozen'[b] \in {frozen[b], None, asked'[b]}
                          /\ hex'[b] \in {hex[b], None, frozen'[b]} ]_fvars

(* The loader may write an image older than the last build asked for that  *)
(* board, since nobody looks at make's exit status; but only if make clean *)
(* failed.  A make that failed, a server stopped half way or a counter     *)
(* moved on by another board does not flash an old image by itself.        *)
StaleOnlyIfUnclean ==
    [][ device' # device =>
           device'.image = asked[device'.mcu] \/ device'.mcu \in unclean ]_fvars
=============================================================================
