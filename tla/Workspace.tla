------------------------------ MODULE Workspace ------------------------------
(***************************************************************************)
(* The projects the IDE keeps on disk, as the handlers projeto() and dev() *)
(* of PyinArm.py change them, and the board kept in config.ini.            *)
(*                                                                         *)
(* The server is one thread of gevent, which is not monkey-patched: a      *)
(* handler runs to its end without another one, except where it reads the  *)
(* body of a request.  dev() does that in the middle of a save, when the   *)
(* file is open and already empty.  An operation is named in the URL of a  *)
(* page, and the form of the editor posts to that URL: a save is followed  *)
(* by whatever operation the page's URL still names.                       *)
(*                                                                         *)
(* A text is what one browser tab has in its editor.  Files are listed by  *)
(* name; folders inside a project are left out.                            *)
(***************************************************************************)
EXTENDS Naturals, FiniteSets, Functions

CONSTANTS Projects,     \* names a project may have
          Files,        \* names a file may have
          Templates,    \* the files of script/, copied into a new project
          Tabs,         \* browser tabs, each with a text of its own
          Boards,       \* the boards offered by board.html
          DefaultBoard, \* mk66fx1m0
          FormUrls,     \* operations named by the URL of a page with a form (a bound)
          None

(* The file operation that the URL of a page of dev() names, if any.       *)
Ops == [op : {"none"}] \cup [op : {"newfile", "deletefile"}, file : Files]
       \cup [op : {"editfile"}, file : Files, new : Files]

ASSUME WorkspaceAssumption ==
    /\ IsFiniteSet(Projects) /\ IsFiniteSet(Files) /\ IsFiniteSet(Tabs)
    /\ Templates \subseteq Files
    /\ DefaultBoard \in Boards
    /\ \A url \in FormUrls : url \in Ops
    /\ None \notin Boards \cup Projects \cup (Projects \X Files)
    /\ None \notin [name : Projects \X Files, at : (Projects \X Files) \cup {None}, url : FormUrls]

VARIABLES
    disk,      \* tree: the projects, their files and the texts of these;
               \* open: the save that a tab has begun, if any
    board      \* config.ini, DEFAULT/board

wvars == <<disk, board>>

\* texts that no tab typed: of script/, of a truncated file, and of a file
\* that two open handles wrote one over the other
Texts == Tabs \cup {"template", "", "mixed"}

HasProject(d, p) == p \in DOMAIN d.tree
HasFile(d, p, f) == HasProject(d, p) /\ f \in DOMAIN d.tree[p]

Without(fun, x) == Restrict(fun, DOMAIN fun \ {x})
With(fun, x, v) == [y \in DOMAIN fun \cup {x} |-> IF y = x THEN v ELSE fun[y]]

-----------------------------------------------------------------------------
(***************************************************************************)
(* What an operation makes of the disk.  One that cannot be done leaves it *)
(* as it is, and the page shows an error.                                  *)
(***************************************************************************)

(* An open file follows its file when that is moved, and is left without   *)
(* one when the file is removed or replaced.                               *)
Follow(open, move(_)) ==
    [t \in Tabs |-> IF open[t] = None \/ open[t].at = None THEN open[t]
                    ELSE [open[t] EXCEPT !.at = move(@)]]

(* Faulty variant, for the mutants: no test that the project is new.       *)
NewProject_NoCheck(d, p) ==
    [d EXCEPT !.tree = With(@, p, [f \in Templates |-> "template"])]

NewProject(d, p) ==
    IF HasProject(d, p) THEN d
    ELSE [d EXCEPT !.tree = With(@, p, [f \in Templates |-> "template"])]

DeleteProject(d, p) ==
    IF ~HasProject(d, p) THEN d
    ELSE [tree |-> Without(d.tree, p),
          open |-> Follow(d.open, LAMBDA at : IF at[1] = p THEN None ELSE at)]

(* os.renames moves a folder to a new name, or over an empty folder.       *)
RenameProject(d, old, new) ==
    IF \/ ~HasProject(d, old) \/ new = old
       \/ HasProject(d, new) /\ DOMAIN d.tree[new] # {}
    THEN d
    ELSE [tree |-> With(Without(d.tree, old), new, d.tree[old]),
          open |-> Follow(d.open, LAMBDA at : IF at[1] = old THEN <<new, at[2]>> ELSE at)]

(* Faulty variant: no test that the file is new.                           *)
NewFile_NoCheck(d, p, f) ==
    IF HasProject(d, p) THEN [d EXCEPT !.tree[p] = With(@, f, "")] ELSE d

NewFile(d, p, f) ==
    IF HasProject(d, p) /\ ~HasFile(d, p, f)
    THEN [d EXCEPT !.tree[p] = With(@, f, "")] ELSE d

DeleteFile(d, p, f) ==
    IF ~HasFile(d, p, f) THEN d
    ELSE [tree |-> [d.tree EXCEPT ![p] = Without(@, f)],
          open |-> Follow(d.open, LAMBDA at : IF at = <<p, f>> THEN None ELSE at)]

(* os.renames replaces a file of the new name without a word.              *)
RenameFile(d, p, old, new) ==
    IF ~HasFile(d, p, old) \/ new = old THEN d
    ELSE [tree |-> [d.tree EXCEPT ![p] = With(Without(@, old), new, @[old])],
          open |-> Follow(d.open, LAMBDA at : IF at = <<p, old>> THEN <<p, new>>
                                              ELSE IF at = <<p, new>> THEN None ELSE at)]

FileOp(d, p, url) ==
    CASE url.op = "none"       -> d
      [] url.op = "newfile"    -> NewFile(d, p, url.file)
      [] url.op = "deletefile" -> DeleteFile(d, p, url.file)
      [] url.op = "editfile"   -> RenameFile(d, p, url.file, url.new)

-----------------------------------------------------------------------------
WorkspaceInit ==
    /\ disk = [tree |-> <<>>, open |-> [t \in Tabs |-> None]]
    /\ board = DefaultBoard

(* A board of the board page: projeto() writes it to config.ini ...        *)
PickBoard(b) ==
    /\ board' = b
    /\ UNCHANGED disk

(* Faulty variant: request.args.get('board') without its default.          *)
Projeto_NoDefault ==
    /\ board' = None
    /\ UNCHANGED disk

(* ... as it does with the default when the URL names no board, which none *)
(* of the other links to the page does.                                    *)
Projeto ==
    /\ board' = DefaultBoard
    /\ \/ \E p \in Projects : disk' \in {disk, NewProject(disk, p), DeleteProject(disk, p)}
       \/ \E old, new \in Projects : disk' = RenameProject(disk, old, new)

(* dev() without a form: one operation on a file.                          *)
Dev ==
    /\ \E p \in Projects, url \in Ops : disk' = FileOp(disk, p, url)
    /\ UNCHANGED board

(* dev() with a form: the file is opened for writing, which empties it, and*)
(* the handler waits for the text.                                         *)
SaveBegin(t) ==
    /\ disk.open[t] = None
    /\ \E p \in Projects, f \in Files, url \in FormUrls :
          /\ HasFile(disk, p, f)
          /\ disk' = [disk EXCEPT
                        !.tree[p][f] = "",
                        !.open[t] = [name |-> <<p, f>>, at |-> <<p, f>>, url |-> url]]
    /\ UNCHANGED board

(* The text is stored from the start of the open file; another handle may  *)
(* have stored a longer one there.                                         *)
Stored(d, t) ==
    LET at == d.open[t].at
        Put(text) == [tree |-> [d.tree EXCEPT ![at[1]][at[2]] = text],
                      open |-> [d.open EXCEPT ![t] = None]]
    IN IF at = None THEN {[d EXCEPT !.open[t] = None]}
       ELSE IF d.tree[at[1]][at[2]] = "" THEN {Put(t)}
       ELSE {Put(t), Put("mixed")}

(* The name is opened again, to show its text, and what the URL names is   *)
(* done; if the name is gone the request ends there.                       *)
SaveEnd(t) ==
    /\ disk.open[t] # None
    /\ \E stored \in Stored(disk, t) :
          LET p == disk.open[t].name[1]
              f == disk.open[t].name[2]
          IN disk' = IF HasFile(stored, p, f) THEN FileOp(stored, p, disk.open[t].url)
                     ELSE stored
    /\ UNCHANGED board

(* The connection breaks before the text has come.                         *)
SaveAbort(t) ==
    /\ disk.open[t] # None
    /\ disk' = [disk EXCEPT !.open[t] = None]
    /\ UNCHANGED board

(* The server is stopped and started again.                                *)
Restart ==
    /\ disk' = [disk EXCEPT !.open = [t \in Tabs |-> None]]
    /\ UNCHANGED board

Request ==
    \/ \E b \in Boards : PickBoard(b)
    \/ Projeto \/ Dev
    \/ \E t \in Tabs : SaveBegin(t) \/ SaveEnd(t) \/ SaveAbort(t)

WorkspaceNext == Request \/ Restart

WorkspaceSpec == WorkspaceInit /\ [][WorkspaceNext]_wvars

-----------------------------------------------------------------------------
(* The shape of the disk, and that an open file is one that exists.        *)
WorkspaceTypeOK ==
    /\ DOMAIN disk.tree \subseteq Projects
    /\ \A p \in DOMAIN disk.tree :
          /\ DOMAIN disk.tree[p] \subseteq Files
          /\ \A f \in DOMAIN disk.tree[p] : disk.tree[p][f] \in Texts
    /\ \A t \in Tabs : disk.open[t] = None \/
          /\ disk.open[t].name \in Projects \X Files
          /\ disk.open[t].at = None \/ HasFile(disk, disk.open[t].at[1], disk.open[t].at[2])
          /\ disk.open[t].url \in FormUrls
    /\ board \in Boards

(* Where a text is.                                                        *)
Places(d, text) ==
    {at \in Projects \X Files : HasFile(d, at[1], at[2]) /\ d.tree[at[1]][at[2]] = text}

(* Does a URL ask to remove or to replace the file?                        *)
Asked(url, f) ==
    \/ url.op = "deletefile" /\ url.file = f
    \/ url.op = "editfile" /\ url.new = f

(* The last copy of a text that somebody saved disappears only in a step   *)
(* of a request for that very file, by the name it has or had when it was  *)
(* opened, or for its project: a deletion, a rename onto it, or a save.  A *)
(* save destroys it already when it opens the file; if its own text then   *)
(* never comes (SaveAbort, Restart) nothing takes the place of the old one.*)
(* What no interleaving of open saves, renames, creations and restarts     *)
(* does is to destroy the text of any other file.                          *)
OnlyTheNamedIsLost ==
    [][ \A text \in Tabs, p \in Projects, f \in Files :
          <<p, f>> \in Places(disk, text) /\ Places(disk', text) = {} =>
             \/ disk' = DeleteProject(disk, p)
             \/ \E url \in Ops : Asked(url, f) /\ disk' = FileOp(disk, p, url)
             \/ \E t \in Tabs :
                   \/ disk.open[t] = None /\ disk'.open[t] # None
                      /\ disk'.open[t].name = <<p, f>>
                   \/ disk.open[t] # None /\ disk'.open[t] = None
                      /\ (\/ disk.open[t].at = <<p, f>>
                          \/ disk.open[t].name[1] = p /\ Asked(disk.open[t].url, f)) ]_wvars

(* A save that nobody disturbed has its text in the file when the request  *)
(* ends, although the operation its URL still names has been done once     *)
(* more: unless that operation removes, moves or replaces the file.        *)
SaveSurvivesItsUrl ==
    [][ \A t \in Tabs :
          LET save == disk.open[t] IN
          /\ SaveEnd(t)
          /\ save.at = save.name
          /\ disk.tree[save.at[1]][save.at[2]] = ""
          /\ save.url.op \in {"none", "newfile"}
          => disk'.tree[save.name[1]][save.name[2]] = t ]_wvars
=============================================================================
