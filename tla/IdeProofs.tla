----------------------------- MODULE IdeProofs -----------------------------
(***************************************************************************)
(* Proofs about Workspace and FlashPipeline, for every set of projects,    *)
(* files, tabs and boards.                                                 *)
(***************************************************************************)
EXTENDS FlashPipeline, TLAPS

-----------------------------------------------------------------------------
(* A disk of the right shape: WorkspaceTypeOK, and that the records and    *)
(* functions it speaks of are ones.                                        *)
OpenOK(d, o) ==
    /\ o = [name |-> o.name, at |-> o.at, url |-> o.url]
    /\ o.name \in Projects \X Files
    /\ o.at = None \/ (o.at \in Projects \X Files /\ HasFile(d, o.at[1], o.at[2]))
    /\ o.url \in FormUrls

TreeOK(d) ==
    /\ DOMAIN d.tree \subseteq Projects
    /\ \A p \in DOMAIN d.tree :
          /\ DOMAIN d.tree[p] \subseteq Files
          /\ \A f \in DOMAIN d.tree[p] : d.tree[p][f] \in Texts

DiskOK(d) ==
    /\ d = [tree |-> d.tree, open |-> d.open]
    /\ TreeOK(d)
    /\ DOMAIN d.open = Tabs
    /\ \A t \in Tabs : d.open[t] = None \/ OpenOK(d, d.open[t])

(* What one operation on a project or a file does to both.                 *)
LEMMA NewProjectOK ==
    ASSUME NEW d, DiskOK(d), NEW p \in Projects
    PROVE  DiskOK(NewProject(d, p))
<1> DEFINE e == NewProject(d, p)
<1>1. CASE HasProject(d, p)
  BY <1>1 DEF NewProject
<1>2. CASE ~HasProject(d, p)
  <2>1. e.open = d.open /\ e.tree = With(d.tree, p, [f \in Templates |-> "template"])
        /\ e = [tree |-> e.tree, open |-> e.open]
    BY <1>2 DEF NewProject, DiskOK
  <2>2. /\ DOMAIN e.tree = DOMAIN d.tree \cup {p}
        /\ \A q \in DOMAIN d.tree : e.tree[q] = d.tree[q]
        /\ e.tree[p] = [f \in Templates |-> "template"]
    BY <1>2, <2>1 DEF With, HasProject
  <2> HIDE DEF e
  <2>3. TreeOK(e)
    <3>1. Templates \subseteq Files /\ "template" \in Texts
      BY WorkspaceAssumption DEF Texts
    <3> SUFFICES ASSUME NEW q \in DOMAIN e.tree
                 PROVE  /\ DOMAIN e.tree[q] \subseteq Files
                        /\ \A f \in DOMAIN e.tree[q] : e.tree[q][f] \in Texts
      BY <2>2 DEF TreeOK, DiskOK
    <3>2. CASE q = p
      BY <2>2, <3>1, <3>2
    <3>3. CASE q # p
      BY <2>2, <3>3 DEF DiskOK, TreeOK
    <3> QED BY <3>2, <3>3
  <2>4. ASSUME NEW t \in Tabs PROVE e.open[t] = None \/ OpenOK(e, e.open[t])
    <3> DEFINE o == d.open[t]
    <3>1. o = None \/ OpenOK(d, o)
      BY DEF DiskOK
    <3>2. e.open[t] = o
      BY <2>1
    <3> HIDE DEF o
    <3>3. ASSUME OpenOK(d, o) PROVE OpenOK(e, o)
      <4>1. ASSUME HasFile(d, o.at[1], o.at[2]) PROVE HasFile(e, o.at[1], o.at[2])
        BY <2>2, <4>1 DEF HasFile, HasProject
      <4> QED BY <3>3, <4>1 DEF OpenOK
    <3> QED BY <3>1, <3>2, <3>3
  <2>5. DiskOK(e)
    <3>1. DOMAIN e.open = Tabs
      BY <2>1 DEF DiskOK
    <3> QED BY <2>1, <2>3, <2>4, <3>1 DEF DiskOK
  <2> QED BY <2>5 DEF e
<1> QED BY <1>1, <1>2

LEMMA DeleteProjectOK ==
    ASSUME NEW d, DiskOK(d), NEW p \in Projects
    PROVE  DiskOK(DeleteProject(d, p))
<1> DEFINE e == DeleteProject(d, p)
<1>1. CASE ~HasProject(d, p)
  BY <1>1 DEF DeleteProject
<1>2. CASE HasProject(d, p)
  <2>1. /\ e = [tree |-> e.tree, open |-> e.open]
        /\ e.tree = Without(d.tree, p)
        /\ e.open = [t \in Tabs |-> IF d.open[t] = None \/ d.open[t].at = None THEN d.open[t]
                    ELSE [d.open[t] EXCEPT !.at = IF d.open[t].at[1] = p THEN None ELSE d.open[t].at]]
    BY <1>2 DEF DeleteProject, Follow
  <2>2. /\ DOMAIN e.tree = DOMAIN d.tree \ {p}
        /\ \A q \in DOMAIN e.tree : e.tree[q] = d.tree[q]
    BY <2>1 DEF Without, Restrict
  <2> HIDE DEF e
  <2>3. TreeOK(e)
    BY <2>2 DEF DiskOK, TreeOK
  <2>4. ASSUME NEW t \in Tabs PROVE e.open[t] = None \/ OpenOK(e, e.open[t])
    <3>1. d.open[t] = None \/ OpenOK(d, d.open[t])
      BY DEF DiskOK
    <3> DEFINE o == d.open[t]
               o2 == e.open[t]
    <3>2. o2 = IF o = None \/ o.at = None THEN o
               ELSE [o EXCEPT !.at = IF o.at[1] = p THEN None ELSE o.at]
      BY <2>1
    <3> HIDE DEF o, o2
    <3> QED BY <3>1, <3>2, <2>2 DEF OpenOK, HasFile, HasProject, o, o2
  <2>5. DiskOK(e)
    <3>1. DOMAIN e.open = Tabs
      BY <2>1 DEF DiskOK
    <3> QED BY <2>1, <2>3, <2>4, <3>1 DEF DiskOK
  <2> QED BY <2>5 DEF e
<1> QED BY <1>1, <1>2

LEMMA RenameProjectOK ==
    ASSUME NEW d, DiskOK(d), NEW old \in Projects, NEW new \in Projects
    PROVE  DiskOK(RenameProject(d, old, new))
<1> DEFINE e == RenameProject(d, old, new)
           same == \/ ~HasProject(d, old) \/ new = old
                   \/ HasProject(d, new) /\ DOMAIN d.tree[new] # {}
<1>1. CASE same
  BY <1>1 DEF RenameProject
<1>2. CASE ~same
  <2>1. /\ e = [tree |-> e.tree, open |-> e.open]
        /\ e.tree = With(Without(d.tree, old), new, d.tree[old])
        /\ e.open = [t \in Tabs |-> IF d.open[t] = None \/ d.open[t].at = None THEN d.open[t]
                    ELSE [d.open[t] EXCEPT !.at = IF d.open[t].at[1] = old THEN <<new, d.open[t].at[2]>>
                                                  ELSE d.open[t].at]]
    BY <1>2 DEF RenameProject, Follow
  <2>2. /\ DOMAIN e.tree = (DOMAIN d.tree \ {old}) \cup {new}
        /\ \A q \in DOMAIN e.tree \ {new} : e.tree[q] = d.tree[q]
        /\ e.tree[new] = d.tree[old]
        /\ old \in DOMAIN d.tree /\ new # old
        /\ new \in DOMAIN d.tree => DOMAIN d.tree[new] = {}
    BY <1>2, <2>1 DEF Without, With, Restrict, HasProject
  <2> HIDE DEF e, same
  <2>3. TreeOK(e)
    <3>1. DOMAIN e.tree \subseteq Projects
      BY <2>2 DEF DiskOK, TreeOK
    <3>2. ASSUME NEW q \in DOMAIN e.tree
          PROVE  /\ DOMAIN e.tree[q] \subseteq Files
                 /\ \A f \in DOMAIN e.tree[q] : e.tree[q][f] \in Texts
      <4>1. \E r \in DOMAIN d.tree : e.tree[q] = d.tree[r]
        BY <2>2
      <4> QED BY <4>1 DEF DiskOK, TreeOK
    <3> QED BY <3>1, <3>2 DEF TreeOK
  <2>4. ASSUME NEW t \in Tabs PROVE e.open[t] = None \/ OpenOK(e, e.open[t])
    <3>1. d.open[t] = None \/ OpenOK(d, d.open[t])
      BY DEF DiskOK
    <3> DEFINE o == d.open[t]
               o2 == e.open[t]
    <3>2. o2 = IF o = None \/ o.at = None THEN o
               ELSE [o EXCEPT !.at = IF o.at[1] = old THEN <<new, o.at[2]>> ELSE o.at]
      BY <2>1
    <3> HIDE DEF o, o2
    <3>3. CASE o = None \/ o.at = None
      BY <3>1, <3>2, <3>3 DEF OpenOK, o, o2
    <3>4. CASE o # None /\ o.at # None
      <4>1. PICK q \in Projects, f \in Files : o.at = <<q, f>>
        BY <3>1, <3>4 DEF OpenOK, o
      <4>2. HasFile(d, q, f)
        BY <3>1, <3>4, <4>1 DEF OpenOK, o
      <4>3. o2 = [name |-> o.name, at |-> IF q = old THEN <<new, f>> ELSE <<q, f>>, url |-> o.url]
        BY <3>1, <3>2, <3>4, <4>1 DEF OpenOK, o
      <4>4. q = old => HasFile(e, new, f)
        BY <2>2, <4>2 DEF HasFile, HasProject
      <4>5. q # old => HasFile(e, q, f)
        BY <2>2, <4>2 DEF HasFile, HasProject
      <4> QED BY <3>1, <3>4, <4>3, <4>4, <4>5 DEF OpenOK, o, o2
    <3> QED BY <3>3, <3>4
  <2>5. DiskOK(e)
    <3>1. DOMAIN e.open = Tabs
      BY <2>1 DEF DiskOK
    <3> QED BY <2>1, <2>3, <2>4, <3>1 DEF DiskOK
  <2> QED BY <2>5 DEF e
<1> QED BY <1>1, <1>2

(* Only the files of one project are changed.                              *)
LEMMA FilesChanged ==
    ASSUME NEW d, DiskOK(d), NEW p \in DOMAIN d.tree, NEW files,
           DOMAIN files \subseteq Files, \A f \in DOMAIN files : files[f] \in Texts,
           NEW e, e.tree = [d.tree EXCEPT ![p] = files]
    PROVE  /\ TreeOK(e)
           /\ DOMAIN e.tree = DOMAIN d.tree
           /\ \A q \in DOMAIN d.tree : e.tree[q] = IF q = p THEN files ELSE d.tree[q]
<1>1. /\ DOMAIN e.tree = DOMAIN d.tree
      /\ \A q \in DOMAIN d.tree : e.tree[q] = IF q = p THEN files ELSE d.tree[q]
  OBVIOUS
<1>2. TreeOK(e)
  BY <1>1 DEF DiskOK, TreeOK
<1> QED BY <1>1, <1>2

LEMMA NewFileOK ==
    ASSUME NEW d, DiskOK(d), NEW p \in Projects, NEW f \in Files
    PROVE  DiskOK(NewFile(d, p, f))
<1> DEFINE e == NewFile(d, p, f)
<1>1. CASE ~(HasProject(d, p) /\ ~HasFile(d, p, f))
  BY <1>1 DEF NewFile
<1>2. CASE HasProject(d, p) /\ ~HasFile(d, p, f)
  <2> DEFINE files == With(d.tree[p], f, "")
  <2>1. /\ e = [tree |-> e.tree, open |-> d.open] /\ e.open = d.open
        /\ e.tree = [d.tree EXCEPT ![p] = files]
    BY <1>2 DEF NewFile, DiskOK
  <2>2. /\ DOMAIN files = DOMAIN d.tree[p] \cup {f} /\ DOMAIN files \subseteq Files
        /\ \A g \in DOMAIN files : files[g] \in Texts
    BY <1>2 DEF With, HasProject, DiskOK, TreeOK, Texts
  <2> HIDE DEF e, files
  <2>3. /\ TreeOK(e) /\ DOMAIN e.tree = DOMAIN d.tree
        /\ \A q \in DOMAIN d.tree : e.tree[q] = IF q = p THEN files ELSE d.tree[q]
    <3>1. p \in DOMAIN d.tree
      BY <1>2 DEF HasProject
    <3> QED BY <3>1, <2>1, <2>2, FilesChanged
  <2>4. ASSUME NEW t \in Tabs PROVE e.open[t] = None \/ OpenOK(e, e.open[t])
    <3>1. \A q, g : HasFile(d, q, g) => HasFile(e, q, g)
      BY <2>2, <2>3 DEF HasFile, HasProject
    <3>2. d.open[t] = None \/ OpenOK(d, d.open[t])
      BY DEF DiskOK
    <3> DEFINE o == d.open[t]
    <3>3. e.open[t] = o
      BY <2>1
    <3> HIDE DEF o
    <3> QED BY <3>1, <3>2, <3>3 DEF OpenOK, o
  <2>5. DiskOK(e)
    BY <2>1, <2>3, <2>4 DEF DiskOK
  <2> QED BY <2>5 DEF e
<1> QED BY <1>1, <1>2

LEMMA DeleteFileOK ==
    ASSUME NEW d, DiskOK(d), NEW p \in Projects, NEW f \in Files
    PROVE  DiskOK(DeleteFile(d, p, f))
<1> DEFINE e == DeleteFile(d, p, f)
<1>1. CASE ~HasFile(d, p, f)
  BY <1>1 DEF DeleteFile
<1>2. CASE HasFile(d, p, f)
  <2> DEFINE files == Without(d.tree[p], f)
  <2>1. /\ e = [tree |-> e.tree, open |-> e.open]
        /\ e.tree = [d.tree EXCEPT ![p] = files]
        /\ e.open = [t \in Tabs |-> IF d.open[t] = None \/ d.open[t].at = None THEN d.open[t]
                    ELSE [d.open[t] EXCEPT !.at = IF d.open[t].at = <<p, f>> THEN None ELSE d.open[t].at]]
    BY <1>2 DEF DeleteFile, Follow
  <2>2. /\ DOMAIN files = DOMAIN d.tree[p] \ {f} /\ DOMAIN files \subseteq Files
        /\ \A g \in DOMAIN files : files[g] \in Texts
    BY <1>2 DEF Without, Restrict, HasFile, HasProject, DiskOK, TreeOK
  <2> HIDE DEF e, files
  <2>3. /\ TreeOK(e) /\ DOMAIN e.tree = DOMAIN d.tree
        /\ \A q \in DOMAIN d.tree : e.tree[q] = IF q = p THEN files ELSE d.tree[q]
    <3>1. p \in DOMAIN d.tree
      BY <1>2 DEF HasFile, HasProject
    <3> QED BY <3>1, <2>1, <2>2, FilesChanged
  <2>4. ASSUME NEW t \in Tabs PROVE e.open[t] = None \/ OpenOK(e, e.open[t])
    <3>1. d.open[t] = None \/ OpenOK(d, d.open[t])
      BY DEF DiskOK
    <3> DEFINE o == d.open[t]
               o2 == e.open[t]
    <3>2. o2 = IF o = None \/ o.at = None THEN o
               ELSE [o EXCEPT !.at = IF o.at = <<p, f>> THEN None ELSE o.at]
      BY <2>1
    <3> HIDE DEF o, o2
    <3>3. CASE o = None \/ o.at = None
      BY <3>1, <3>2, <3>3 DEF OpenOK, o, o2
    <3>4. CASE o # None /\ o.at # None
      <4>1. PICK q \in Projects, g \in Files : o.at = <<q, g>>
        BY <3>1, <3>4 DEF OpenOK, o
      <4>2. HasFile(d, q, g)
        BY <3>1, <3>4, <4>1 DEF OpenOK, o
      <4>3. o2 = [name |-> o.name, at |-> IF q = p /\ g = f THEN None ELSE <<q, g>>, url |-> o.url]
        BY <3>1, <3>2, <3>4, <4>1 DEF OpenOK, o
      <4>4. ~(q = p /\ g = f) => HasFile(e, q, g)
        BY <2>2, <2>3, <4>2 DEF HasFile, HasProject
      <4> QED BY <3>1, <3>4, <4>1, <4>3, <4>4 DEF OpenOK, o, o2
    <3> QED BY <3>3, <3>4
  <2>5. DiskOK(e)
    <3>1. DOMAIN e.open = Tabs
      BY <2>1 DEF DiskOK
    <3> QED BY <2>1, <2>3, <2>4, <3>1 DEF DiskOK
  <2> QED BY <2>5 DEF e
<1> QED BY <1>1, <1>2

LEMMA RenameFileOK ==
    ASSUME NEW d, DiskOK(d), NEW p \in Projects, NEW old \in Files, NEW new \in Files
    PROVE  DiskOK(RenameFile(d, p, old, new))
<1> DEFINE e == RenameFile(d, p, old, new)
<1>1. CASE ~HasFile(d, p, old) \/ new = old
  BY <1>1 DEF RenameFile
<1>2. CASE HasFile(d, p, old) /\ new # old
  <2> DEFINE files == With(Without(d.tree[p], old), new, d.tree[p][old])
  <2>1. /\ e = [tree |-> e.tree, open |-> e.open]
        /\ e.tree = [d.tree EXCEPT ![p] = files]
        /\ e.open = [t \in Tabs |-> IF d.open[t] = None \/ d.open[t].at = None THEN d.open[t]
                    ELSE [d.open[t] EXCEPT !.at = IF d.open[t].at = <<p, old>> THEN <<p, new>>
                                                  ELSE IF d.open[t].at = <<p, new>> THEN None ELSE d.open[t].at]]
    BY <1>2 DEF RenameFile, Follow
  <2>2. /\ DOMAIN files = (DOMAIN d.tree[p] \ {old}) \cup {new} /\ DOMAIN files \subseteq Files
        /\ \A g \in DOMAIN files : files[g] \in Texts
    BY <1>2 DEF Without, With, Restrict, HasFile, HasProject, DiskOK, TreeOK
  <2> HIDE DEF e, files
  <2>3. /\ TreeOK(e) /\ DOMAIN e.tree = DOMAIN d.tree
        /\ \A q \in DOMAIN d.tree : e.tree[q] = IF q = p THEN files ELSE d.tree[q]
    <3>1. p \in DOMAIN d.tree
      BY <1>2 DEF HasFile, HasProject
    <3> QED BY <3>1, <2>1, <2>2, FilesChanged
  <2>4. ASSUME NEW t \in Tabs PROVE e.open[t] = None \/ OpenOK(e, e.open[t])
    <3>1. d.open[t] = None \/ OpenOK(d, d.open[t])
      BY DEF DiskOK
    <3> DEFINE o == d.open[t]
               o2 == e.open[t]
    <3>2. o2 = IF o = None \/ o.at = None THEN o
               ELSE [o EXCEPT !.at = IF o.at = <<p, old>> THEN <<p, new>>
                                     ELSE IF o.at = <<p, new>> THEN None ELSE o.at]
      BY <2>1
    <3> HIDE DEF o, o2
    <3>3. CASE o = None \/ o.at = None
      BY <3>1, <3>2, <3>3 DEF OpenOK, o, o2
    <3>4. CASE o # None /\ o.at # None
      <4>1. PICK q \in Projects, g \in Files : o.at = <<q, g>>
        BY <3>1, <3>4 DEF OpenOK, o
      <4>2. HasFile(d, q, g)
        BY <3>1, <3>4, <4>1 DEF OpenOK, o
      <4>3. o2 = [name |-> o.name,
                  at |-> IF q = p /\ g = old THEN <<p, new>>
                         ELSE IF q = p /\ g = new THEN None ELSE <<q, g>>,
                  url |-> o.url]
        BY <3>1, <3>2, <3>4, <4>1 DEF OpenOK, o
      <4>4. HasFile(e, p, new)
        BY <1>2, <2>2, <2>3 DEF HasFile, HasProject
      <4>5. ~(q = p /\ g = old) => HasFile(e, q, g)
        BY <2>2, <2>3, <4>2 DEF HasFile, HasProject
      <4> QED BY <3>1, <3>4, <4>1, <4>3, <4>4, <4>5 DEF OpenOK, o, o2
    <3> QED BY <3>3, <3>4
  <2>5. DiskOK(e)
    <3>1. DOMAIN e.open = Tabs
      BY <2>1 DEF DiskOK
    <3> QED BY <2>1, <2>3, <2>4, <3>1 DEF DiskOK
  <2> QED BY <2>5 DEF e
<1> QED BY <1>1, <1>2

LEMMA FileOpOK ==
    ASSUME NEW d, DiskOK(d), NEW p \in Projects, NEW url \in Ops
    PROVE  DiskOK(FileOp(d, p, url))
<1>1. CASE url \in [op : {"none"}]
  <2>1. url.op = "none"
    BY <1>1
  <2> QED BY <2>1 DEF FileOp
<1>2. CASE url \in [op : {"newfile", "deletefile"}, file : Files]
  <2>1. url.op \in {"newfile", "deletefile"} /\ url.file \in Files
    BY <1>2
  <2> QED BY <2>1, NewFileOK, DeleteFileOK DEF FileOp
<1>3. CASE url \in [op : {"editfile"}, file : Files, new : Files]
  <2>1. url.op = "editfile" /\ url.file \in Files /\ url.new \in Files
    BY <1>3
  <2> QED BY <2>1, RenameFileOK DEF FileOp
<1> QED BY <1>1, <1>2, <1>3 DEF Ops

-----------------------------------------------------------------------------
(* Saving.  One file gets a text, and one tab's save begins or ends.       *)
PutText(d, p, f, text) == [d.tree EXCEPT ![p][f] = text]
IsPut(e, d, p, f, text, open) ==
    /\ e = [tree |-> PutText(d, p, f, text), open |-> open]
    /\ DOMAIN open = Tabs
    /\ \A t \in Tabs : open[t] = None \/ OpenOK(d, open[t])

LEMMA TextPut ==
    ASSUME NEW d, DiskOK(d), NEW p \in Projects, NEW f \in Files, HasFile(d, p, f),
           NEW text \in Texts, NEW e, NEW open, IsPut(e, d, p, f, text, open)
    PROVE  /\ DiskOK(e) /\ e.open = open
           /\ \A q, g : HasFile(e, q, g) <=> HasFile(d, q, g)
           /\ \A q, g : HasFile(d, q, g) => e.tree[q][g] = IF q = p /\ g = f THEN text ELSE d.tree[q][g]
<1> DEFINE files == [d.tree[p] EXCEPT ![f] = text]
<1>1. p \in DOMAIN d.tree /\ f \in DOMAIN d.tree[p]
  BY DEF HasFile, HasProject
<1>2. e.tree = [d.tree EXCEPT ![p] = files] /\ e.open = open /\ e = [tree |-> e.tree, open |-> e.open]
  BY DEF IsPut, PutText
<1>3. /\ DOMAIN files = DOMAIN d.tree[p]
      /\ \A g \in DOMAIN files : files[g] = IF g = f THEN text ELSE d.tree[p][g]
  OBVIOUS
<1>4. DOMAIN files \subseteq Files /\ \A g \in DOMAIN files : files[g] \in Texts
  BY <1>1, <1>3 DEF DiskOK, TreeOK
<1> HIDE DEF files
<1>5. /\ TreeOK(e) /\ DOMAIN e.tree = DOMAIN d.tree
      /\ \A q \in DOMAIN d.tree : e.tree[q] = IF q = p THEN files ELSE d.tree[q]
  BY <1>1, <1>2, <1>4, FilesChanged
<1>6. \A q, g : HasFile(e, q, g) <=> HasFile(d, q, g)
  BY <1>3, <1>5 DEF HasFile, HasProject
<1>7. \A q, g : HasFile(d, q, g) => e.tree[q][g] = IF q = p /\ g = f THEN text ELSE d.tree[q][g]
  BY <1>3, <1>5 DEF HasFile, HasProject
<1>8. ASSUME NEW t \in Tabs PROVE e.open[t] = None \/ OpenOK(e, e.open[t])
  <2> DEFINE o == open[t]
  <2>1. o = None \/ OpenOK(d, o)
    BY DEF IsPut
  <2>2. e.open[t] = o
    BY <1>2
  <2> HIDE DEF o
  <2> QED BY <1>6, <2>1, <2>2 DEF OpenOK
<1> QED BY <1>2, <1>5, <1>6, <1>7, <1>8 DEF DiskOK, IsPut

LEMMA SaveClosed ==
    ASSUME NEW d, DiskOK(d), NEW t \in Tabs, NEW e,
           e = [tree |-> d.tree, open |-> [d.open EXCEPT ![t] = None]]
    PROVE  DiskOK(e)
<1>1. e.tree = d.tree /\ DOMAIN e.open = Tabs
  BY DEF DiskOK
<1>2. ASSUME NEW u \in Tabs PROVE e.open[u] = None \/ OpenOK(e, e.open[u])
  <2>1. e.open[u] \in {None, d.open[u]} /\ (d.open[u] = None \/ OpenOK(d, d.open[u]))
    BY DEF DiskOK
  <2> DEFINE o == e.open[u]
  <2>2. o = None \/ OpenOK(d, o)
    BY <2>1
  <2> HIDE DEF o
  <2>3. o = None \/ OpenOK(e, o)
    BY <1>1, <2>2 DEF OpenOK, HasFile, HasProject
  <2> QED BY <2>3 DEF o
<1> QED BY <1>1, <1>2 DEF DiskOK, TreeOK

Truncated(d, p, f) == d.tree[p][f] = ""

(* What an open file of a tab may leave behind.                            *)
LEMMA StoredOK ==
    ASSUME NEW d, DiskOK(d), NEW t \in Tabs, d.open[t] # None, NEW e \in Stored(d, t)
    PROVE  /\ DiskOK(e) /\ e.open[t] = None
           /\ \A q, g : HasFile(e, q, g) <=> HasFile(d, q, g)
           /\ \A q, g : HasFile(d, q, g) /\ d.open[t].at # <<q, g>> => e.tree[q][g] = d.tree[q][g]
           /\ \A q, g : HasFile(d, q, g) /\ d.open[t].at = <<q, g>> /\ Truncated(d, q, g)
                           => e.tree[q][g] = t
<1> DEFINE at == d.open[t].at
           open == [d.open EXCEPT ![t] = None]
<1>1. OpenOK(d, d.open[t])
  BY DEF DiskOK
<1>2. open[t] = None
  BY DEF DiskOK
<1>3. CASE at = None
  <2>1. e = [d EXCEPT !.open[t] = None]
    BY <1>3 DEF Stored
  <2>2. e = [tree |-> d.tree, open |-> open] /\ e.tree = d.tree
    BY <2>1 DEF DiskOK
  <2>3. \A q \in Projects, g \in Files : None # <<q, g>>
    BY WorkspaceAssumption
  <2>4. \A q, g : HasFile(d, q, g) => q \in Projects /\ g \in Files
    BY DEF HasFile, HasProject, DiskOK, TreeOK
  <2>5. DiskOK(e)
    BY <2>2, SaveClosed
  <2> QED BY <1>2, <1>3, <2>2, <2>3, <2>4, <2>5 DEF HasFile, HasProject
<1>4. CASE at # None
  <2>1. PICK p \in Projects, f \in Files : at = <<p, f>>
    BY <1>1, <1>4 DEF OpenOK
  <2>2. HasFile(d, p, f)
    BY <1>1, <1>4, <2>1 DEF OpenOK
  <2> DEFINE put(text) == [tree |-> PutText(d, p, f, text), open |-> open]
  <2>3. e \in {put(t), put("mixed")} /\ (d.tree[p][f] = "" => e = put(t))
    <3>1. at[1] = p /\ at[2] = f
      BY <2>1
    <3>2. Stored(d, t) = IF d.tree[p][f] = "" THEN {put(t)} ELSE {put(t), put("mixed")}
      BY <1>4, <3>1 DEF Stored, PutText
    <3> QED BY <3>2
  <2>4. PICK text \in {t, "mixed"} : e = put(text) /\ (d.tree[p][f] = "" => text = t)
    BY <2>3
  <2>5. text \in Texts /\ DOMAIN open = Tabs /\ \A u \in Tabs : open[u] = None \/ OpenOK(d, open[u])
    BY DEF Texts, DiskOK
  <2>10. e = [tree |-> PutText(d, p, f, text), open |-> open] /\ (d.tree[p][f] = "" => text = t)
    BY <2>4
  <2> HIDE DEF open
  <2>6. /\ DiskOK(e) /\ e.open = open
        /\ \A q, g : HasFile(e, q, g) <=> HasFile(d, q, g)
        /\ \A q, g : HasFile(d, q, g) => e.tree[q][g] = IF q = p /\ g = f THEN text ELSE d.tree[q][g]
    <3>1. IsPut(e, d, p, f, text, open)
      BY <2>10, <2>5 DEF IsPut
    <3> QED BY <2>2, <2>5, <3>1, TextPut
  <2> HIDE DEF at
  <2>7. \A q, g : at = <<q, g>> <=> (q = p /\ g = f)
    BY <2>1
  <2>8. \A q, g : HasFile(d, q, g) /\ at # <<q, g>> => e.tree[q][g] = d.tree[q][g]
    BY <2>6, <2>7
  <2>9. \A q, g : HasFile(d, q, g) /\ at = <<q, g>> /\ Truncated(d, q, g) => e.tree[q][g] = t
    BY <2>6, <2>7, <2>10, <2>2 DEF Truncated
  <2> QED BY <1>2, <2>6, <2>8, <2>9 DEF at
<1> QED BY <1>3, <1>4

LEMMA SaveBeginOK ==
    ASSUME NEW t \in Tabs, DiskOK(disk), NEW p \in Projects, NEW f \in Files, NEW url \in FormUrls,
           HasFile(disk, p, f),
           disk' = [disk EXCEPT !.tree[p][f] = "",
                                !.open[t] = [name |-> <<p, f>>, at |-> <<p, f>>, url |-> url]]
    PROVE  /\ DiskOK(disk')
           /\ disk'.open[t] # None /\ disk'.open[t].name = <<p, f>>
           /\ \A q, g : HasFile(disk', q, g) <=> HasFile(disk, q, g)
           /\ \A q, g : HasFile(disk, q, g) /\ ~(q = p /\ g = f)
                           => disk'.tree[q][g] = disk.tree[q][g]
<1> DEFINE rec == [name |-> <<p, f>>, at |-> <<p, f>>, url |-> url]
           open == [disk.open EXCEPT ![t] = rec]
<1>1. disk' = [tree |-> PutText(disk, p, f, ""), open |-> open]
  BY DEF DiskOK, PutText
<1>2. OpenOK(disk, rec) /\ rec # None /\ rec.name = <<p, f>>
  BY WorkspaceAssumption DEF OpenOK
<1> HIDE DEF rec
<1>3. DOMAIN open = Tabs /\ open[t] = rec /\ \A u \in Tabs : open[u] = None \/ OpenOK(disk, open[u])
  BY <1>2 DEF DiskOK
<1>4. "" \in Texts
  BY DEF Texts
<1> HIDE DEF open
<1>5. /\ DiskOK(disk') /\ disk'.open = open
      /\ \A q, g : HasFile(disk', q, g) <=> HasFile(disk, q, g)
      /\ \A q, g : HasFile(disk, q, g) => disk'.tree[q][g] = IF q = p /\ g = f THEN "" ELSE disk.tree[q][g]
  <2> DEFINE e == disk'
             text == ""
  <2>1. IsPut(e, disk, p, f, text, open)
    BY <1>1, <1>3 DEF IsPut
  <2>2. text \in Texts
    BY <1>4
  <2> HIDE DEF e, text
  <2>3. /\ DiskOK(e) /\ e.open = open
        /\ \A q, g : HasFile(e, q, g) <=> HasFile(disk, q, g)
        /\ \A q, g : HasFile(disk, q, g) => e.tree[q][g] = IF q = p /\ g = f THEN text ELSE disk.tree[q][g]
    BY <2>1, <2>2, TextPut
  <2> QED BY <2>3 DEF e, text
<1> QED BY <1>2, <1>3, <1>5

(* The request ends with the operation that the URL names.                 *)
LEMMA SaveEndOK ==
    ASSUME NEW t \in Tabs, DiskOK(disk), disk.open[t] # None,
           NEW e \in Stored(disk, t)
    PROVE  LET p == disk.open[t].name[1]
               f == disk.open[t].name[2]
               url == disk.open[t].url
           IN  /\ p \in Projects /\ f \in Files /\ disk.open[t].name = <<p, f>> /\ url \in Ops
               /\ DiskOK(IF HasFile(e, p, f) THEN FileOp(e, p, url) ELSE e)
<1> DEFINE p == disk.open[t].name[1]
           f == disk.open[t].name[2]
           url == disk.open[t].url
<1>1. p \in Projects /\ f \in Files /\ disk.open[t].name = <<p, f>> /\ url \in Ops
  <2> DEFINE o == disk.open[t]
  <2>1. OpenOK(disk, o)
    BY DEF DiskOK
  <2> HIDE DEF o
  <2>2. o.name \in Projects \X Files /\ o.url \in FormUrls
    BY <2>1 DEF OpenOK
  <2>3. o.name[1] \in Projects /\ o.name[2] \in Files /\ o.name = <<o.name[1], o.name[2]>>
    BY <2>2
  <2>4. o.url \in Ops
    BY <2>2, WorkspaceAssumption
  <2> QED BY <2>3, <2>4 DEF o
<1>2. DiskOK(e)
  BY StoredOK
<1> HIDE DEF p, url
<1>3. DiskOK(FileOp(e, p, url))
  BY <1>1, <1>2, FileOpOK
<1> QED BY <1>1, <1>2, <1>3 DEF p, url

WInv == DiskOK(disk) /\ board \in Boards

LEMMA WInvInit == WorkspaceInit => WInv
<1> SUFFICES ASSUME WorkspaceInit PROVE WInv
  OBVIOUS
<1>1. DOMAIN <<>> = {}
  OBVIOUS
<1> QED BY <1>1, WorkspaceAssumption DEF WorkspaceInit, WInv, DiskOK, TreeOK

LEMMA WInvStep == WInv /\ [WorkspaceNext]_wvars => WInv'
<1> SUFFICES ASSUME WInv, [WorkspaceNext]_wvars PROVE WInv'
  OBVIOUS
<1> USE DEF WInv
<1>1. ASSUME NEW b \in Boards, PickBoard(b) PROVE WInv'
  BY <1>1 DEF PickBoard
<1>2. CASE Projeto
  <2>1. board' \in Boards
    BY <1>2, WorkspaceAssumption DEF Projeto
  <2>2. DiskOK(disk')
    BY <1>2, NewProjectOK, DeleteProjectOK, RenameProjectOK DEF Projeto
  <2> QED BY <2>1, <2>2
<1>3. CASE Dev
  <2>1. DiskOK(disk')
    BY <1>3, FileOpOK DEF Dev
  <2> QED BY <1>3, <2>1 DEF Dev
<1>4. ASSUME NEW t \in Tabs, SaveBegin(t) PROVE WInv'
  <2>1. PICK p \in Projects, f \in Files, url \in FormUrls :
          /\ HasFile(disk, p, f)
          /\ disk' = [disk EXCEPT !.tree[p][f] = "",
                                  !.open[t] = [name |-> <<p, f>>, at |-> <<p, f>>, url |-> url]]
    BY <1>4 DEF SaveBegin
  <2>2. DiskOK(disk')
    BY <2>1, SaveBeginOK
  <2> QED BY <1>4, <2>2 DEF SaveBegin
<1>5. ASSUME NEW t \in Tabs, SaveEnd(t) PROVE WInv'
  <2>1. DiskOK(disk')
    BY <1>5, SaveEndOK DEF SaveEnd
  <2> QED BY <1>5, <2>1 DEF SaveEnd
<1>6. ASSUME NEW t \in Tabs, SaveAbort(t) PROVE WInv'
  <2> DEFINE e == [tree |-> disk.tree, open |-> [disk.open EXCEPT ![t] = None]]
  <2>1. disk' = e /\ DiskOK(disk)
    BY <1>6 DEF SaveAbort, DiskOK
  <2>2. DiskOK(e)
    BY <2>1, SaveClosed
  <2> HIDE DEF e
  <2> QED BY <1>6, <2>1, <2>2 DEF SaveAbort
<1>7. CASE Restart
  <2>1. disk' = [tree |-> disk.tree, open |-> [t \in Tabs |-> None]]
    BY <1>7 DEF Restart, DiskOK
  <2> DEFINE e == disk'
  <2>2. e = [tree |-> disk.tree, open |-> [t \in Tabs |-> None]]
    BY <2>1
  <2> HIDE DEF e
  <2>3. DiskOK(e)
    BY <2>2 DEF DiskOK, TreeOK
  <2> QED BY <1>7, <2>3 DEF Restart, e
<1>8. CASE UNCHANGED wvars
  BY <1>8 DEF wvars
<1> QED BY <1>1, <1>2, <1>3, <1>4, <1>5, <1>6, <1>7, <1>8 DEF WorkspaceNext, Request

LEMMA WInvCorrect == WorkspaceSpec => []WInv
BY WInvInit, WInvStep, PTL DEF WorkspaceSpec

LEMMA DiskTyped ==
    ASSUME DiskOK(disk), board \in Boards
    PROVE  WorkspaceTypeOK
BY DEF DiskOK, TreeOK, OpenOK, WorkspaceTypeOK

(* The disk keeps its shape, and an open file is one that exists, through  *)
(* every rename, replacement and removal around it.                        *)
THEOREM WorkspaceTypeCorrect == WorkspaceSpec => []WorkspaceTypeOK
<1>1. WInv => WorkspaceTypeOK
  BY DiskTyped DEF WInv
<1> QED BY <1>1, WInvCorrect, PTL

-----------------------------------------------------------------------------
(* Where a text goes.                                                      *)
Holds(d, p, f, text) == HasFile(d, p, f) /\ d.tree[p][f] = text

LEMMA PlacesHold ==
    ASSUME NEW d, DiskOK(d), NEW text
    PROVE  \A p, f : <<p, f>> \in Places(d, text) <=> Holds(d, p, f, text)
<1>1. \A p, f : HasFile(d, p, f) => p \in Projects /\ f \in Files
  BY DEF DiskOK, TreeOK, HasFile, HasProject
<1> QED BY <1>1 DEF Places, Holds

LEMMA NewProjectKeeps ==
    ASSUME NEW d, NEW p, NEW f, NEW text, Holds(d, p, f, text), NEW q
    PROVE  Holds(NewProject(d, q), p, f, text)
BY DEF NewProject, Holds, HasFile, HasProject, With

LEMMA DeleteProjectKeeps ==
    ASSUME NEW d, NEW p, NEW f, NEW text, Holds(d, p, f, text), NEW q, q # p
    PROVE  Holds(DeleteProject(d, q), p, f, text)
BY DEF DeleteProject, Holds, HasFile, HasProject, Without, Restrict

LEMMA RenameProjectKeeps ==
    ASSUME NEW d, NEW p, NEW f, NEW text, Holds(d, p, f, text), NEW old, NEW new
    PROVE  \E q : Holds(RenameProject(d, old, new), q, f, text)
<1> DEFINE e == RenameProject(d, old, new)
<1>1. CASE e = d
  BY <1>1
<1>2. CASE e # d
  <2>1. /\ e.tree = With(Without(d.tree, old), new, d.tree[old])
        /\ old # new /\ old \in DOMAIN d.tree
        /\ new \in DOMAIN d.tree => DOMAIN d.tree[new] = {}
    BY <1>2 DEF RenameProject, HasProject
  <2> HIDE DEF e
  <2>2. p # new /\ p \in DOMAIN d.tree /\ f \in DOMAIN d.tree[p]
    BY <2>1 DEF Holds, HasFile, HasProject
  <2>3. CASE p = old
    <3>1. Holds(e, new, f, text)
      BY <2>1, <2>2, <2>3 DEF With, Without, Restrict, Holds, HasFile, HasProject
    <3> QED BY <3>1 DEF e
  <2>4. CASE p # old
    <3>1. Holds(e, p, f, text)
      BY <2>1, <2>2, <2>4 DEF With, Without, Restrict, Holds, HasFile, HasProject
    <3> QED BY <3>1 DEF e
  <2> QED BY <2>3, <2>4
<1> QED BY <1>1, <1>2

(* An operation on files loses the text of one only if it was asked to.    *)
LEMMA FileOpKeeps ==
    ASSUME NEW d, DiskOK(d), NEW p, NEW f, NEW text, Holds(d, p, f, text), NEW q, NEW url \in Ops
    PROVE  (q = p /\ Asked(url, f)) \/ \E g : Holds(FileOp(d, q, url), p, g, text)
<1> SUFFICES ASSUME ~(q = p /\ Asked(url, f))
             PROVE  \E g : Holds(FileOp(d, q, url), p, g, text)
  OBVIOUS
<1>0. /\ p \in DOMAIN d.tree /\ f \in DOMAIN d.tree[p] /\ d.tree[p][f] = text
      /\ d = [tree |-> d.tree, open |-> d.open]
  BY DEF Holds, HasFile, HasProject, DiskOK
<1>1. CASE url.op = "none"
  BY <1>1 DEF FileOp
<1>2. CASE url.op = "newfile"
  <2> DEFINE e == NewFile(d, q, url.file)
  <2>1. CASE e = d
    BY <1>2, <2>1 DEF FileOp
  <2>2. CASE e # d
    <3>1. /\ q \in DOMAIN d.tree /\ url.file \notin DOMAIN d.tree[q]
          /\ e.tree = [d.tree EXCEPT ![q] = With(d.tree[q], url.file, "")]
      BY <1>0, <2>2 DEF NewFile, HasFile, HasProject
    <3> HIDE DEF e
    <3>2. Holds(e, p, f, text)
      <4> DEFINE files == With(d.tree[q], url.file, "")
      <4>1. DOMAIN files = DOMAIN d.tree[q] \cup {url.file}
            /\ \A g \in DOMAIN d.tree[q] : files[g] = d.tree[q][g]
        BY <3>1 DEF With
      <4>2. e.tree = [d.tree EXCEPT ![q] = files]
        BY <3>1
      <4> HIDE DEF files
      <4>3. CASE q = p
        BY <1>0, <3>1, <4>1, <4>2, <4>3 DEF Holds, HasFile, HasProject
      <4>4. CASE q # p
        BY <1>0, <3>1, <4>2, <4>4 DEF Holds, HasFile, HasProject
      <4> QED BY <4>3, <4>4
    <3> QED BY <1>2, <3>2 DEF FileOp, e
  <2> QED BY <2>1, <2>2
<1>3. CASE url.op = "deletefile"
  <2> DEFINE e == DeleteFile(d, q, url.file)
  <2>1. CASE e = d
    BY <1>3, <2>1 DEF FileOp
  <2>2. CASE e # d
    <3>1. /\ q \in DOMAIN d.tree
          /\ e.tree = [d.tree EXCEPT ![q] = Without(d.tree[q], url.file)]
      BY <1>0, <2>2 DEF DeleteFile, HasFile, HasProject
    <3>2. ~(q = p /\ url.file = f)
      BY <1>3 DEF Asked
    <3> HIDE DEF e
    <3>3. Holds(e, p, f, text)
      BY <1>0, <3>1, <3>2 DEF Without, Restrict, Holds, HasFile, HasProject
    <3> QED BY <1>3, <3>3 DEF FileOp, e
  <2> QED BY <2>1, <2>2
<1>4. CASE url.op = "editfile"
  <2> DEFINE e == RenameFile(d, q, url.file, url.new)
  <2>1. CASE e = d
    BY <1>4, <2>1 DEF FileOp
  <2>2. CASE e # d
    <3>1. /\ q \in DOMAIN d.tree /\ url.file # url.new
          /\ e.tree = [d.tree EXCEPT ![q] = With(Without(d.tree[q], url.file), url.new, d.tree[q][url.file])]
      BY <1>0, <2>2 DEF RenameFile, HasFile, HasProject
    <3>2. ~(q = p /\ url.new = f)
      BY <1>4 DEF Asked
    <3> HIDE DEF e
    <3>3. CASE q = p /\ url.file = f
      <4>1. Holds(e, p, url.new, text)
        BY <1>0, <3>1, <3>3 DEF With, Without, Restrict, Holds, HasFile, HasProject
      <4> QED BY <1>4, <4>1 DEF FileOp, e
    <3>4. CASE ~(q = p /\ url.file = f)
      <4>1. Holds(e, p, f, text)
        BY <1>0, <3>1, <3>2, <3>4 DEF With, Without, Restrict, Holds, HasFile, HasProject
      <4> QED BY <1>4, <4>1 DEF FileOp, e
    <3> QED BY <3>3, <3>4
  <2> QED BY <2>1, <2>2
<1> QED BY <1>1, <1>2, <1>3, <1>4 DEF Ops

(* An operation opens no file.                                             *)
LEMMA FileOpClosed ==
    ASSUME NEW d, DiskOK(d), NEW p, NEW url \in Ops, NEW t \in Tabs, d.open[t] = None
    PROVE  FileOp(d, p, url).open[t] = None
<1>1. \A f : NewFile(d, p, f).open[t] = None
  BY DEF NewFile, DiskOK
<1>2. \A f : DeleteFile(d, p, f).open[t] = None
  BY DEF DeleteFile, Follow
<1>3. \A f, g : RenameFile(d, p, f, g).open[t] = None
  BY DEF RenameFile, Follow
<1> QED BY <1>1, <1>2, <1>3 DEF FileOp, Ops

-----------------------------------------------------------------------------
(* What OnlyTheNamedIsLost lets a text be lost by.                         *)
Excused(p, f) ==
    \/ disk' = DeleteProject(disk, p)
    \/ \E url \in Ops : Asked(url, f) /\ disk' = FileOp(disk, p, url)
    \/ \E t \in Tabs :
          \/ disk.open[t] = None /\ disk'.open[t] # None
             /\ disk'.open[t].name = <<p, f>>
          \/ disk.open[t] # None /\ disk'.open[t] = None
             /\ (\/ disk.open[t].at = <<p, f>>
                 \/ disk.open[t].name[1] = p /\ Asked(disk.open[t].url, f))

LEMMA LossStep ==
    ASSUME WInv, [WorkspaceNext]_wvars, NEW text \in Tabs, NEW p \in Projects, NEW f \in Files,
           <<p, f>> \in Places(disk, text), Places(disk', text) = {}
    PROVE  Excused(p, f)
<1>1. DiskOK(disk) /\ DiskOK(disk')
  BY WInvStep DEF WInv
<1>2. Holds(disk, p, f, text)
  BY <1>1, PlacesHold
<1>3. \A q, g : ~Holds(disk', q, g, text)
  BY <1>1, PlacesHold
<1>4. disk'.tree # disk.tree
  BY <1>2, <1>3 DEF Holds, HasFile, HasProject
<1>5. CASE (\E b \in Boards : PickBoard(b)) \/ UNCHANGED wvars \/ Restart
  <2>1. disk'.tree = disk.tree
    BY <1>1, <1>5 DEF PickBoard, wvars, Restart, DiskOK
  <2> QED BY <1>4, <2>1
<1>6. CASE Projeto
  <2>1. CASE \E q \in Projects : disk' \in {disk, NewProject(disk, q)}
    BY <1>2, <1>3, <2>1, NewProjectKeeps
  <2>2. ASSUME NEW q \in Projects, disk' = DeleteProject(disk, q) PROVE Excused(p, f)
    BY <1>2, <1>3, <2>2, DeleteProjectKeeps DEF Excused
  <2>3. CASE \E old, new \in Projects : disk' = RenameProject(disk, old, new)
    BY <1>2, <1>3, <2>3, RenameProjectKeeps
  <2> QED BY <1>6, <2>1, <2>2, <2>3 DEF Projeto
<1>7. CASE Dev
  <2>1. PICK q \in Projects, url \in Ops : disk' = FileOp(disk, q, url)
    BY <1>7 DEF Dev
  <2>2. q = p /\ Asked(url, f)
    BY <1>1, <1>2, <1>3, <2>1, FileOpKeeps
  <2> QED BY <2>1, <2>2 DEF Excused
<1>8. ASSUME NEW t \in Tabs, SaveBegin(t) PROVE Excused(p, f)
  <2>1. PICK q \in Projects, g \in Files, url \in FormUrls :
          /\ HasFile(disk, q, g)
          /\ disk' = [disk EXCEPT !.tree[q][g] = "",
                                  !.open[t] = [name |-> <<q, g>>, at |-> <<q, g>>, url |-> url]]
    BY <1>8 DEF SaveBegin
  <2>2. /\ disk'.open[t] # None /\ disk'.open[t].name = <<q, g>>
        /\ HasFile(disk', p, f) <=> HasFile(disk, p, f)
        /\ HasFile(disk, p, f) /\ ~(p = q /\ f = g) => disk'.tree[p][f] = disk.tree[p][f]
    <3>1. /\ disk'.open[t] # None /\ disk'.open[t].name = <<q, g>>
          /\ \A r, h : HasFile(disk', r, h) <=> HasFile(disk, r, h)
          /\ \A r, h : HasFile(disk, r, h) /\ ~(r = q /\ h = g)
                          => disk'.tree[r][h] = disk.tree[r][h]
      BY <1>1, <2>1, SaveBeginOK
    <3> QED BY <3>1
  <2>3. p = q /\ f = g
    BY <1>2, <1>3, <2>2 DEF Holds
  <2>4. disk.open[t] = None
    BY <1>8 DEF SaveBegin
  <2> QED BY <2>2, <2>3, <2>4 DEF Excused
<1>9. ASSUME NEW t \in Tabs, SaveEnd(t) PROVE Excused(p, f)
  <2> DEFINE q == disk.open[t].name[1]
             g == disk.open[t].name[2]
             url == disk.open[t].url
  <2>1. disk.open[t] # None
    BY <1>9 DEF SaveEnd
  <2>2. PICK e \in Stored(disk, t) : disk' = IF HasFile(e, q, g) THEN FileOp(e, q, url) ELSE e
    BY <1>9 DEF SaveEnd
  <2>3. url \in Ops
    BY <1>1, <2>1, <2>2, SaveEndOK
  <2>4. /\ DiskOK(e) /\ e.open[t] = None
        /\ HasFile(e, p, f) <=> HasFile(disk, p, f)
        /\ HasFile(disk, p, f) /\ disk.open[t].at # <<p, f>> => e.tree[p][f] = disk.tree[p][f]
    <3>1. /\ DiskOK(e) /\ e.open[t] = None
          /\ \A r, h : HasFile(e, r, h) <=> HasFile(disk, r, h)
          /\ \A r, h : HasFile(disk, r, h) /\ disk.open[t].at # <<r, h>> => e.tree[r][h] = disk.tree[r][h]
      BY <1>1, <2>1, StoredOK
    <3> QED BY <3>1
  <2> HIDE DEF q, g, url
  <2>5. disk'.open[t] = None
    BY <2>2, <2>3, <2>4, FileOpClosed
  <2>6. CASE disk.open[t].at = <<p, f>>
    BY <2>1, <2>5, <2>6 DEF Excused
  <2>7. CASE disk.open[t].at # <<p, f>>
    <3>1. Holds(e, p, f, text)
      BY <1>2, <2>4, <2>7 DEF Holds
    <3>2. disk' = FileOp(e, q, url)
      BY <1>3, <2>2, <3>1
    <3>3. q = p /\ Asked(url, f)
      BY <1>3, <2>3, <2>4, <3>1, <3>2, FileOpKeeps
    <3>4. disk.open[t].name[1] = p /\ Asked(disk.open[t].url, f)
      BY <3>3 DEF q, url
    <3> QED BY <2>1, <2>5, <3>4 DEF Excused
  <2> QED BY <2>6, <2>7
<1>10. ASSUME NEW t \in Tabs, SaveAbort(t) PROVE Excused(p, f)
  <2>1. disk'.tree = disk.tree
    BY <1>1, <1>10 DEF SaveAbort, DiskOK
  <2> QED BY <1>4, <2>1
<1> QED BY <1>5, <1>6, <1>7, <1>8, <1>9, <1>10 DEF WorkspaceNext, Request

(* The last copy of a saved text is lost only by a request for its file or *)
(* project, of which opening it for a save is one: no interleaving of      *)
(* saves, renames and restarts destroys the text of another file.          *)
THEOREM LossCorrect == WorkspaceSpec => OnlyTheNamedIsLost
<1> DEFINE Loss == \A text \in Tabs, p \in Projects, f \in Files :
                      <<p, f>> \in Places(disk, text) /\ Places(disk', text) = {} => Excused(p, f)
<1>1. WInv /\ [WorkspaceNext]_wvars => [Loss]_wvars
  BY LossStep
<1>2. WorkspaceSpec => [][Loss]_wvars
  BY <1>1, WInvCorrect, PTL DEF WorkspaceSpec
<1> QED BY <1>2 DEF OnlyTheNamedIsLost, Excused

(* A save that nobody disturbed stores its text, and the operations that   *)
(* only create leave it there.                                             *)
LEMMA UndisturbedStores ==
    ASSUME DiskOK(disk), NEW t \in Tabs, NEW p \in Projects, NEW f \in Files,
           disk.open[t] # None, disk.open[t].at = <<p, f>>, Truncated(disk, p, f),
           NEW e \in Stored(disk, t)
    PROVE  DiskOK(e) /\ HasFile(e, p, f) /\ e.tree[p][f] = t
<1>1. <<p, f>> # None
  <2>1. <<p, f>> \in Projects \X Files
    OBVIOUS
  <2> QED BY <2>1, WorkspaceAssumption
<1>2. HasFile(disk, p, f)
  <2> DEFINE o == disk.open[t]
  <2>1. OpenOK(disk, o) /\ o.at = <<p, f>>
    BY DEF DiskOK
  <2> HIDE DEF o
  <2> QED BY <1>1, <2>1 DEF OpenOK
<1>3. /\ DiskOK(e)
      /\ \A r, h : HasFile(e, r, h) <=> HasFile(disk, r, h)
      /\ \A r, h : HasFile(disk, r, h) /\ disk.open[t].at = <<r, h>> /\ Truncated(disk, r, h)
                      => e.tree[r][h] = t
  BY StoredOK
<1> QED BY <1>2, <1>3

LEMMA CreatingSpares ==
    ASSUME NEW e, DiskOK(e), NEW p, NEW f, HasFile(e, p, f), NEW url, url.op \in {"none", "newfile"}
    PROVE  FileOp(e, p, url).tree[p][f] = e.tree[p][f]
<1>1. CASE url.op = "none"
  BY <1>1 DEF FileOp
<1>2. CASE url.op = "newfile"
  <2> DEFINE d == NewFile(e, p, url.file)
  <2>1. CASE d = e
    BY <1>2, <2>1 DEF FileOp
  <2>2. CASE d # e
    <3>1. url.file # f /\ d.tree = [e.tree EXCEPT ![p] = With(e.tree[p], url.file, "")]
      BY <2>2 DEF NewFile, DiskOK
    <3> HIDE DEF d
    <3>2. With(e.tree[p], url.file, "")[f] = e.tree[p][f] /\ p \in DOMAIN e.tree
      BY <3>1 DEF With, HasFile, HasProject
    <3>3. d.tree[p][f] = e.tree[p][f]
      BY <3>1, <3>2
    <3> QED BY <1>2, <3>3 DEF FileOp, d
  <2> QED BY <2>1, <2>2
<1> QED BY <1>1, <1>2

Undisturbed(t) ==
    LET save == disk.open[t] IN
    /\ SaveEnd(t)
    /\ save.at = save.name
    /\ disk.tree[save.at[1]][save.at[2]] = ""
    /\ save.url.op \in {"none", "newfile"}

LEMMA UndisturbedSave ==
    ASSUME WInv, NEW t \in Tabs, Undisturbed(t)
    PROVE  disk'.tree[disk.open[t].name[1]][disk.open[t].name[2]] = t
<1> DEFINE name == disk.open[t].name
           url == disk.open[t].url
<1>1. /\ DiskOK(disk) /\ disk.open[t] # None /\ disk.open[t].at = name
      /\ url.op \in {"none", "newfile"}
  BY DEF WInv, Undisturbed, SaveEnd
<1>2. Truncated(disk, name[1], name[2])
  BY DEF Undisturbed, Truncated
<1>3. PICK e \in Stored(disk, t) :
        disk' = IF HasFile(e, name[1], name[2]) THEN FileOp(e, name[1], url) ELSE e
  BY DEF Undisturbed, SaveEnd
<1>4. name[1] \in Projects /\ name[2] \in Files /\ name = <<name[1], name[2]>>
  BY <1>1, SaveEndOK
<1>5. /\ DiskOK(e) /\ HasFile(e, name[1], name[2])
      /\ e.tree[name[1]][name[2]] = t
  BY <1>1, <1>2, <1>4, UndisturbedStores
<1>6. FileOp(e, name[1], url).tree[name[1]][name[2]] = e.tree[name[1]][name[2]]
  BY <1>1, <1>5, CreatingSpares
<1> HIDE DEF name, url
<1>7. disk'.tree[name[1]][name[2]] = t
  BY <1>3, <1>5, <1>6
<1> QED BY <1>7 DEF name

(* A save that nobody disturbed is in its file when the request ends.      *)
THEOREM SaveCorrect == WorkspaceSpec => SaveSurvivesItsUrl
<1> DEFINE Survives ==
       \A t \in Tabs : Undisturbed(t) => disk'.tree[disk.open[t].name[1]][disk.open[t].name[2]] = t
<1>1. WInv /\ [WorkspaceNext]_wvars => [Survives]_wvars
  BY UndisturbedSave
<1>2. WorkspaceSpec => [][Survives]_wvars
  BY <1>1, WInvCorrect, PTL DEF WorkspaceSpec
<1> QED BY <1>2 DEF SaveSurvivesItsUrl, Undisturbed

-----------------------------------------------------------------------------
(* FlashPipeline, for any number of requests, failures and restarts: what  *)
(* is frozen and built is one project as it was when a build was asked for,*)
(* and the loader writes an older one only where make clean failed.        *)
(*                                                                         *)
(* A build copies the files, cleans and makes in three steps, and between  *)
(* them teensy/scripts has to be what was asked for (ScriptsFollow).  Of a *)
(* board whose last make clean succeeded, whatever is there was made since *)
(* (CleanIsFresh).                                                         *)
Shape ==
    /\ board \in Boards
    /\ hex = [b \in Boards |-> hex[b]]
    /\ frozen = [b \in Boards |-> frozen[b]]
    /\ asked = [b \in Boards |-> asked[b]]

ScriptsFollow ==
    /\ request.step \in {"clean", "make", "load"} => request.board \in Boards
    /\ request.step = "clean" => scripts = disk.tree[request.from]
    /\ request.step = "make" => scripts = asked[request.board]

CleanIsFresh ==
    \A b \in Boards : b \notin unclean => /\ hex[b] \in {None, asked[b]}
                                         /\ frozen[b] \in {None, asked[b]}

FInv == Shape /\ ScriptsFollow /\ CleanIsFresh

-----------------------------------------------------------------------------
LEMMA FInvInit == FlashInit => FInv
  BY WorkspaceAssumption
  DEF FlashInit, WorkspaceInit, FInv, Shape, ScriptsFollow, CleanIsFresh,
      NoRequest, Shipped, WorkspaceAssumption

(* Whatever else the server does, the board of config.ini is one of those  *)
(* on the board page.                                                      *)
LEMMA BoardKept ==
  ASSUME board \in Boards, Request \/ Restart
  PROVE  board' \in Boards
  BY WorkspaceAssumption
  DEF Request, Restart, PickBoard, Projeto, Dev, SaveBegin, SaveEnd, SaveAbort,
      WorkspaceAssumption

LEMMA FInvStep ==
  ASSUME FInv, [FlashNext]_fvars
  PROVE  FInv'
<1> USE DEF FInv, Shape, ScriptsFollow, CleanIsFresh
<1>1. CASE Serve
  <2>1. request = NoRequest /\ UNCHANGED flash
    BY <1>1 DEF Serve, Idle
  <2>2. board' \in Boards
    BY <1>1, BoardKept DEF Serve
  <2> QED
    BY <2>1, <2>2 DEF flash, NoRequest
<1>2. CASE \E p \in Projects, build \in BOOLEAN : FlashRequest(p, build)
  <2>1. PICK p \in Projects, build \in BOOLEAN : FlashRequest(p, build)
    BY <1>2
  <2>2. UNCHANGED <<disk, board, hex, frozen, asked, unclean>> /\ scripts' = disk.tree[p]
    BY <2>1 DEF FlashRequest, Refill, wvars
  <2>3. \/ request' = NoRequest
        \/ \E step \in {"clean", "load"} :
              request' = [step |-> step, board |-> board, from |-> p]
    BY <2>1 DEF FlashRequest, StepOf
  <2> QED
    BY <2>2, <2>3 DEF NoRequest
<1>3. CASE FlashMissing
  BY <1>3 DEF FlashMissing, wvars, Idle, NoRequest
<1>4. CASE Clean
  <2> DEFINE a == request.board
  <2>1. /\ hex' \in {hex, [hex EXCEPT ![a] = None]}
        /\ frozen' \in {frozen, [frozen EXCEPT ![a] = None]}
        /\ unclean' = IF hex'[a] = None /\ frozen'[a] = None THEN unclean \ {a}
                      ELSE unclean \cup {a}
        /\ asked' = [asked EXCEPT ![a] = disk.tree[request.from]]
        /\ request' = [step |-> "make", board |-> a, from |-> request.from]
        /\ UNCHANGED <<disk, board, scripts>>
        /\ request.step = "clean" /\ a \in Boards
    BY <1>4 DEF Clean, wvars
  <2>2. CleanIsFresh'
    BY <2>1
  <2>3. Shape'
    BY <2>1
  <2>4. ScriptsFollow'
    BY <2>1
  <2> QED BY <2>2, <2>3, <2>4
<1>5. CASE Make
  <2> DEFINE a == request.board
  <2>1. /\ \/ /\ frozen' \in {frozen, [frozen EXCEPT ![a] = scripts]}
              /\ frozen' = frozen => frozen[a] # None \/ frozen[a] = scripts
              /\ hex' \in {hex, [hex EXCEPT ![a] = frozen'[a]]}
           \/ UNCHANGED <<hex, frozen>>
        /\ request' = NoRequest
        /\ UNCHANGED <<disk, board, scripts, asked, unclean>>
        /\ request.step = "make" /\ a \in Boards
    BY <1>5 DEF Make, Freeze, wvars
  <2>2. scripts = asked[a]
    BY <2>1
  <2>3. CleanIsFresh'
    BY <2>1, <2>2
  <2>4. Shape' /\ ScriptsFollow'
    BY <2>1 DEF NoRequest
  <2> QED BY <2>3, <2>4
<1>6. CASE Load
  BY <1>6 DEF Load, wvars, NoRequest
<1>7. CASE Stop
  <2>1. board' \in Boards
    BY <1>7, BoardKept DEF Stop
  <2>2. request' = NoRequest /\ UNCHANGED <<hex, frozen, asked, unclean>>
    BY <1>7 DEF Stop
  <2> QED
    BY <2>1, <2>2 DEF NoRequest
<1>8. CASE UNCHANGED fvars
  BY <1>8 DEF fvars, wvars, flash
<1> QED
  BY <1>1, <1>2, <1>3, <1>4, <1>5, <1>6, <1>7, <1>8 DEF FlashNext

LEMMA FInvCorrect == FlashSpec => []FInv
<1>1. FInv /\ [FlashNext]_fvars => FInv'
  BY FInvStep
<1> QED
  BY FInvInit, <1>1, PTL DEF FlashSpec

(* frozen.c and the hex change only to what one project was when the build *)
(* was asked for, and to what frozen.c holds: never to a mixture.          *)
THEOREM HexIsOneProjectCorrect == FlashSpec => HexIsOneProject
<1> DEFINE Whole == \A b \in Boards : /\ frozen'[b] \in {frozen[b], None, asked'[b]}
                                      /\ hex'[b] \in {hex[b], None, frozen'[b]}
<1>1. FInv /\ [FlashNext]_fvars => [Whole]_fvars
  <2> SUFFICES ASSUME FInv, FlashNext, NEW b \in Boards
               PROVE  /\ frozen'[b] \in {frozen[b], None, asked'[b]}
                      /\ hex'[b] \in {hex[b], None, frozen'[b]}
    OBVIOUS
  <2> USE DEF FInv, Shape, ScriptsFollow
  <2>1. CASE UNCHANGED <<hex, frozen>>
    BY <2>1
  <2>2. CASE Clean
    BY <2>2 DEF Clean
  <2>3. CASE Make
    <3>1. UNCHANGED asked /\ scripts = asked[request.board] /\ request.board \in Boards
      BY <2>3 DEF Make
    <3>2. CASE Freeze(request.board) /\ hex' \in {hex, [hex EXCEPT ![request.board] = frozen'[request.board]]}
      BY <3>1, <3>2 DEF Freeze
    <3> QED BY <2>1, <2>3, <3>2 DEF Make
  <2> QED BY <2>1, <2>2, <2>3
    DEF FlashNext, Serve, FlashRequest, FlashMissing, Load, Stop, flash
<1> QED
  BY FInvCorrect, <1>1, PTL DEF FlashSpec, HexIsOneProject

(* The loader writes an older image than the last one asked for only where *)
(* the last make clean failed: of every other board the invariant says     *)
(* that what hex there is was made since, and only Load changes the device.*)
THEOREM StaleOnlyIfUncleanCorrect == FlashSpec => StaleOnlyIfUnclean
<1> DEFINE Fresh == device' # device =>
                       device'.image = asked[device'.mcu] \/ device'.mcu \in unclean
<1>1. FInv /\ [FlashNext]_fvars => [Fresh]_fvars
  <2> SUFFICES ASSUME FInv, FlashNext, device' # device
               PROVE  device'.image = asked[device'.mcu] \/ device'.mcu \in unclean
    BY DEF fvars, flash
  <2>1. Load
    BY DEF FlashNext, Serve, FlashRequest, FlashMissing, Clean, Make, Stop, flash
  <2>2. hex[request.board] # None
        /\ device' = [mcu |-> request.board, image |-> hex[request.board]]
    BY <2>1 DEF Load
  <2>3. request.board \in Boards
    BY <2>1 DEF Load, FInv, ScriptsFollow
  <2> QED
    BY <2>2, <2>3 DEF FInv, CleanIsFresh
<1> QED
  BY FInvCorrect, <1>1, PTL DEF FlashSpec, StaleOnlyIfUnclean

-----------------------------------------------------------------------------
(* The types.  The disk keeps its shape because every request and every    *)
(* restart is a step of Workspace; what is copied from it is a snapshot.   *)
Snapshots ==
    /\ contador \in 0 .. MaxContador
    /\ IsSnapshot(scripts)
    /\ \A b \in Boards : /\ hex[b] = None \/ IsSnapshot(hex[b])
                         /\ frozen[b] = None \/ IsSnapshot(frozen[b])
                         /\ IsSnapshot(asked[b])
    /\ unclean \subseteq Boards
    /\ device # None => device.mcu \in Boards /\ IsSnapshot(device.image)
    /\ ~Idle => /\ request.step \in {"clean", "make", "load"}
                /\ request.from \in DOMAIN disk.tree

TInv == FInv /\ WInv /\ Snapshots

LEMMA ShippedIsSnapshot == IsSnapshot(<<>>)
<1>1. DOMAIN <<>> = {}
  OBVIOUS
<1> QED BY <1>1 DEF IsSnapshot

LEMMA ProjectIsSnapshot ==
    ASSUME WInv, NEW p \in DOMAIN disk.tree
    PROVE  IsSnapshot(disk.tree[p])
BY DEF WInv, DiskOK, TreeOK, IsSnapshot

LEMMA PartIsSnapshot ==
    ASSUME NEW s, IsSnapshot(s), NEW kept \in SUBSET DOMAIN s
    PROVE  IsSnapshot(Restrict(s, kept))
BY DEF IsSnapshot, Restrict

LEMMA ZeroIsBounded == 0 \in 0 .. MaxContador /\ MaxContador \in Nat
<1>1. MaxContador \in Nat
  BY FlashAssumption DEF FlashAssumption
<1> QED BY <1>1

LEMMA CountedIsBounded ==
    ASSUME contador \in 0 .. MaxContador
    PROVE  Counted \in 0 .. MaxContador
BY ZeroIsBounded DEF Counted

LEMMA IdleStep == Idle => request.step = "none"
<1> SUFFICES ASSUME request = NoRequest PROVE request.step = "none"
  BY DEF Idle
<1> QED BY DEF NoRequest

LEMMA WrittenIsSnapshot ==
    ASSUME NEW b \in Boards, NEW image, IsSnapshot(image),
           device' = [mcu |-> b, image |-> image]
    PROVE  device'.mcu \in Boards /\ IsSnapshot(device'.image)
<1>1. device'.mcu = b /\ device'.image = image
  OBVIOUS
<1> QED BY <1>1

LEMMA TInvInit == FlashInit => TInv
<1> SUFFICES ASSUME FlashInit PROVE TInv
  OBVIOUS
<1>1. FInv /\ WInv
  BY FInvInit, WInvInit DEF FlashInit
<1>2. Snapshots
  BY ShippedIsSnapshot, FlashAssumption
  DEF FlashInit, Snapshots, Shipped, Idle, FlashAssumption
<1> QED BY <1>1, <1>2 DEF TInv

LEMMA SnapshotsStep ==
    ASSUME TInv, WInv', [FlashNext]_fvars
    PROVE  Snapshots'
<1> USE DEF TInv, Snapshots
<1>1. CASE Serve
  BY <1>1 DEF Serve, flash, Idle
<1>2. CASE \E p \in Projects, build \in BOOLEAN : FlashRequest(p, build)
  <2>1. PICK p \in Projects, build \in BOOLEAN : FlashRequest(p, build)
    BY <1>2
  <2>2. /\ UNCHANGED <<disk, hex, frozen, device, asked, unclean>>
        /\ scripts' = disk.tree[p] /\ p \in DOMAIN disk.tree
    BY <2>1 DEF FlashRequest, Refill, wvars, HasProject
  <2>3. IsSnapshot(scripts')
    BY <2>2, ProjectIsSnapshot
  <2>4. contador' \in {contador, Counted}
    BY <2>1 DEF FlashRequest
  <2>5. contador' \in 0 .. MaxContador
    BY <2>4, CountedIsBounded
  <2>6. \/ request' = NoRequest
        \/ \E step \in {"clean", "load"} :
              request' = [step |-> step, board |-> board, from |-> p]
    BY <2>1 DEF FlashRequest, StepOf
  <2>7. ~Idle' => /\ request'.step \in {"clean", "make", "load"}
                  /\ request'.from \in DOMAIN disk'.tree
    <3>1. CASE request' = NoRequest
      BY <3>1 DEF Idle
    <3>2. ASSUME NEW step \in {"clean", "load"},
                 request' = [step |-> step, board |-> board, from |-> p]
          PROVE  request'.step = step /\ request'.from = p
      BY <3>2
    <3> QED BY <2>2, <2>6, <3>1, <3>2
  <2> QED BY <2>2, <2>3, <2>5, <2>6, <2>7
<1>3. CASE FlashMissing
  BY <1>3, ShippedIsSnapshot DEF FlashMissing, wvars, Idle
<1>4. CASE Clean
  <2>1. request.step = "clean" /\ ~Idle
    BY <1>4, IdleStep DEF Clean
  <2>2. request.board \in Boards /\ request.from \in DOMAIN disk.tree
    BY <2>1 DEF FInv, ScriptsFollow
  <2>3. IsSnapshot(disk.tree[request.from])
    BY <2>2, ProjectIsSnapshot
  <2>4. /\ hex' \in {hex, [hex EXCEPT ![request.board] = None]}
        /\ frozen' \in {frozen, [frozen EXCEPT ![request.board] = None]}
        /\ unclean' \subseteq unclean \cup {request.board}
        /\ asked' = [asked EXCEPT ![request.board] = disk.tree[request.from]]
        /\ request' = [step |-> "make", board |-> request.board, from |-> request.from]
        /\ UNCHANGED <<disk, contador, scripts, device>>
    BY <1>4 DEF Clean, wvars
  <2>5. \A b \in Boards : /\ hex'[b] = None \/ IsSnapshot(hex'[b])
                          /\ frozen'[b] = None \/ IsSnapshot(frozen'[b])
                          /\ IsSnapshot(asked'[b])
    BY <2>2, <2>3, <2>4 DEF FInv, Shape
  <2>6. unclean' \subseteq Boards
    BY <2>2, <2>4
  <2>7. request'.step = "make" /\ request'.from \in DOMAIN disk'.tree
    BY <2>2, <2>4
  <2>8. /\ contador' \in 0 .. MaxContador /\ IsSnapshot(scripts')
        /\ device' # None => device'.mcu \in Boards /\ IsSnapshot(device'.image)
    BY <2>4
  <2> QED BY <2>5, <2>6, <2>7, <2>8
<1>5. CASE Make
  <2>1. /\ frozen' \in {frozen, [frozen EXCEPT ![request.board] = scripts]}
        /\ hex' \in {hex, [hex EXCEPT ![request.board] = frozen'[request.board]]}
    BY <1>5 DEF Make, Freeze
  <2>2. \A b \in Boards : frozen'[b] = None \/ IsSnapshot(frozen'[b])
    BY <2>1 DEF FInv, Shape
  <2>3. \A b \in Boards : hex'[b] = None \/ IsSnapshot(hex'[b])
    BY <2>1, <2>2 DEF FInv, Shape
  <2> QED BY <1>5, <2>2, <2>3 DEF Make, wvars, Idle
<1>6. CASE Load
  <2>1. request.board \in Boards
    BY <1>6 DEF Load, FInv, ScriptsFollow
  <2> DEFINE b == request.board
             image == hex[b]
  <2>2. \/ image # None /\ device' = [mcu |-> b, image |-> image]
        \/ UNCHANGED device
    BY <1>6 DEF Load
  <2>3. image = None \/ IsSnapshot(image)
    BY <2>1
  <2> HIDE DEF image, b
  <2>5. device' # None => device'.mcu \in Boards /\ IsSnapshot(device'.image)
    BY <2>1, <2>2, <2>3, WrittenIsSnapshot DEF b
  <2>6. contador' \in {contador, Counted, 0}
    BY <1>6 DEF Load
  <2>7. contador' \in 0 .. MaxContador
    BY <2>6, CountedIsBounded, ZeroIsBounded
  <2> QED BY <1>6, <2>5, <2>7 DEF Load, wvars, Idle
<1>7. CASE Stop
  <2>1. IsSnapshot(scripts')
    BY <1>7, PartIsSnapshot DEF Stop
  <2>2. /\ contador' = 0 /\ request' = NoRequest
        /\ UNCHANGED <<hex, frozen, device, asked, unclean>>
    BY <1>7 DEF Stop
  <2>3. contador' \in 0 .. MaxContador
    BY <2>2, ZeroIsBounded
  <2> QED BY <2>1, <2>2, <2>3 DEF Idle
<1>8. CASE UNCHANGED fvars
  BY <1>8 DEF fvars, wvars, flash, Idle
<1> QED
  BY <1>1, <1>2, <1>3, <1>4, <1>5, <1>6, <1>7, <1>8 DEF FlashNext

LEMMA TInvStep == TInv /\ [FlashNext]_fvars => TInv'
<1> SUFFICES ASSUME TInv, [FlashNext]_fvars PROVE TInv'
  OBVIOUS
<1>1. [WorkspaceNext]_wvars
  BY DEF FlashNext, Serve, FlashRequest, FlashMissing, Clean, Make, Load, Stop,
         fvars, WorkspaceNext
<1>2. WInv'
  BY <1>1, WInvStep DEF TInv
<1> QED BY <1>2, FInvStep, SnapshotsStep DEF TInv

(* A build and a flash go through well-formed states, whatever the rest of *)
(* the server does between them: a request in progress names a project     *)
(* that is there, and everything copied out of it is files and their texts.*)
THEOREM FlashTypeCorrect == FlashSpec => []FlashTypeOK
<1>1. TInv => FlashTypeOK
  <2> SUFFICES ASSUME TInv PROVE FlashTypeOK
    OBVIOUS
  <2>1. WorkspaceTypeOK
    BY DiskTyped DEF TInv, WInv
  <2> QED BY <2>1 DEF TInv, Snapshots, FlashTypeOK, FInv, ScriptsFollow
<1> QED BY <1>1, TInvInit, TInvStep, PTL DEF FlashSpec
=============================================================================
