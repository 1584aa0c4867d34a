---- MODULE MCWorkspace ----
(* Instances of Workspace for TLC. *)
EXTENDS Workspace, TLC

(* Tabs are alike, and so are projects. *)
WorkspaceSymmetry == Permutations(Tabs) \cup Permutations(Projects)

(* One operation of each kind may still stand in the URL of a page. *)
SomeUrls ==
    {[op |-> "none"], [op |-> "newfile", file |-> "main.py"],
     [op |-> "editfile", file |-> "main.py", new |-> "boot.py"]}
====
