------------------------------- MODULE FileTree -------------------------------
(***************************************************************************)
(* What the file system promises the shell: a tree of named files and      *)
(* directories that survives reboots, and three calls that change it only  *)
(* as they say.  A call may take several steps (fs_create_dir makes the    *)
(* missing parents one by one, fs_create_file removes the old file before  *)
(* it adds the new one) and may stop half-way, but then it does not answer *)
(* "ok".                                                                   *)
(***************************************************************************)
EXTENDS Sequences, Integers

CONSTANTS
    Requests,       \* the calls: [op, path, content]
    InstallDirs     \* the directories of a new system, in order

VARIABLES
    tree,           \* path -> [type, content]; the root is always there
    status,         \* "new", "off", "ready", "busy", "changed", "ok", "error"
    call            \* the running call

vars == <<tree, status, call>>

NoCall == [op |-> "none", path |-> << >>, content |-> << >>]
DirNode == [type |-> "DIR", content |-> << >>]
FileNode(content) == [type |-> "FILE", content |-> content]

IsDir(path) == path \in DOMAIN tree /\ tree[path].type = "DIR"
IsFile(path) == path \in DOMAIN tree /\ tree[path].type = "FILE"
Above(path) == SubSeq(path, 1, Len(path) - 1)
Prefixes(path) == {SubSeq(path, 1, k) : k \in 1 .. Len(path)}

With(path, node) ==
    [p \in DOMAIN tree \cup {path} |-> IF p = path THEN node ELSE tree[p]]
Without(path) == [p \in DOMAIN tree \ {path} |-> tree[p]]

NewTree ==
    [p \in {<< >>} \cup UNION {Prefixes(InstallDirs[k]) : k \in DOMAIN InstallDirs}
        |-> DirNode]

Init == tree = << >> /\ status = "new" /\ call = NoCall

Install ==
    /\ status = "new"
    /\ tree' = NewTree
    /\ status' = "off"
    /\ UNCHANGED call

SwitchOn == status = "off" /\ status' = "ready" /\ UNCHANGED <<tree, call>>
SwitchOff == status = "ready" /\ status' = "off" /\ UNCHANGED <<tree, call>>

Begin ==
    /\ status = "ready"
    /\ call' \in Requests
    /\ status' = "busy"
    /\ UNCHANGED tree

\* A missing directory on the way to the call's path (or the path itself).
MakeDir ==
    /\ status = "busy"
    /\ \E path \in Prefixes(call.path) :
          /\ call.op = "create_dir" \/ (call.op = "create_file" /\ path # call.path)
          /\ path \notin DOMAIN tree
          /\ IsDir(Above(path))
          /\ tree' = With(path, DirNode)
    /\ UNCHANGED <<status, call>>

\* The file of that name goes: all a deletion does, the first half of an
\* overwrite.
Remove ==
    /\ status = "busy"
    /\ call.op \in {"create_file", "delete_file"}
    /\ IsFile(call.path)
    /\ tree' = Without(call.path)
    /\ status' = IF call.op = "delete_file" THEN "changed" ELSE "busy"
    /\ UNCHANGED call

\* The new file appears in one step, with all its content.
Put ==
    /\ status = "busy"
    /\ call.op = "create_file"
    /\ call.path \notin DOMAIN tree
    /\ IsDir(Above(call.path))
    /\ tree' = With(call.path, FileNode(call.content))
    /\ status' = "changed"
    /\ UNCHANGED call

\* "ok" is the truth; a failed call has not done what it was asked.
Succeed ==
    /\ CASE call.op = "create_dir" -> status = "busy" /\ IsDir(call.path)
         [] OTHER -> status = "changed"
    /\ status' = "ok"
    /\ UNCHANGED <<tree, call>>

Fail ==
    /\ status = "busy"
    /\ call.op = "create_dir" => ~ IsDir(call.path)
    /\ call.op = "delete_file" => ~ IsFile(call.path)
    /\ status' = "error"
    /\ UNCHANGED <<tree, call>>

Answer ==
    /\ status \in {"ok", "error"}
    /\ status' = "ready"
    /\ call' = NoCall
    /\ UNCHANGED tree

Next == \/ Install \/ SwitchOn \/ SwitchOff \/ Begin
        \/ MakeDir \/ Remove \/ Put \/ Succeed \/ Fail \/ Answer

Spec == Init /\ [][Next]_vars

=============================================================================
