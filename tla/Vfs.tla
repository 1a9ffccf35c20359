-------------------------------- MODULE Vfs ---------------------------------
(***************************************************************************)
(* The in-RAM file system of fs/vfs.c.  A node is known by the order in    *)
(* which it was allocated, 0 is the null pointer; nodes are never freed.   *)
(* A tree is a sequence of nodes and every operator that allocates returns *)
(* the tree and the new node.                                              *)
(***************************************************************************)
EXTENDS Integers, Sequences, SequencesExt

CONSTANTS
  VFS_MAX_CHILDREN,
  Names,       \* names of files and directories
  NameCopy,    \* what name_copy keeps of each, at most VFS_MAX_NAME - 1 characters
  ROOM         \* nodes the heap has room for

ASSUME VfsAssumption ==
  /\ VFS_MAX_CHILDREN \in Nat \ {0} /\ ROOM \in Nat \ {0}
  /\ {"kernel", "shell", "README"} \subseteq Names
  /\ NameCopy \in [Names -> Names]
  /\ \A n \in Names : NameCopy[NameCopy[n]] = NameCopy[n]

NULL == 0
ROOT == 1     \* vfs_root: the first node vfs_init allocates

Node(name, type, parent) ==
  [name |-> name, type |-> type, parent |-> parent, children |-> <<>>, content |-> "none"]

\* Mutant: the room in the array of children is not looked at.
HasRoomAlways(node) == TRUE

HasRoom(node) == Len(node.children) < VFS_MAX_CHILDREN

\* vfs_alloc_node.  A node whose parent is full is not linked to it.
AllocNode(tree, name, type, parent) ==
  IF Len(tree) = ROOM THEN [tree |-> tree, node |-> NULL]
  ELSE LET id == Len(tree) + 1
           linked == IF parent # NULL /\ HasRoom(tree[parent])
                     THEN [tree EXCEPT ![parent].children = Append(@, id)]
                     ELSE tree
       IN  [tree |-> Append(linked, Node(name, type, parent)), node |-> id]

Mkdir(tree, parent, name) == AllocNode(tree, NameCopy[name], "dir", parent)

CreateFile(tree, parent, name, content) ==
  LET made == AllocNode(tree, NameCopy[name], "file", parent)
  IN  IF made.node = NULL THEN made
      ELSE [made EXCEPT !.tree[made.node].content = content]

\* vfs_init.  The heap does not come back: behind an allocation that failed
\* every other one fails.
BootTree ==
  LET root   == AllocNode(<<>>, "/", "dir", NULL)
      kernel == Mkdir(root.tree, root.node, "kernel")
      shell  == Mkdir(kernel.tree, root.node, "shell")
      readme == CreateFile(shell.tree, kernel.node, "README", "kernel space")
  IN  CreateFile(readme.tree, shell.node, "README", "shell space").tree

\* Mutant: the youngest child of that name.
FindChildLast(tree, parent, name) ==
  LET named == {i \in DOMAIN tree[parent].children :
                  tree[tree[parent].children[i]].name = name}
  IN  IF named = {} THEN NULL
      ELSE tree[parent].children[CHOOSE i \in named : \A j \in named : j <= i]

\* vfs_find_child: the first child of that name.
FindChild(tree, parent, name) ==
  LET children == tree[parent].children
      i == SelectInSeq(children, LAMBDA c : tree[c].name = name)
  IN  IF i = 0 THEN NULL ELSE children[i]

IsDir(tree, node) == node # NULL /\ tree[node].type = "dir"
IsFile(tree, node) == node # NULL /\ tree[node].type = "file"

\* print_path_recursive: the names from the root down.
Path(tree, node) ==
  LET path[n \in DOMAIN tree] ==
        IF tree[n].parent = NULL THEN <<>>
        ELSE Append(path[tree[n].parent], tree[n].name)
  IN  path[node]

-----------------------------------------------------------------------------
(* What every tree keeps to *)

\* What files hold.
Texts == {"none", "kernel space", "shell space", "text"}

Nodes == [name : Names \cup {"/"}, type : {"dir", "file"}, parent : Nat,
          children : Seq(Nat), content : Texts]

\* A parent is older than its child, a child knows its parent, and a directory
\* has no more children than its array has room for.
TreeOK(tree) ==
  /\ tree \in Seq(Nodes) /\ Len(tree) \in 1..ROOM
  /\ tree[ROOT].type = "dir"
  /\ \A n \in DOMAIN tree :
       /\ tree[n].parent \in 0..(n - 1)
       /\ tree[n].parent = NULL <=> n = ROOT
       /\ Len(tree[n].children) <= VFS_MAX_CHILDREN
       /\ \A i \in DOMAIN tree[n].children :
            /\ tree[n].children[i] \in DOMAIN tree
            /\ tree[tree[n].children[i]].parent = n

\* From the parent of each of these nodes, its name leads to it, and so on up to
\* the root.
Reached(tree, among) ==
  \A n \in among \ {ROOT} :
    tree[n].parent \in among /\ FindChild(tree, tree[n].parent, tree[n].name) = n

=============================================================================
