--------------------------------- MODULE VFS ---------------------------------
(***************************************************************************)
(* The virtual file system of kernel/filesystem/vfs.c: the tree           *)
(* init_filesystem() builds, delete_file() and change_directory(), with    *)
(* find_file() resolving the path of each through the libc strtok() and   *)
(* strcmp() of userspace/lib/libc/stdio.c.  The shell's cd, rm and rmdir   *)
(* are their only callers; module Shell drives them from typed lines.      *)
(*                                                                         *)
(* `vfs' is the static VFSManager: nodes is the array, indexed from 0, and *)
(* a pointer is an index or NULL.  A node keeps its name (a sequence of    *)
(* characters), type, size, parent, children and next pointers, and      *)
(* whether data points to a heap block; permissions, inode and the        *)
(* operation pointers are left out, no path in the tree reads them.       *)
(* Nothing creates a node after boot (the shell's mkdir prints only), so  *)
(* the array is modelled up to the slots boot fills.                      *)
(*                                                                         *)
(* list_directory, get_current_directory and read_file (ls, pwd, cat)     *)
(* change nothing here: what they allocate the shell frees.               *)
(***************************************************************************)
EXTENDS Integers, Sequences, SequencesExt, FiniteSets, Functions

CONSTANTS
  Slots,    \* the node slots boot fills, 0..(node_count - 1) after boot
  Paths     \* path arguments, as character sequences

MAX_FILES           == 1024
MAX_PATH_LENGTH     == 256
MAX_FILENAME_LENGTH == 64
FILE_TYPE_REGULAR   == 1
FILE_TYPE_DIRECTORY == 2
NULL == -1

\* The literal names the boot code creates.
RootName    == <<"/">>
SysDirs     == << <<"b","i","n">>, <<"u","s","r">>, <<"e","t","c">>,
                  <<"t","m","p">>, <<"h","o","m","e">>, <<"d","e","v">> >>
ReadmeName  == <<"R","E","A","D","M","E",".","t","x","t">>
VersionName == <<"v","e","r","s","i","o","n",".","t","x","t">>
\* strlen of the two sample contents.
ReadmeLen  == 72
VersionLen == 28

ASSUME Slots = 0..(Cardinality(Slots) - 1) /\ Cardinality(Slots) >= 9

VARIABLE vfs

vars == <<vfs>>

\* strncpy(dst, src, n - 1); dst[n - 1] = '\0'
Trunc(s, n) == SubSeq(s, 1, IF Len(s) < n THEN Len(s) ELSE n - 1)

ClearedNode == [name |-> <<>>, type |-> 0, size |-> 0, parent |-> NULL,
                children |-> NULL, next |-> NULL, data |-> FALSE]

\* init_vfs
InitVfs == [root |-> NULL, current_dir |-> NULL, node_count |-> 0,
            nodes |-> [i \in Slots |-> ClearedNode]]

\* create_file(name, type): the next slot, or NULL when MAX_FILES are used.
\* The result is the new manager and the pointer.
CreateFile(v, nm, ty) ==
  IF v.node_count >= MAX_FILES THEN <<v, NULL>>
  ELSE << [v EXCEPT !.node_count = @ + 1,
                    !.nodes[v.node_count] =
                      [ClearedNode EXCEPT !.name = Trunc(nm, MAX_FILENAME_LENGTH),
                                          !.type = ty]],
          v.node_count >>

\* add_child(parent, child): push child on the head of parent's list.
AddChild(v, p, c) ==
  IF p = NULL \/ c = NULL \/ v.nodes[p].type # FILE_TYPE_DIRECTORY THEN v
  ELSE [v EXCEPT !.nodes[c].parent = p,
                 !.nodes[c].next = v.nodes[p].children,
                 !.nodes[p].children = c]

\* mount_root_fs
MountRootFs(v) ==
  LET r == CreateFile(v, RootName, FILE_TYPE_DIRECTORY)
  IN  [r[1] EXCEPT !.root = r[2], !.current_dir = r[2]]

\* One sample file of create_system_dirs: created, given a heap block
\* for its `len' bytes of content and added to the root when create_file
\* succeeded.
AddSampleFile(v, nm, len) ==
  LET r == CreateFile(v, nm, FILE_TYPE_REGULAR)
  IN  IF r[2] = NULL THEN r[1]
      ELSE AddChild([r[1] EXCEPT !.nodes[r[2]].data = TRUE, !.nodes[r[2]].size = len],
                    r[1].root, r[2])

\* create_system_dirs: six directories created, then added in order, then
\* README.txt and version.txt.
CreateSystemDirs(v) ==
  LET made == FoldLeft(LAMBDA acc, nm :
                         LET r == CreateFile(acc[1], nm, FILE_TYPE_DIRECTORY)
                         IN  <<r[1], Append(acc[2], r[2])>>,
                       <<v, <<>>>>, SysDirs)
      linked == FoldLeft(LAMBDA w, c : AddChild(w, w.root, c), made[1], made[2])
  IN  AddSampleFile(AddSampleFile(linked, ReadmeName, ReadmeLen), VersionName, VersionLen)

-----------------------------------------------------------------------------
\* The list a `next' chain walks from c, stopped after one pass over every
\* slot so that a cycle shows as a repeated node.
RECURSIVE ChainFrom(_, _, _)
ChainFrom(v, c, k) ==
  IF c = NULL \/ k = 0 THEN <<>>
  ELSE <<c>> \o ChainFrom(v, v.nodes[c].next, k - 1)

Chain(v, c) == ChainFrom(v, c, Cardinality(Slots) + 1)

\* The first node of a chain satisfying P, or NULL.
FirstIn(s, P(_)) ==
  LET i == SelectInSeq(s, P) IN IF i = 0 THEN NULL ELSE s[i]

\* strtok(s, delim) called until it returns NULL: skip delimiters, take the
\* characters up to the next one, step past that delimiter.
SkipDelims(s, D) ==
  LET k == SelectInSeq(s, LAMBDA c : c \notin D)
  IN  IF k = 0 THEN <<>> ELSE SubSeq(s, k, Len(s))

TokenLen(t, D) ==
  LET d == {i \in 1..Len(t) : t[i] \in D}
  IN  IF d = {} THEN Len(t) ELSE Min(d) - 1

RECURSIVE Tokens(_, _)
Tokens(s, D) ==
  LET t == SkipDelims(s, D)
      k == TokenLen(t, D)
  IN  IF t = <<>> THEN <<>>
      ELSE <<SubSeq(t, 1, k)>> \o Tokens(SubSeq(t, k + 2, Len(t)), D)

\* Faulty variant: ".." at the root moves to its NULL parent.
StepNoRootClamp(v, c, t) ==
  CASE c = NULL          -> NULL
    [] t = <<".">>       -> c
    [] t = <<".", ".">>  -> v.nodes[c].parent
    [] OTHER             -> FirstIn(Chain(v, v.nodes[c].children),
                                    LAMBDA x : v.nodes[x].name = t)

\* One token of find_file's loop from node c.
Step(v, c, t) ==
  CASE c = NULL          -> NULL
    [] t = <<".">>       -> c
    [] t = <<".", ".">>  -> IF v.nodes[c].parent # NULL THEN v.nodes[c].parent ELSE c
    [] OTHER             -> FirstIn(Chain(v, v.nodes[c].children),
                                    LAMBDA x : v.nodes[x].name = t)

\* find_file(path)
FindFile(v, path) ==
  IF path = <<>> THEN NULL
  ELSE IF path = <<"/">> THEN v.root
  ELSE LET abs   == Head(path) = "/"
           copy  == Trunc(path, MAX_PATH_LENGTH)
           start == IF abs THEN v.root ELSE v.current_dir
       IN  FoldLeft(LAMBDA c, t : Step(v, c, t), start,
                    Tokens(IF abs THEN Tail(copy) ELSE copy, {"/"}))

\* Faulty variant: only a node at the head of the list is unlinked.
UnlinkHeadOnly(v, n) ==
  LET par == v.nodes[n].parent
  IN  IF v.nodes[par].children = n
      THEN [v EXCEPT !.nodes[par].children = v.nodes[n].next]
      ELSE v

\* delete_file's unlink from the parent's list: the head pointer, or the
\* next pointer of the node before it when that is found.
Unlink(v, n) ==
  LET par == v.nodes[n].parent
      prev == FirstIn(Chain(v, v.nodes[par].children),
                      LAMBDA x : v.nodes[x].next = n)
  IN  IF v.nodes[par].children = n
      THEN [v EXCEPT !.nodes[par].children = v.nodes[n].next]
      ELSE IF prev = NULL THEN v
      ELSE [v EXCEPT !.nodes[prev].next = v.nodes[n].next]

\* delete_file's clear: data freed, name, type, size and data cleared; parent,
\* children and next are left as they were, and the slot is never reused.
ClearNode(v, n) ==
  [v EXCEPT !.nodes[n].name = <<>>, !.nodes[n].type = 0, !.nodes[n].size = 0,
            !.nodes[n].data = FALSE]

\* list_directory(path) for a path find_file resolves to directory dir:
\* the names along dir's children list, counted and then copied in order
\* (the caller frees the array).
ListDirectory(v, dir) ==
  LET ch == Chain(v, v.nodes[dir].children)
  IN  [i \in 1..Len(ch) |-> v.nodes[ch[i]].name]

\* default_read(node, 0, node->size, buffer): 0 without data or with
\* offset 0 >= size, else the size bytes copied.
DefaultRead(v, n) ==
  IF ~v.nodes[n].data \/ v.nodes[n].size = 0 THEN 0 ELSE v.nodes[n].size

\* read_file(node, 0, node->size, buffer): -1 for NULL or a node that is
\* not a regular file, else its read operation, default_read for all.
ReadWholeFile(v, n) ==
  IF n = NULL \/ v.nodes[n].type # FILE_TYPE_REGULAR THEN -1 ELSE DefaultRead(v, n)

\* get_current_directory's loop: strcat "/" and the node's name, for each
\* node from c up to (not including) the root.
RECURSIVE UpPath(_, _, _)
UpPath(v, c, k) ==
  IF c = NULL \/ c = v.root \/ k = 0 THEN <<>>
  ELSE <<"/">> \o v.nodes[c].name \o UpPath(v, v.nodes[c].parent, k - 1)

\* get_current_directory(): "/" without a current directory or for the
\* root; otherwise temp_path copied into path character by character from
\* its end, so "/tmp" comes out as "pmt/".
GetCurrentDirectory(v) ==
  LET t == UpPath(v, v.current_dir, Cardinality(Slots))
  IN  IF v.current_dir = NULL \/ t = <<>> THEN <<"/">> ELSE Reverse(t)

-----------------------------------------------------------------------------
\* kernel_main -> init_filesystem: init_vfs, mount_root_fs, create_system_dirs.
Init == vfs = CreateSystemDirs(MountRootFs(InitVfs))

\* The node delete_file(path) removes: NULL when find_file finds nothing
\* or the root (no parent), where delete_file returns -1.
DeleteTarget(path) ==
  LET n == FindFile(vfs, path)
  IN  IF n # NULL /\ vfs.nodes[n].parent # NULL THEN n ELSE NULL

\* delete_file(path) from rm or rmdir, when it succeeds.
DeleteFile(path) ==
  LET n == DeleteTarget(path)
  IN  /\ n # NULL
      /\ vfs' = ClearNode(Unlink(vfs, n), n)

\* Faulty variant: find_file's NULL is not rejected.
CdTargetNoNullCheck(path) ==
  LET d == FindFile(vfs, path)
  IN  IF d = NULL THEN <<NULL>>
      ELSE IF vfs.nodes[d].type = FILE_TYPE_DIRECTORY THEN <<d>> ELSE <<>>

\* The directory change_directory(path) moves to, as a one-element
\* sequence; empty when find_file finds nothing or a regular file, where
\* change_directory returns -1.
CdTarget(path) ==
  LET d == FindFile(vfs, path)
  IN  IF d # NULL /\ vfs.nodes[d].type = FILE_TYPE_DIRECTORY THEN <<d>> ELSE <<>>

\* change_directory(path) from cd, when it succeeds.
ChangeDirectory(path) ==
  /\ CdTarget(path) # <<>>
  /\ vfs' = [vfs EXCEPT !.current_dir = CdTarget(path)[1]]

\* Any caller of the two operations that change the tree (the shell's cd,
\* rm and rmdir; module Shell), with the paths of Paths.
Next == \E p \in Paths : DeleteFile(p) \/ ChangeDirectory(p)

Spec == Init /\ [][Next]_vars

-----------------------------------------------------------------------------
Live(v) == {i \in Slots : v.nodes[i].type # 0}
Kids(v, d) == Range(Chain(v, v.nodes[d].children))
Ptr == Slots \cup {NULL}

\* The nodes reached from the nodes of S through children lists.
RECURSIVE Reached(_, _)
Reached(v, S) ==
  LET S2 == S \cup UNION {Kids(v, d) : d \in S}
  IN  IF S2 = S THEN S ELSE Reached(v, S2)

TypeOK ==
  /\ vfs.root \in Slots /\ vfs.current_dir \in Slots
  /\ vfs.node_count \in 0..Cardinality(Slots)
  /\ \A i \in Slots :
       /\ vfs.nodes[i].type \in {0, FILE_TYPE_REGULAR, FILE_TYPE_DIRECTORY}
       /\ {vfs.nodes[i].parent, vfs.nodes[i].children, vfs.nodes[i].next} \subseteq Ptr
       /\ vfs.nodes[i].data \in BOOLEAN /\ vfs.nodes[i].size \in Nat
       /\ Len(vfs.nodes[i].name) < MAX_FILENAME_LENGTH

(* The tree stays a tree through any sequence of rm, rmdir and cd: every  *)
(* children list ends (no cycle), every node on a list reached from the    *)
(* root is live and has that directory as its parent, and the live nodes   *)
(* are exactly those reached from the root.  delete_file unlinks through   *)
(* the head pointer or a predecessor's next and then clears the node,      *)
(* leaving its own next and parent pointers stale.                         *)
TreeWellFormed ==
  LET Reach == Reached(vfs, {vfs.root})
  IN  /\ \A d \in Slots : IsInjective(Chain(vfs, vfs.nodes[d].children))
      /\ Reach = Live(vfs)
      /\ \A d \in Reach : \A c \in Kids(vfs, d) : vfs.nodes[c].parent = d

\* The tokens of s between "/" delimiters, in order: the reference split.
RefTokens(s) ==
  LET starts == {i \in 1..Len(s) : s[i] # "/" /\ (i = 1 \/ s[i - 1] = "/")}
      stop(i) == CHOOSE j \in i..Len(s) :
                   /\ \A k \in i..j : s[k] # "/"
                   /\ (j = Len(s) \/ s[j + 1] = "/")
  IN  [n \in 1..Cardinality(starts) |->
         LET i == CHOOSE i \in starts :
                    Cardinality({j \in starts : j < i}) = n - 1
         IN  SubSeq(s, i, stop(i))]

\* Reference resolution on the tree the parent pointers describe.
RefStep(c, t) ==
  LET named == {x \in Live(vfs) : vfs.nodes[x].parent = c /\ vfs.nodes[x].name = t}
  IN  CASE c = NULL          -> NULL
        [] t = <<".">>       -> c
        [] t = <<".", ".">>  -> IF vfs.nodes[c].parent = NULL THEN c ELSE vfs.nodes[c].parent
        [] named # {}        -> CHOOSE x \in named : TRUE
        [] OTHER             -> NULL

Resolve(path) ==
  IF path = <<>> THEN NULL
  ELSE FoldLeft(RefStep, IF Head(path) = "/" THEN vfs.root ELSE vfs.current_dir,
                RefTokens(path))

(* find_file resolves every path the shell passes as the file system      *)
(* tree does, in every state rm, rmdir and cd reach: its strtok split      *)
(* agrees with splitting at "/" (repeated and trailing slashes included),  *)
(* "." stays, ".." climbs but not above the root, and a name is looked up  *)
(* in the directory's children list, which must hold exactly the live     *)
(* nodes whose parent is that directory.  ls (list_directory) of a path   *)
(* that is a directory lists each such node's name once.  The current     *)
(* directory may be a node rm has cleared.                                 *)
FindResolves ==
  \A p \in Paths :
    LET d == FindFile(vfs, p)
    IN  /\ d = Resolve(p)
        /\ d # NULL /\ vfs.nodes[d].type = FILE_TYPE_DIRECTORY =>
             LET ls == ListDirectory(vfs, d)
             IN  /\ IsInjective(ls)
                 /\ Range(ls) = {vfs.nodes[x].name :
                                 x \in {y \in Live(vfs) : vfs.nodes[y].parent = d}}

=============================================================================
