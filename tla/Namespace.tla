----------------------------- MODULE Namespace ------------------------------
(***************************************************************************)
(* The tree of files and directories (mofs_dir.c, mofs_file.c): create,    *)
(* mkdir, unlink, rmdir and rename as the sequences of inode, entry and    *)
(* link-count updates the code performs, with the rollback it performs     *)
(* when one of them fails.                                                 *)
(*                                                                         *)
(* A call is one action (the core lock is held around it).  A directory is *)
(* used through its specification DirMap.  The helpers of a rollback can   *)
(* fail too; the code ignores that.  Inode Root stands for                 *)
(* MOFS_ROOT_INODE_NUM.                                                    *)
(***************************************************************************)
EXTENDS Integers, FiniteSets

CONSTANTS NumInodes,  \* sp_blk.inode_num
          Names,      \* names of entries, besides "." and ".."
          MaxBroken   \* bound: calls that fail with their work half done

ASSUME TreeAssumption == NumInodes \in Nat \ {0} /\ MaxBroken \in Nat

Inodes == 1 .. NumInodes
Root   == 1
Absent == 0

VARIABLES fs,      \* the inodes and directories, see Init
          broken,  \* history: calls that failed with their work half done
          undone,  \* history: a rollback left the tree wrong
          ret      \* the result of the last call

vars == <<fs, broken, undone, ret>>

NoEntries == [n \in Names |-> Absent]

\* kind: inode bitmap and file type; ents: entries of a directory; links:
\* i_links; up: the inode its ".." entry names.
Init == /\ fs = [kind  |-> [i \in Inodes |-> IF i = Root THEN "dir" ELSE "free"],
                 ents  |-> [i \in Inodes |-> NoEntries],
                 links |-> [i \in Inodes |-> IF i = Root THEN 2 ELSE 0],
                 up    |-> [i \in Inodes |-> IF i = Root THEN Root ELSE Absent]]
        /\ broken = 0 /\ undone = FALSE /\ ret = "ok"

-----------------------------------------------------------------------------
(* The steps calls are made of, on a tree t.                               *)

Link(t, d, n, i) == [t EXCEPT !.ents[d][n] = i]       \* add_dir_entry
Detach(t, d, n)  == [t EXCEPT !.ents[d][n] = Absent]  \* remove_dir_entry
AddLinks(t, d, k) == [t EXCEPT !.links[d] = @ + k]    \* adjust_dir_nlink
PointUp(t, i, d) == [t EXCEPT !.up[i] = d]            \* rewrite_dotdot

\* allocate_inode and the mofs_write_inode that initialises it.
NewInode(t, i, kind, links) == [t EXCEPT !.kind[i] = kind, !.links[i] = links,
                                         !.ents[i] = NoEntries]

\* free_data_block of everything, then free_inode.
FreeInode(t, i) == [t EXCEPT !.kind[i] = "free", !.links[i] = 0,
                             !.ents[i] = NoEntries, !.up[i] = Absent]

FreeInodes  == {i \in Inodes \ {Root} : fs.kind[i] = "free"}
LowestFree  == CHOOSE i \in FreeInodes : \A j \in FreeInodes : i <= j
Children(t, d) == {t.ents[d][n] : n \in Names} \ {Absent}
IsEmpty(t, d) == Children(t, d) = {}

\* The directories path resolution can reach from the root.
Reachable(t) ==
    LET r[k \in 0 .. NumInodes] ==
          IF k = 0 THEN {Root}
          ELSE LET b == r[k-1]
               IN  b \cup {c \in UNION {Children(t, d) : d \in b} : t.kind[c] = "dir"}
    IN  r[NumInodes]

\* Mutant: only the directory itself is compared.
IsAncestorSelf(t, a, start) == start = a

\* directory_is_ancestor: a is on the ".." chain of start, start included;
\* at most inode_num steps are taken.
IsAncestor(t, a, start) ==
    LET w[k \in 0 .. NumInodes] ==
          IF k = 0 THEN start ELSE LET b == w[k-1] IN IF b \in {Root, Absent} THEN b ELSE t.up[b]
    IN  \E k \in 0 .. NumInodes - 1 : w[k] = a

-----------------------------------------------------------------------------

Becomes(t, result) == fs' = t /\ ret' = result
Succeeds(t) == Becomes(t, "ok") /\ UNCHANGED <<broken, undone>>
Rejects(t, error) == Becomes(t, error) /\ UNCHANGED <<broken, undone>>

\* A call fails with its work half done; Strays: and its rollback, ignorant of
\* an entry or ignoring a failure of its own, leaves the tree wrong.
Fails(t)  == broken < MaxBroken /\ broken' = broken + 1 /\ Becomes(t, "EIO")
Breaks(t) == Fails(t) /\ UNCHANGED undone
Strays(t) == Fails(t) /\ undone' = TRUE

\* An error before anything has changed, or one that was rolled back.
Unchanged == Rejects(fs, "EIO")

MayCreate(d, n) == fs.ents[d][n] = Absent /\ FreeInodes # {} /\ d \in Reachable(fs)

NewFile == NewInode(fs, LowestFree, "file", 1)
NewDir(d) == PointUp(NewInode(fs, LowestFree, "dir", 2), LowestFree, d)

\* mofs_create_core
Create(d, n) == MayCreate(d, n) /\ Succeeds(Link(NewFile, d, n, LowestFree))

\* mofs_mkdir_core
Mkdir(d, n) == /\ MayCreate(d, n)
               /\ Succeeds(AddLinks(Link(NewDir(d), d, n, LowestFree), d, 1))

\* Their rollback cannot free the new inode, with or without its data block.
CreateBreaks(d, n) ==
    /\ MayCreate(d, n)
    /\ \E t \in {NewFile, NewDir(d), PointUp(NewDir(d), LowestFree, Absent)} : Breaks(t)

\* The entry stays: add_dir_entry wrote it into a tombstone and then failed to
\* write the parent's inode, or mofs_mkdir_core could not remove it again.  The
\* new inode is freed all the same, unless that fails as well.
CreateStrays(d, n) ==
    /\ MayCreate(d, n)
    /\ \E t \in {fs, NewFile, NewDir(d), PointUp(NewDir(d), LowestFree, Absent)} :
          Strays(Link(t, d, n, LowestFree))

\* Mutant: the inode is freed before its entry is removed.
UnlinkStepsSwapped(t, d, n) == <<FreeInode(t, t.ents[d][n]), FreeInode(Detach(t, d, n), t.ents[d][n])>>

\* mofs_unlink_core: the tree without the entry, then without the inode.
UnlinkSteps(t, d, n) == <<Detach(t, d, n), FreeInode(Detach(t, d, n), t.ents[d][n])>>

Unlink(d, n) == /\ fs.ents[d][n] # Absent /\ d \in Reachable(fs)
                /\ fs.kind[fs.ents[d][n]] # "dir"
                /\ LET s == UnlinkSteps(fs, d, n) IN Succeeds(s[2]) \/ Breaks(s[1])

\* mofs_rmdir_core: without the entry, without the inode, one link less.
RmdirSteps(t, d, n) ==
    LET s == UnlinkSteps(t, d, n) IN <<s[1], s[2], AddLinks(s[2], d, -1)>>

Rmdir(d, n) == /\ fs.ents[d][n] # Absent /\ d \in Reachable(fs)
               /\ fs.kind[fs.ents[d][n]] = "dir" /\ IsEmpty(fs, fs.ents[d][n])
               /\ LET s == RmdirSteps(fs, d, n) IN
                  (fs.links[d] > 0 /\ Succeeds(s[3])) \/ Breaks(s[1]) \/ Breaks(s[2])

-----------------------------------------------------------------------------
(* mofs_rename_core: entry n of directory d to entry m of directory e.     *)

Source(d, n) == fs.ents[d][n]
IsDir(i) == fs.kind[i] = "dir"

\* Both paths resolve and do not name the same inode; an existing target has
\* the type of the source.
RenameStarts(d, n, e, m) ==
    /\ Source(d, n) # Absent
    /\ fs.ents[e][m] # Source(d, n)
    /\ fs.ents[e][m] # Absent => (IsDir(fs.ents[e][m]) <=> IsDir(Source(d, n)))
    /\ {d, e} \subseteq Reachable(fs)

\* The existing target is removed by mofs_rmdir_core or mofs_unlink_core.
RemovalSteps(e, m) == IF IsDir(fs.ents[e][m]) THEN RmdirSteps(fs, e, m)
                                              ELSE UnlinkSteps(fs, e, m)

TargetGone(e, m) ==
    IF fs.ents[e][m] = Absent THEN fs
    ELSE LET s == RemovalSteps(e, m) IN IF IsDir(fs.ents[e][m]) THEN s[3] ELSE s[2]

Removable(e, m) == fs.ents[e][m] # Absent => IsEmpty(fs, fs.ents[e][m])

\* mofs_rmdir_core and adjust_dir_nlink do not lower a link count of 0.
Replaceable(e, m) == /\ Removable(e, m)
                     /\ fs.ents[e][m] # Absent /\ IsDir(fs.ents[e][m]) => fs.links[e] > 0

Countable(d, n, e) == IsDir(Source(d, n)) /\ d # e => fs.links[d] > 0

\* Mutant: the parents' link counts are not adjusted.
MovedUncounted(t, d, n, e, m) ==
    LET i == Source(d, n)
        u == Link(Detach(t, d, n), e, m, i)
    IN  IF IsDir(i) /\ d # e THEN PointUp(u, i, e) ELSE u

\* The entry moves; a directory that changes parents also gets a new ".."
\* and moves a link from the old parent to the new one.
Moved(t, d, n, e, m) ==
    LET i == Source(d, n)
        u == Link(Detach(t, d, n), e, m, i)
    IN  IF IsDir(i) /\ d # e
        THEN AddLinks(AddLinks(PointUp(u, i, e), d, -1), e, 1) ELSE u

IntoItself(d, n, e) == IsDir(Source(d, n)) /\ IsAncestor(fs, Source(d, n), e)

\* Mutant: when the new name cannot be attached the old one is not restored.
RenameForgets(d, n, e, m) ==
    /\ RenameStarts(d, n, e, m) /\ Replaceable(e, m)
    /\ LET t == TargetGone(e, m) IN
       \/ /\ IntoItself(d, n, e) /\ Rejects(t, "EINVAL")
       \/ /\ ~IntoItself(d, n, e) /\ Countable(d, n, e) /\ Succeeds(Moved(t, d, n, e, m))
       \/ Rejects(Detach(t, d, n), "EIO")

Rename(d, n, e, m) ==
    /\ RenameStarts(d, n, e, m) /\ Replaceable(e, m)
    /\ LET t == TargetGone(e, m) IN
       \/ /\ IntoItself(d, n, e) /\ Rejects(t, "EINVAL")
       \/ /\ ~IntoItself(d, n, e) /\ Countable(d, n, e) /\ Succeeds(Moved(t, d, n, e, m))
       \/ Rejects(t, "EIO")     \* no write permission, or a step rolled back

\* Removing the target fails half way, or removing the source entry fails
\* after the tombstone was written, or neither name can be attached.
RenameBreaks(d, n, e, m) ==
    /\ RenameStarts(d, n, e, m) /\ Removable(e, m)
    /\ \/ /\ fs.ents[e][m] # Absent
          /\ LET s == RemovalSteps(e, m) IN
             Breaks(s[1]) \/ (IsDir(fs.ents[e][m]) /\ Breaks(s[2]))
       \/ /\ ~IntoItself(d, n, e) /\ Replaceable(e, m)
          /\ Breaks(Detach(TargetGone(e, m), d, n))

\* Attaching the new name, or what follows it for a directory, fails, and the
\* rollback is not complete: the new entry was written by the failing
\* add_dir_entry, or is not removed; the old one is not added again; the old
\* parent does not get its link back (k); ".." stays at the new parent.
RenameStrays(d, n, e, m) == LET i == Source(d, n) IN
    /\ RenameStarts(d, n, e, m) /\ Replaceable(e, m) /\ ~IntoItself(d, n, e)
    /\ \E old, new \in {Absent, i}, up \in {d, e}, k \in {0, 1} :
          /\ new # Absent \/ up # d \/ k = 1
          /\ up # d \/ k = 1 => IsDir(i) /\ d # e
          /\ k = 1 => Countable(d, n, e)
          /\ LET t == Link(Link(TargetGone(e, m), d, n, old), e, m, new) IN
             Strays(AddLinks(IF up = d THEN t ELSE PointUp(t, i, up), d, -k))

-----------------------------------------------------------------------------

Next == \/ Unchanged
        \/ \E d \in Inodes, n \in Names : Create(d, n) \/ Mkdir(d, n) \/ Unlink(d, n) \/ Rmdir(d, n)
        \/ \E d \in Inodes, n \in Names : CreateBreaks(d, n) \/ CreateStrays(d, n)
        \/ \E d, e \in Inodes, n, m \in Names :
              Rename(d, n, e, m) \/ RenameBreaks(d, n, e, m) \/ RenameStrays(d, n, e, m)

Spec == Init /\ [][Next]_vars

-----------------------------------------------------------------------------
(* Properties.                                                             *)

\* The variables have their types.
TypeOK == /\ fs \in [kind  : [Inodes -> {"free", "file", "dir"}],
                    ents  : [Inodes -> [Names -> Inodes \cup {Absent}]],
                    links : [Inodes -> Nat],
                    up    : [Inodes -> Inodes \cup {Absent}]]
          /\ broken \in 0 .. MaxBroken /\ undone \in BOOLEAN
          /\ ret \in {"ok", "EIO", "EINVAL"}

\* The entries that name i.
EntriesOf(i) == {e \in Inodes \X Names : fs.ents[e[1]][e[2]] = i}

\* Every entry names an allocated inode and no inode has two names, also
\* after calls that failed half way: an inode is freed only once its entry
\* is gone.  As long as no call has failed half way every allocated inode has a
\* name: rollback and removal leave nothing behind.  It holds until a rollback
\* goes wrong: add_dir_entry failed with its entry written, or the rollback of
\* mkdir or rename failed itself.
NamesMatchInodes ==
    /\ TypeOK
    /\ \A i \in Inodes : \/ undone
                        \/ /\ Cardinality(EntriesOf(i)) <= 1
                           /\ EntriesOf(i) # {} => fs.kind[i] # "free"
                           /\ broken = 0 /\ fs.kind[i] # "free" => i = Root \/ EntriesOf(i) # {}

\* The directories on the ".." chain above i.
Above(i) == LET w[k \in 0 .. NumInodes] ==
                  IF k = 0 THEN fs.up[i]
                  ELSE LET b == w[k-1] IN IF b \in {Root, Absent} THEN b ELSE fs.up[b]
            IN  {w[k] : k \in 0 .. NumInodes}

\* The directories form trees: the ".." of a directory with a name is the
\* directory that holds the entry, and none is above itself.  As long as no
\* call has failed half way there is one tree, the one under the root.  A rename
\* closes no cycle and leaves no ".." behind, unless it fails and its rollback
\* fails too, or after such a rollback.
IsTree == \A i \in Inodes \ {Root} : fs.kind[i] = "dir" /\ ~undone =>
             /\ i \notin Above(i)
             /\ \A e \in EntriesOf(i) : fs.up[i] = e[1]
             /\ broken = 0 => i \in Reachable(fs)

\* The link count of a directory is two plus its subdirectories.  A call that
\* fails half way can leave it too high.  To leave it too low, a rollback has
\* to fail as well.
LinkCounts == \A d \in Inodes : fs.kind[d] = "dir" /\ ~undone =>
    LET subs == {i \in Inodes : fs.kind[i] = "dir" /\ \E e \in EntriesOf(i) : e[1] = d} IN
    /\ fs.links[d] >= 2 + Cardinality(subs)
    /\ broken = 0 => fs.links[d] = 2 + Cardinality(subs)

\* The entries a step changes.
Changed == {e \in Inodes \X Names : fs'.ents[e[1]][e[2]] # fs.ents[e[1]][e[2]]}

\* A call that reports an error and is not half done has changed nothing,
\* except that mofs_rename_core may have removed, entry and inode, the one
\* target it was asked to replace: also when it then rejects the move as one
\* into the directory's own descendant, or lacks a permission.  A call that is
\* half done, or whose rollback failed, has changed no more than two entries,
\* and the only inode it has freed is one that such an entry named.
FailedCallKeepsRest == [][ ret' # "ok" =>
    /\ broken' = broken =>
        /\ \A e, f \in Changed : e = f
        /\ \A e \in Changed : /\ fs'.ents[e[1]][e[2]] = Absent
                              /\ fs'.kind[fs.ents[e[1]][e[2]]] = "free"
        /\ \A i \in Inodes : fs'.kind[i] = fs.kind[i]
                              \/ \E e \in Changed : fs.ents[e[1]][e[2]] = i
    /\ \A e, f, g \in Changed : e = f \/ f = g \/ e = g
    /\ \A i, j \in Inodes : fs'.kind[i] # fs.kind[i] /\ fs'.kind[j] # fs.kind[j] => i = j
    /\ \A i \in Inodes : fs.kind[i] # "free" /\ fs'.kind[i] # fs.kind[i] =>
          fs'.kind[i] = "free" /\ \E e \in Changed : fs.ents[e[1]][e[2]] = i ]_vars
=============================================================================
