----------------------------- MODULE OpenFiles ------------------------------
(***************************************************************************)
(* Who may do what, and to which file: path resolution (mofs_path.c),      *)
(* permission checks (mofs_perm.c), the handles of open files              *)
(* (mofs_file.c) and the front ends that call them for several users       *)
(* (fuse_ops.c, mofs_vfs.c).                                               *)
(*                                                                         *)
(* An inode number outlives its file: unlink takes no notice of open       *)
(* handles, and the next create may be given the number.  A front end is a *)
(* thread that binds the user of a request and then makes one or two core  *)
(* calls.  A core call is one action (the core lock is held around it).    *)
(* What bytes a file has is left to FileIO, and rename to Namespace.       *)
(***************************************************************************)
EXTENDS Integers, Sequences, FiniteSets

CONSTANTS Threads,
          Users,
          Uid0,        \* the user of uid 0, who owns the root directory
          Members,     \* <<u, v>>: u is in the group that v gives to a new inode
          Modes,       \* modes of new files and directories, see Bits
          NumInodes,   \* sp_blk.inode_num
          PathNames,
          Paths,       \* the paths that requests name, as sequences of components
          NumHandles   \* MOFS_FILEHANDLE_POOL_SIZE

ASSUME UsersAssumption == /\ Uid0 \in Users /\ Members \subseteq Users \X Users
                          /\ NumInodes \in Nat \ {0} /\ NumHandles \in Nat \ {0}
                          /\ Paths \subseteq Seq(PathNames) /\ <<>> \in Paths    \* "/"

Inodes  == 1 .. NumInodes
Root    == 1
Absent  == 0
Handles == 1 .. NumHandles

VARIABLES ino,    \* the inodes: file type, i_uid (which stands for i_gid), mode bits
          ents,   \* ents[d][n]: the inode that entry n of directory d names
          pool,   \* filehandle_pool
          thr,    \* thr[t]: the request thread t serves, see Idle
          last    \* the last core call: its result, the accesses it made

filesVars == <<ino, ents, pool, thr, last>>

NoEntries == [n \in PathNames |-> Absent]
Bits(u, g, o) == [owner |-> u, group |-> g, other |-> o]
RootMode == Bits({"r", "w", "x"}, {"r", "x"}, {"r", "x"})   \* 0755
Zeroed   == [kind |-> "free", uid |-> Uid0, mode |-> Bits({}, {}, {})]
Unused   == [ino |-> Absent, flags |-> {}]                  \* used is FALSE

\* user: who asked; caller: the caller context of the thread; rest: what is
\* left of the request after its first core call, with the path or the handle
\* it still needs, "bound" while nothing was called.
Idle == [user |-> Uid0, caller |-> Uid0, rest |-> "idle", path |-> <<>>, h |-> 0]

FilesInit == /\ ino = [i \in Inodes |-> IF i = Root THEN [kind |-> "dir", uid |-> Uid0, mode |-> RootMode]
                                                   ELSE Zeroed]
             /\ ents = [i \in Inodes |-> NoEntries]
             /\ pool = [h \in Handles |-> Unused]
             /\ thr = [t \in Threads |-> Idle]
             /\ last = [ret |-> "ok", acc |-> {}]

-----------------------------------------------------------------------------
(* Permissions.                                                            *)

\* The class of bits that mofs_check_open_permission looks at.
Class(u, i) == IF u = ino[i].uid THEN "owner"
               ELSE IF <<u, ino[i].uid>> \in Members THEN "group" ELSE "other"

\* What the access mode of an open needs: RDONLY and WRONLY may be combined,
\* EXEC and SEARCH stand alone, everything else is EINVAL.
Needs(flags) == IF flags \in {{"exec"}, {"search"}} THEN {"x"} ELSE flags
ValidFlags(flags) == flags # {} /\ (flags \subseteq {"r", "w"} \/ flags \in {{"exec"}, {"search"}})

\* mofs_check_open_permission.  There is no exception for uid 0.
CheckOpen(u, flags, i) == ValidFlags(flags) /\ Needs(flags) \subseteq ino[i].mode[Class(u, i)]

IsDir(i) == ino[i].kind = "dir"
CheckDirTraverse(u, d) == CheckOpen(u, {"search"}, d)
CheckDirRead(u, d) == CheckOpen(u, {"r"}, d)
CheckDirWrite(u, d) == CheckOpen(u, {"w"}, d) /\ CheckDirTraverse(u, d)

-----------------------------------------------------------------------------
(* Path resolution.                                                        *)

\* check_parent_traverse; the root directory is not checked.
Traverses(u, d) == d # Absent /\ (d = Root \/ (IsDir(d) /\ CheckDirTraverse(u, d)))

\* The inode that the first k components lead to, or Absent.
Walk(u, p, k) ==
    LET w[j \in 0 .. k] == IF j = 0 THEN Root
                           ELSE LET d == w[j-1] IN
                                IF Traverses(u, d) THEN ents[d][p[j]] ELSE Absent
    IN  w[k]

\* mofs_resolve_path: the leaf, and the directory that holds it.  Only where
\* the leaf's directory can be searched is a leaf missing, and not an error.
Leaf(u, p) == Walk(u, p, Len(p))
Parent(u, p) == Walk(u, p, Len(p) - 1)
Resolves(u, p) == Leaf(u, p) # Absent
LeafMissing(u, p) == p # <<>> /\ Traverses(u, Parent(u, p)) /\ ~Resolves(u, p)
LeafName(p) == p[Len(p)]

-----------------------------------------------------------------------------
(* Threads.                                                                *)

\* Mutant: one caller context for all threads.
BindShared(t, u) ==
    /\ thr[t].rest = "idle"
    /\ thr' = [s \in Threads |-> IF s = t THEN [Idle EXCEPT !.user = u, !.caller = u, !.rest = "bound"]
                                 ELSE [thr[s] EXCEPT !.caller = u]]
    /\ UNCHANGED <<ino, ents, pool, last>>

\* mofs_fuse_bind_request_caller: the context is the thread's own.
Bind(t, u) == /\ thr[t].rest = "idle"
              /\ thr' = [thr EXCEPT ![t] = [Idle EXCEPT !.user = u, !.caller = u, !.rest = "bound"]]
              /\ UNCHANGED <<ino, ents, pool, last>>

Called(t, rest) == thr[t].rest = rest
Me(t) == thr[t].caller

\* A core call returns and the request with it.
Returns(t, ret, acc) == /\ thr' = [thr EXCEPT ![t] = Idle]
                        /\ last' = [ret |-> ret, acc |-> acc]

\* The access a of thread t's user to inode i, as a file or as a directory.
Access(t, i, a, kind) == {<<thr[t].user, i, a, kind>>}

\* Any call may fail before it has changed anything: a path that does not
\* resolve, a permission, a wrong type, a full pool, an I/O error.
CallFails(t) == /\ ~Called(t, "idle")
                /\ Returns(t, "error", {})
                /\ UNCHANGED <<ino, ents, pool>>

-----------------------------------------------------------------------------
(* Creating and removing.                                                  *)

FreeInodes == {i \in Inodes \ {Root} : ino[i].kind = "free"}
LowestFree == CHOOSE i \in FreeInodes : \A j \in FreeInodes : i <= j

\* What mofs_create_core and mofs_mkdir_core ask for.
MayCreate(u, p) == LeafMissing(u, p) /\ CheckDirWrite(u, Parent(u, p)) /\ FreeInodes # {}

\* The inode and its entry.
Creates(u, p, kind, mode) ==
    /\ ino' = [ino EXCEPT ![LowestFree] = [kind |-> kind, uid |-> u, mode |-> mode]]
    /\ ents' = [ents EXCEPT ![Parent(u, p)][LeafName(p)] = LowestFree, ![LowestFree] = NoEntries]

Mkdir(t, p, mode) == /\ Called(t, "bound") /\ MayCreate(Me(t), p)
                     /\ Creates(Me(t), p, "dir", mode)
                     /\ Returns(t, "ok", Access(t, Parent(Me(t), p), "w", "dir"))
                     /\ UNCHANGED pool

MayRemove(u, p) == p # <<>> /\ Resolves(u, p) /\ CheckDirWrite(u, Parent(u, p))

\* remove_dir_entry and free_inode, which zeroes the inode.
Removes(u, p) == /\ ino' = [ino EXCEPT ![Leaf(u, p)] = Zeroed]
                 /\ ents' = [ents EXCEPT ![Parent(u, p)][LeafName(p)] = Absent]

\* mofs_unlink_core; open handles are not looked at.
Unlink(t, p) == /\ Called(t, "bound") /\ MayRemove(Me(t), p) /\ ~IsDir(Leaf(Me(t), p))
                /\ Removes(Me(t), p)
                /\ Returns(t, "ok", Access(t, Parent(Me(t), p), "w", "dir"))
                /\ UNCHANGED pool

\* mofs_rmdir_core
RemovesDir(t, p) == /\ MayRemove(Me(t), p) /\ IsDir(Leaf(Me(t), p))
                    /\ ents[Leaf(Me(t), p)] = NoEntries
                    /\ Removes(Me(t), p)
                    /\ Returns(t, "ok", Access(t, Parent(Me(t), p), "w", "dir"))
                    /\ UNCHANGED pool

Rmdir(t, p) == Called(t, "bound") /\ RemovesDir(t, p)

\* mofs_vfs_unlink: mofs_unlink says EISDIR, and mofs_rmdir is called.
VfsUnlink(t, p) == /\ Called(t, "bound") /\ MayRemove(Me(t), p) /\ IsDir(Leaf(Me(t), p))
                   /\ Me(t) = Uid0             \* the only user of the Zephyr port
                   /\ thr' = [thr EXCEPT ![t].rest = "rmdir", ![t].path = p]
                   /\ UNCHANGED <<ino, ents, pool, last>>

VfsRmdir(t) == Called(t, "rmdir") /\ RemovesDir(t, thr[t].path)

-----------------------------------------------------------------------------
(* Opening and closing.                                                    *)

FirstFree(h) == pool[h] = Unused /\ \A g \in Handles : g < h => pool[g] # Unused

\* mofs_open_core on a file that exists; dir is MOFS_OFLAG_DIRECTORY.
Open(t, p, flags, dir) ==
    /\ Called(t, "bound") /\ Resolves(Me(t), p)
    /\ LET i == Leaf(Me(t), p) IN
       /\ dir => IsDir(i)
       /\ CheckOpen(Me(t), flags, i)
       /\ \E h \in Handles : FirstFree(h) /\ pool' = [pool EXCEPT ![h] = [ino |-> i, flags |-> flags]]
    /\ Returns(t, "ok", {})
    /\ UNCHANGED <<ino, ents>>

\* mofs_open_core with MOFS_OFLAG_CREAT on a file that does not exist: the
\* file is created, and then opened as any other.  It stays when its own mode
\* denies the open, a directory was asked for, or no handle is free.
OpenCreate(t, p, flags, dir, mode) ==
    /\ Called(t, "bound") /\ MayCreate(Me(t), p)
    /\ Creates(Me(t), p, "file", mode)
    /\ \/ /\ ~dir /\ ValidFlags(flags) /\ Needs(flags) \subseteq mode.owner
          /\ \E h \in Handles :
                FirstFree(h) /\ pool' = [pool EXCEPT ![h] = [ino |-> LowestFree, flags |-> flags]]
          /\ Returns(t, "ok", Access(t, Parent(Me(t), p), "w", "dir"))
       \/ /\ \/ dir \/ ~(Needs(flags) \subseteq mode.owner)
             \/ \A h \in Handles : pool[h] # Unused
          /\ UNCHANGED pool
          /\ Returns(t, "created", Access(t, Parent(Me(t), p), "w", "dir"))

\* mofs_close_core
Close(t, h) == /\ Called(t, "bound") /\ pool[h] # Unused
               /\ pool' = [pool EXCEPT ![h] = Unused]
               /\ Returns(t, "ok", {})
               /\ UNCHANGED <<ino, ents>>

-----------------------------------------------------------------------------
(* Reading and writing through a handle.                                   *)

\* Mutant: only the handle is asked, whose file was checked when it was opened.
MayUseOnce(u, h, flag) == flag \in pool[h].flags /\ ~IsDir(pool[h].ino)

\* The checks of mofs_read_core and mofs_write_core: the handle's flags, and
\* on every call the permission and type of the inode the handle names.
MayUse(u, h, flag) == /\ flag \in pool[h].flags
                      /\ CheckOpen(u, pool[h].flags, pool[h].ino)
                      /\ ~IsDir(pool[h].ino)

Transfer(t, h, flag) == /\ Called(t, "bound") /\ pool[h] # Unused /\ MayUse(Me(t), h, flag)
                        /\ Returns(t, "ok", Access(t, pool[h].ino, flag, "file"))
                        /\ UNCHANGED <<ino, ents, pool>>

\* mofs_ftruncate: used and the flags are looked at before the lock is taken.
Ftruncate(t, h) == /\ Called(t, "bound") /\ pool[h] # Unused /\ "w" \in pool[h].flags
                   /\ thr' = [thr EXCEPT ![t].rest = "ftruncate", ![t].h = h]
                   /\ UNCHANGED <<ino, ents, pool, last>>

\* truncate_inode
Truncates(t, i) == /\ ~IsDir(i) /\ CheckOpen(Me(t), {"w"}, i)
                   /\ Returns(t, "ok", Access(t, i, "w", "file"))
                   /\ UNCHANGED <<ino, ents, pool>>

\* The inode is the one the handle names by now; none, if it was closed.
FtruncateCore(t) == /\ Called(t, "ftruncate") /\ pool[thr[t].h] # Unused
                    /\ Truncates(t, pool[thr[t].h].ino)

Truncate(t, p) == /\ Called(t, "bound") /\ Resolves(Me(t), p)
                  /\ Truncates(t, Leaf(Me(t), p))

\* mofs_stat_core: search permission on a directory, read permission on a file.
Stat(t, p) == /\ Called(t, "bound") /\ Resolves(Me(t), p)
              /\ LET i == Leaf(Me(t), p)
                     a == IF IsDir(i) THEN "x" ELSE "r"
                 IN  /\ IF IsDir(i) THEN CheckDirTraverse(Me(t), i) ELSE CheckOpen(Me(t), {"r"}, i)
                     /\ Returns(t, "ok", Access(t, i, a, ino[i].kind))
              /\ UNCHANGED <<ino, ents, pool>>

\* mofs_opendir_core and mofs_readdir_core
List(t, p) == /\ Called(t, "bound") /\ Resolves(Me(t), p)
              /\ IsDir(Leaf(Me(t), p)) /\ CheckDirRead(Me(t), Leaf(Me(t), p))
              /\ Returns(t, "ok", Access(t, Leaf(Me(t), p), "r", "dir"))
              /\ UNCHANGED <<ino, ents, pool>>

-----------------------------------------------------------------------------

\* The access modes that build_mofs_open_args and mofs_vfs_open ask for: an
\* open for reading, writing or both, and FUSE's O_PATH.
OpenFlags == {{"r"}, {"w"}, {"r", "w"}, {"search"}}

FilesNext == \E t \in Threads :
    \/ \E u \in Users : Bind(t, u)
    \/ CallFails(t) \/ VfsRmdir(t) \/ FtruncateCore(t)
    \/ \E p \in Paths : \/ Unlink(t, p) \/ Rmdir(t, p) \/ VfsUnlink(t, p)
                        \/ Truncate(t, p) \/ Stat(t, p) \/ List(t, p)
                        \/ \E mode \in Modes : Mkdir(t, p, mode)
                        \/ \E flags \in OpenFlags, dir \in BOOLEAN : Open(t, p, flags, dir)
                        \/ \E flags \in OpenFlags, dir \in BOOLEAN, mode \in Modes :
                              OpenCreate(t, p, flags, dir, mode)
    \/ \E h \in Handles : Close(t, h) \/ Ftruncate(t, h) \/ Transfer(t, h, "r") \/ Transfer(t, h, "w")

FilesSpec == FilesInit /\ [][FilesNext]_filesVars

-----------------------------------------------------------------------------
(* Properties.                                                             *)

\* The variables have their types; a free inode is named by no entry.
FilesTypeOK == /\ ino \in [Inodes -> [kind : {"free", "file", "dir"}, uid : Users,
                                      mode : Modes \cup {RootMode, Bits({}, {}, {})}]]
               /\ ents \in [Inodes -> [PathNames -> Inodes \cup {Absent}]]
               /\ \A i \in Inodes, n \in PathNames : ents[i][n] # Absent => ino[ents[i][n]].kind # "free"
               /\ pool \in [Handles -> [ino : Inodes, flags : OpenFlags] \cup {Unused}]
               /\ thr \in [Threads -> [user : Users, caller : Users, path : Paths, h : Handles \cup {0},
                                       rest : {"idle", "bound", "rmdir", "ftruncate"}]]
               /\ \A t \in Threads : thr[t].rest = "ftruncate" => thr[t].h \in Handles

\* The bits that decide about user u and inode i: the owner's, whatever they
\* are, for the owner; the group's for a member of its group; else the others'.
Decisive(u, i) == CASE u = ino[i].uid -> ino[i].mode.owner
                    [] u # ino[i].uid /\ <<u, ino[i].uid>> \in Members -> ino[i].mode.group
                    [] OTHER -> ino[i].mode.other

\* Every access is one that the inode, as it is now, gives to the user who
\* asked: also through a handle whose file was unlinked and whose inode number
\* was given to another user's file or to a directory, also when another
\* thread binds its user before the call, and when a handle is closed and its
\* slot reused between the two halves of mofs_ftruncate.  Bytes are read and
\* written in files, entries in directories, and nothing in a free inode,
\* which no entry names either (FilesTypeOK).
AccessesAllowed == /\ FilesTypeOK
                   /\ \A a \in last.acc : /\ a[3] \in Decisive(a[1], a[2])
                                          /\ ino[a[2]].kind = a[4]

\* A new file or directory belongs to the user whose request made it, however
\* the threads of the front end interleave: the caller is bound before the
\* core lock is taken and read under it.
RequesterOwns == [][
    \A i \in Inodes : ino[i].kind = "free" /\ ino'[i].kind # "free" =>
        \E t \in Threads : thr[t] # Idle /\ thr'[t] = Idle /\ ino'[i].uid = thr[t].user ]_filesVars
=============================================================================
