-------------------------------- MODULE Vfs ---------------------------------
(***************************************************************************)
(* The mount table of kernel/vfs.c over RamFs, the one file system that is *)
(* linked in.  A mount point decides whether a path is served and by which *)
(* operations; the whole path is then handed on, so that every mount shows *)
(* the same tree.  Only the shell calls it: no lock, and none needed.      *)
(***************************************************************************)
EXTENDS RamFs

CONSTANTS
    MountSlots,     (* VFS_MAX_MOUNTS                                      *)
    MpMax,          (* VFS_MP_MAX - 1, the longest mount point             *)
    MountPoints     (* the mount points the shell names                    *)

ASSUME MountAssumption == {MountSlots, MpMax} \subseteq Nat \ {0}

VARIABLE mounts     (* g_mounts: the mount point in each slot, or Unused   *)

Unused  == <<"unused">>
NoMount == 0

(* vfs_init                                                                *)
VfsInit == FsInit /\ mounts = [s \in 1..MountSlots |-> IF s = 1 THEN << >> ELSE Unused]

(* Bug form: the first mount point that the path begins with               *)
FindFirstMount(path) ==
    SelectInSeq(mounts, LAMBDA mp : mp # Unused /\ IsPrefix(mp, path))

(* vfs_find_mount: from slot to slot, the longest so far that the path     *)
(* begins with; the root when there is no other                            *)
FindMount(path) ==
    LET better(best, s) ==
            IF mounts[s] = Unused THEN best
            ELSE IF mounts[s] = << >> THEN IF best = NoMount THEN s ELSE best
            ELSE IF IsPrefix(mounts[s], path)
                    /\ (best # NoMount => Len(mounts[s]) >= Len(mounts[best]))
                 THEN s
            ELSE best
    IN  FoldLeft(better, NoMount, [s \in 1..MountSlots |-> s])

(* vfs_mount: in the first free slot, no more of it than a slot can hold   *)
Mount(mp) ==
    LET free == {s \in 1..MountSlots : mounts[s] = Unused}
    IN  /\ \A s \in 1..MountSlots : mounts[s] # mp
        /\ free # {}
        /\ mounts' = [mounts EXCEPT ![Lowest(free)] = CutTo(mp, MpMax)]
        /\ UNCHANGED fsVars

(* vfs_umount: the root stays while it is alone; another mount may go when *)
(* it is the last                                                          *)
Umount(mp) ==
    LET others == {s \in 1..MountSlots : mounts[s] \notin {Unused, mp}}
    IN  /\ \E s \in 1..MountSlots : mounts[s] = mp
        /\ mp = << >> => others # {}
        /\ mounts' = [s \in 1..MountSlots |-> IF mounts[s] = mp THEN Unused ELSE mounts[s]]
        /\ UNCHANGED fsVars

(* vfs_mkfs: whatever is mounted there, everything goes                    *)
Mkfs(mp) == FindMount(mp) # NoMount /\ Format /\ UNCHANGED mounts

-----------------------------------------------------------------------------
(* The calls that a mount passes on, vfs_ops_for_path before each.         *)
Served(path) == FindMount(path) # NoMount /\ UNCHANGED mounts

VfsOpen(path, flags) == Served(path) /\ OpenFile(path, flags)
VfsUnlink(path)      == Served(path) /\ UnlinkFile(path)
VfsMkdir(path)       == Served(path) /\ Mkdir(path)
VfsRmdir(path)       == Served(path) /\ Rmdir(path)
VfsOpendir(path)     == Served(path) /\ Opendir(path)
VfsRename(old, new)  == Served(old) /\ Served(new) /\ Rename(old, new)

(* What is open is called without looking at the mounts.                   *)
VfsClose(f)          == CloseFile(f) /\ UNCHANGED mounts
VfsRead(f, n)        == ReadFile(f, n) /\ UNCHANGED mounts
VfsWrite(f, chunk)   == WriteFile(f, chunk) /\ UNCHANGED mounts
VfsLseek(f, off, whence) == Lseek(f, off, whence) /\ UNCHANGED mounts
VfsReaddir(h)        == Readdir(h) /\ UNCHANGED mounts
VfsClosedir(h)       == Closedir(h) /\ UNCHANGED mounts

-----------------------------------------------------------------------------
(* Whatever is mounted and unmounted in whatever order, no mount point has *)
(* two slots, but for those that fill one, which may have been cut; and a  *)
(* path is served by the longest that it begins with, if by any.           *)
LongestMount ==
    /\ \A s, r \in 1..MountSlots :
         mounts[s] = mounts[r] /\ mounts[s] # Unused /\ PathLen(mounts[s]) < MpMax => s = r
    /\ \A p \in Paths :
         LET on    == {s \in 1..MountSlots : mounts[s] # Unused /\ IsPrefix(mounts[s], p)}
             found == FindMount(p)
         IN  IF on = {} THEN found = NoMount
             ELSE found \in on /\ \A s \in on : Len(mounts[s]) <= Len(mounts[found])
=============================================================================
