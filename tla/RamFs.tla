------------------------------- MODULE RamFs --------------------------------
(***************************************************************************)
(* The file system in memory of kernel/fs.c: a table of inodes, of         *)
(* descriptors and of directory handles under one mutex.  Each call is one *)
(* step; one that fails and leaves nothing behind is none.  Memory may be  *)
(* short at any call that asks for it.                                     *)
(*                                                                         *)
(* A path is the sequence of its components, and has less than 256         *)
(* characters.  The application removes no file or directory that it has   *)
(* open: its descriptor would be left pointing at an inode that the next   *)
(* file or directory gets.                                                 *)
(***************************************************************************)
EXTENDS Integers, Sequences, FiniteSets, SequencesExt, FiniteSetsExt

CONSTANTS
    InodeCount, FdCount, DirCount,  (* sizes of g_inos, g_fds, g_dirs      *)
    Paths,          (* the paths the application uses, old and new         *)
    Stems,          (* what each name begins with: its first character,    *)
                    (* its first two, and so on to the name itself         *)
    NameMax,        (* CGRTOS_FS_MAX_NAME - 1, the longest name            *)
    PathDepth,      (* 16, the stack of path_resolve with the root in it   *)
    OpenFlags,      (* the flags it opens files with                       *)
    FirstCapacity,  (* 64, the first buffer of a file                      *)
    MaxFile,        (* CGRTOS_FS_MAX_FILE_BYTES                            *)
    Chunks,         (* the contents the application writes at once         *)
    Offsets,        (* the offsets it seeks by                             *)
    MaxSeek,        (* bound on them                                       *)
    MaxInUse        (* bound on the inodes, descriptors and handles in use *)

ASSUME FsAssumption ==
    /\ {InodeCount, FdCount, DirCount, FirstCapacity, MaxFile} \subseteq Nat \ {0}
    /\ \A p \in Paths : p # << >> => Last(p) # ".."
    /\ OpenFlags \subseteq [create : BOOLEAN, trunc : BOOLEAN, how : {"read", "write", "append"}]
    /\ Offsets \subseteq Int /\ {MaxSeek, MaxInUse} \subseteq Nat
    /\ {NameMax, PathDepth} \subseteq Nat \ {0}
    /\ \A n \in DOMAIN Stems :
         Stems[n] \in Seq(DOMAIN Stems) /\ Stems[n] # << >> /\ Last(Stems[n]) = n

Inodes  == 0..(InodeCount - 1)
Fds     == 0..(FdCount - 1)
Handles == 0..(DirCount - 1)
NoInode == InodeCount
Junk    == "junk"       (* what malloc left in a buffer                    *)

VARIABLES
    inodeKind,  (* used and is_dir: "free", "file" or "dir"                *)
    entries,    (* the packed entries of a directory                       *)
    fileSize,   (* size of a file                                          *)
    cells,      (* data of a file, as long as its capacity                 *)
    fds,        (* g_fds: inode, position and mode, or Closed              *)
    handles,    (* g_dirs: inode and byte position, or Closed              *)
    written     (* history: what was written where since the file was      *)
                (* last empty; Junk where nothing was                      *)

treeVars == <<inodeKind, entries>>
dataVars == <<fileSize, cells, written>>
fsVars   == <<treeVars, dataVars, fds, handles>>

Closed == [ino |-> NoInode, pos |-> 0, how |-> "read"]
NothingWritten == [k \in 1..MaxFile |-> Junk]

(* cgrtos_fs_init, cgrtos_fs_format                                        *)
FsEmpty(kind, ents, sizes, data, descs, dirs, hist) ==
    /\ kind = [i \in Inodes |-> IF i = 0 THEN "dir" ELSE "free"]
    /\ ents = [i \in Inodes |-> << >>]
    /\ sizes = [i \in Inodes |-> 0] /\ data = [i \in Inodes |-> << >>]
    /\ hist = [i \in Inodes |-> NothingWritten]
    /\ descs = [f \in Fds |-> Closed] /\ dirs = [h \in Handles |-> Closed]

FsInit == FsEmpty(inodeKind, entries, fileSize, cells, fds, handles, written)
Format == FsEmpty(inodeKind', entries', fileSize', cells', fds', handles', written')

-----------------------------------------------------------------------------
(* Names.                                                                  *)

NameLen(name) == IF name = "" THEN 0 ELSE Len(Stems[name])

(* the characters of a path, each component with its slash                 *)
PathLen(path) == SumFunction([i \in DOMAIN path |-> 1 + NameLen(path[i])])

(* its first so many characters: whole components, and the stem of another *)
(* or, as "", nothing but its slash                                        *)
CutTo(path, max) ==
    LET left(i) == max - PathLen(SubSeq(path, 1, i - 1)) - 1
        kept    == Cardinality({i \in DOMAIN path : left(i) >= 0})
    IN  [i \in 1..kept |-> IF left(i) >= NameLen(path[i]) THEN path[i]
                           ELSE IF left(i) = 0 THEN "" ELSE Stems[path[i]][left(i)]]

(* the entry that path_resolve finds in d                                  *)
Child(d, name) ==
    LET k == SelectInSeq(entries[d], LAMBDA e : e.name = name)
    IN  IF k = 0 THEN NoInode ELSE entries[d][k].ino

(* path_resolve without creation: the inodes on the way to a path, the     *)
(* last of them NoInode when that alone is missing; empty after an error,  *)
(* which a name too long is and an entry found too deep, but not one that  *)
(* is missing there.  A file may be on the way if ".." follows.            *)
Down(way, name) ==
    IF way = << >> \/ Last(way) = NoInode \/ NameLen(name) > NameMax THEN << >>
    ELSE IF name = "." THEN way
    ELSE IF name = ".." THEN IF Len(way) > 1 THEN Front(way) ELSE way
    ELSE LET i == Child(Last(way), name)
         IN  IF inodeKind[Last(way)] # "dir" \/ (i # NoInode /\ Len(way) = PathDepth) THEN << >>
             ELSE Append(way, i)

Arrived(way) ==
    IF way = << >> THEN [rc |-> "bad", ino |-> NoInode, parent |-> NoInode]
    ELSE [rc |-> IF Last(way) = NoInode THEN "missing" ELSE "found", ino |-> Last(way),
          parent |-> IF Len(way) = 1 THEN 0 ELSE way[Len(way) - 1]]

Resolve(path) ==
    Arrived(IF path # << >> /\ Last(path) = "." THEN << >> ELSE FoldLeft(Down, <<0>>, path))

Lowest(S) == CHOOSE i \in S : \A j \in S : i <= j
FreeInodes == {i \in Inodes \ {0} : inodeKind[i] = "free"}

(* ino_alloc, and the entry that path_resolve appends                      *)
NewChild(kind, d, name) ==
    /\ FreeInodes # {}
    /\ inodeKind' = [inodeKind EXCEPT ![Lowest(FreeInodes)] = kind]
    /\ entries' = [entries EXCEPT ![d] = Append(@, [ino |-> Lowest(FreeInodes), name |-> name])]

(* dir_remove_child: the first of that name                                *)
WithoutName(ents, d, name) ==
    [ents EXCEPT ![d] = RemoveFirstMatch(@, LAMBDA e : e.name = name)]

(* dir_add_child                                                           *)
WithName(ents, d, i, name) == [ents EXCEPT ![d] = Append(@, [ino |-> i, name |-> name])]

(* ino_free                                                                *)
FreeInode(i) ==
    /\ inodeKind' = [inodeKind EXCEPT ![i] = "free"]
    /\ fileSize' = [fileSize EXCEPT ![i] = 0]
    /\ cells' = [cells EXCEPT ![i] = << >>]
    /\ written' = [written EXCEPT ![i] = NothingWritten]

(* cgrtos_fs_stat, which says whether path is of that kind                 *)
FsStat(path, kind) == Resolve(path).rc = "found" /\ inodeKind[Resolve(path).ino] = kind

(* cgrtos_fs_mkdir                                                         *)
Mkdir(path) ==
    LET r == Resolve(path)
    IN  /\ r.rc = "missing" /\ NewChild("dir", r.parent, Last(path))
        /\ UNCHANGED <<dataVars, fds, handles>>

(* cgrtos_fs_unlink                                                        *)
UnlinkFile(path) ==
    LET r == Resolve(path)
    IN  /\ r.rc = "found" /\ inodeKind[r.ino] = "file"
        /\ \A f \in Fds : fds[f].ino # r.ino
        /\ entries' = WithoutName(entries, r.parent, Last(path))
        /\ FreeInode(r.ino)
        /\ UNCHANGED <<fds, handles>>

(* cgrtos_fs_rmdir                                                         *)
Rmdir(path) ==
    LET r == Resolve(path)
    IN  /\ r.rc = "found" /\ r.ino # 0 /\ inodeKind[r.ino] = "dir" /\ entries[r.ino] = << >>
        /\ \A h \in Handles : handles[h].ino # r.ino
        /\ entries' = WithoutName(entries, r.parent, Last(path))
        /\ FreeInode(r.ino)
        /\ UNCHANGED <<fds, handles>>

(* cgrtos_fs_rename: new must not be found, which a name too long never    *)
(* is; its last component is taken as it is written, or the longest name   *)
(* that it begins with; without memory for its entry the old one is put    *)
(* back, at the end                                                        *)
Rename(old, new) ==
    LET r == Resolve(old)
        t == Resolve(Front(new))
        away == WithoutName(entries, r.parent, Last(old))
        leaf == IF NameLen(Last(new)) > NameMax THEN Stems[Last(new)][NameMax] ELSE Last(new)
    IN  /\ old # << >> /\ new # << >>
        /\ r.rc = "found" /\ Resolve(new).rc # "found"
        /\ t.rc = "found" /\ inodeKind[t.ino] = "dir"
        /\ entries' \in {WithName(away, t.ino, r.ino, leaf),
                         WithName(away, r.parent, r.ino, Last(old))}
        /\ UNCHANGED <<inodeKind, dataVars, fds, handles>>

-----------------------------------------------------------------------------
(* Contents.                                                               *)

(* the descriptor that open gives, if one is free                          *)
Opened(i, size, how) ==
    LET free == {f \in Fds : fds[f] = Closed}
    IN  IF free = {} THEN fds
        ELSE [fds EXCEPT ![Lowest(free)] =
                 [ino |-> i, pos |-> IF how = "append" THEN size ELSE 0, how |-> how]]

(* cgrtos_fs_open: the file is truncated, or there, even without a         *)
(* descriptor for it                                                       *)
OpenFile(path, flags) ==
    LET r == Resolve(path)
        i == r.ino
    IN  \/ /\ r.rc = "found" /\ inodeKind[i] = "file"
           /\ fileSize' = IF flags.trunc THEN [fileSize EXCEPT ![i] = 0] ELSE fileSize
           /\ written' = IF flags.trunc THEN [written EXCEPT ![i] = NothingWritten] ELSE written
           /\ fds' = Opened(i, fileSize'[i], flags.how)
           /\ UNCHANGED <<treeVars, cells, handles>>
        \/ /\ r.rc = "missing" /\ flags.create /\ NewChild("file", r.parent, Last(path))
           /\ fds' = Opened(Lowest(FreeInodes), 0, flags.how)
           /\ UNCHANGED <<dataVars, handles>>

(* cgrtos_fs_close                                                         *)
CloseFile(f) ==
    /\ fds[f] # Closed /\ fds' = [fds EXCEPT ![f] = Closed]
    /\ UNCHANGED <<treeVars, dataVars, handles>>

(* cgrtos_fs_read moves the position, in whatever mode                     *)
ReadFile(f, n) ==
    LET left == fileSize[fds[f].ino] - fds[f].pos
    IN  /\ fds[f] # Closed /\ left > 0
        /\ fds' = [fds EXCEPT ![f].pos = @ + IF n < left THEN n ELSE left]
        /\ UNCHANGED <<treeVars, dataVars, handles>>

(* the capacity that write goes to: doubled until it will do               *)
NewCapacity(i, end) ==
    LET first == IF cells[i] = << >> THEN FirstCapacity ELSE 2 * Len(cells[i])
        cap   == Lowest({c \in {first * 2^k : k \in 0..MaxFile} : c >= end})
    IN  IF cap > MaxFile THEN MaxFile ELSE cap

(* Bug form: the new buffer starts empty                                   *)
GrownEmpty(i, end) ==
    IF end <= Len(cells[i]) THEN cells[i] ELSE [k \in 1..NewCapacity(i, end) |-> Junk]

(* the buffer of i, large enough for end, with what the file shows         *)
Grown(i, end) ==
    IF end <= Len(cells[i]) THEN cells[i]
    ELSE [k \in 1..NewCapacity(i, end) |-> IF k <= fileSize[i] THEN cells[i][k] ELSE Junk]

Overlaid(data, pos, chunk) ==
    [k \in DOMAIN data |-> IF k \in (pos + 1)..(pos + Len(chunk)) THEN chunk[k - pos] ELSE data[k]]

(* cgrtos_fs_write; refused for length or memory, an appending descriptor  *)
(* has moved all the same                                                  *)
WriteFile(f, chunk) ==
    LET i    == fds[f].ino
        from == IF fds[f].how = "append" THEN fileSize[i] ELSE fds[f].pos
        end  == from + Len(chunk)
    IN  /\ fds[f] # Closed /\ fds[f].how # "read"
        /\ \/ /\ end <= MaxFile
              /\ cells' = [cells EXCEPT ![i] = Overlaid(Grown(i, end), from, chunk)]
              /\ written' = [written EXCEPT ![i] = Overlaid(@, from, chunk)]
              /\ fileSize' = [fileSize EXCEPT ![i] = IF end > @ THEN end ELSE @]
              /\ fds' = [fds EXCEPT ![f].pos = end]
           \/ /\ end > Len(cells[i])
              /\ fds' = [fds EXCEPT ![f].pos = from]
              /\ UNCHANGED dataVars
        /\ UNCHANGED <<treeVars, handles>>

(* cgrtos_fs_lseek: past the end is allowed                                *)
Lseek(f, off, whence) ==
    LET base == CASE whence = "set" -> 0
                  [] whence = "cur" -> fds[f].pos
                  [] OTHER -> fileSize[fds[f].ino]
        pos  == IF base + off < 0 THEN 0 ELSE base + off
    IN  /\ fds[f] # Closed /\ pos <= MaxSeek
        /\ fds' = [fds EXCEPT ![f].pos = pos]
        /\ UNCHANGED <<treeVars, dataVars, handles>>

-----------------------------------------------------------------------------
(* Directory handles.                                                      *)

(* cgrtos_fs_opendir                                                       *)
Opendir(path) ==
    LET r    == Resolve(path)
        free == {h \in Handles : handles[h] = Closed}
    IN  /\ r.rc = "found" /\ inodeKind[r.ino] = "dir" /\ free # {}
        /\ handles' = [handles EXCEPT ![Lowest(free)] = [Closed EXCEPT !.ino = r.ino]]
        /\ UNCHANGED <<treeVars, dataVars, fds>>

(* the byte after the k-th entry of d                                      *)
EndOf(d, k) == SumFunction([j \in 1..k |-> 3 + NameLen(entries[d][j].name)])

(* cgrtos_fs_readdir: the entry at the position.  When entries were taken  *)
(* out meanwhile the position may be inside one, and what is read there as *)
(* a length decides how far it moves.                                      *)
Readdir(h) ==
    LET d    == handles[h].ino
        n    == Len(entries[d])
        ends == [k \in 0..n |-> EndOf(d, k)]
        at   == {k \in 0..n : ends[k] = handles[h].pos}
    IN  /\ handles[h] # Closed /\ handles[h].pos + 3 <= ends[n]
        /\ \E p \in (handles[h].pos + 3)..ends[n] :
             /\ at # {} => p = ends[Lowest(at) + 1]
             /\ handles' = [handles EXCEPT ![h].pos = p]
        /\ UNCHANGED <<treeVars, dataVars, fds>>

(* cgrtos_fs_closedir                                                      *)
Closedir(h) ==
    /\ handles[h] # Closed /\ handles' = [handles EXCEPT ![h] = Closed]
    /\ UNCHANGED <<treeVars, dataVars, fds>>

InUse == Cardinality({i \in Inodes : inodeKind[i] # "free"})
         + Cardinality({f \in Fds : fds[f] # Closed})
         + Cardinality({h \in Handles : handles[h] # Closed})

(* an application that calls the file system directly                      *)
FsStep ==
    /\ \/ Format
       \/ \E p \in Paths : Mkdir(p) \/ UnlinkFile(p) \/ Rmdir(p) \/ Opendir(p)
                           \/ \E q \in Paths : Rename(p, q)
       \/ \E p \in Paths, flags \in OpenFlags : OpenFile(p, flags)
       \/ \E f \in Fds : CloseFile(f) \/ ReadFile(f, 1) \/ \E c \in Chunks : WriteFile(f, c)
       \/ \E f \in Fds, off \in Offsets, w \in {"set", "cur", "end"} : Lseek(f, off, w)
       \/ \E h \in Handles : Readdir(h) \/ Closedir(h)
    /\ InUse' <= MaxInUse

-----------------------------------------------------------------------------
(* The names in a directory differ (kernel/fs.c, on dir_add_child: its     *)
(* callers see to it; on cgrtos_fs_rename: no target is overwritten).      *)
NamesDiffer ==
    \A d \in Inodes : \A k, l \in DOMAIN entries[d] :
        entries[d][k].name = entries[d][l].name => k = l

NamesFit == \A name \in DOMAIN Stems : NameLen(name) <= NameMax

(* Every file and directory but the root is named once, and where no name  *)
(* is too long the names in a directory differ, whatever is created,       *)
(* removed, and moved with or without memory for its new entry.            *)
TreeHolds ==
    /\ NamesFit => NamesDiffer
    /\ \A d \in Inodes : inodeKind[d] # "dir" => entries[d] = << >>
    /\ \A c, d \in Inodes : \A k \in DOMAIN entries[c], l \in DOMAIN entries[d] :
         entries[c][k].ino = entries[d][l].ino => <<c, k>> = <<d, l>>
    /\ \A i \in Inodes :
         (i = 0 \/ inodeKind[i] = "free")
           <=> \A d \in Inodes : \A e \in ToSet(entries[d]) : e.ino # i

(* A file shows what was written to it, where it was written, through any  *)
(* mix of seeking, appending, truncating and growing; only what was        *)
(* skipped may show anything.  A descriptor refers to a file, and the tree *)
(* it hangs in holds together.                                             *)
FilesHold ==
    /\ TreeHolds
    /\ \A f \in Fds : fds[f] # Closed => inodeKind[fds[f].ino] = "file"
    /\ \A i \in Inodes :
         /\ fileSize[i] <= Len(cells[i]) /\ Len(cells[i]) <= MaxFile
         /\ \A k \in 1..MaxFile : written[i][k] # Junk =>
              k <= fileSize[i] /\ cells[i][k] = written[i][k]
=============================================================================
