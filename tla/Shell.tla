------------------------------- MODULE Shell --------------------------------
(***************************************************************************)
(* The file commands of the shell, cli/cli_fs.c and cli/cli_path.c, over   *)
(* the mount table.  The shell is one task and the only user of the file   *)
(* system in its image; between two calls of a command the operator may    *)
(* type Ctrl-C, memory may be short, and what the command has open stays   *)
(* open until it closes it.  A step is one VFS call.                       *)
(***************************************************************************)
EXTENDS Vfs

CONSTANTS
    Args,           (* the paths the operator types                        *)
    MaxDepth,       (* 16, the components of a normalised path             *)
    PathMax,        (* CLI_FS_PATH_MAX - 1, its characters                 *)
    TrackMax,       (* CLI_FS_FH_MAX                                       *)
    IoChunk,        (* CLI_FS_IO_CHUNK                                     *)
    BenchFile       (* /tmp/fbench.bin                                     *)

ASSUME ShellAssumption ==
    /\ Args \subseteq [abs : BOOLEAN, names : Seq(STRING)]
    /\ {MaxDepth, PathMax, IoChunk} \subseteq Nat \ {0}
    /\ FdCount >= 2 /\ TrackMax >= 2    (* cp has two files open           *)

VARIABLES
    cwd,        (* the working directory, a normalised path                *)
    tracked,    (* g_fh: the descriptors that fhandle shows                *)
    job         (* the command that runs, and its locals                   *)

vfsVars   == <<fsVars, mounts>>
shellVars == <<cwd, tracked, job>>

NoFd  == FdCount
NoJob == [cmd |-> "none", at |-> "end", path |-> << >>, in |-> NoFd, out |-> NoFd,
          buf |-> << >>, dirs |-> << >>]
Bad   == <<"bad">>

ShellInit == cwd = << >> /\ tracked = {} /\ job = NoJob

-----------------------------------------------------------------------------
(* Paths.                                                                  *)

(* what snprintf makes of a path; a slash at its end says nothing          *)
Printed(path) == SelectSeq(CutTo(path, PathMax), LAMBDA name : name # "")

(* cli_path_normalize: ".." stops at the root; a name too long, too many   *)
(* components and too long a result fail                                   *)
CliNormalize(names) ==
    LET push(st, name) ==
            IF st = Bad \/ NameLen(name) > NameMax THEN Bad
            ELSE IF name = "." THEN st
            ELSE IF name = ".." THEN IF st = << >> THEN st ELSE Front(st)
            ELSE IF Len(st) = MaxDepth THEN Bad ELSE Append(st, name)
        path == FoldLeft(push, << >>, names)
    IN  IF path # Bad /\ PathLen(path) > PathMax THEN Bad ELSE path

(* what the operator names, and what of it is looked at: a relative path   *)
(* is joined to the working directory with snprintf, which cuts it and     *)
(* never fails                                                             *)
Named(arg)  == IF arg.abs THEN arg.names ELSE cwd \o arg.names
Joined(arg) == IF arg.abs THEN arg.names ELSE Printed(Named(arg))

(* cli_path_setcwd                                                         *)
SetCwd(p) == cwd' = p

(* cli_path_resolve                                                        *)
CliResolve(arg) == CliNormalize(Joined(arg))

(* vfs_stat                                                                *)
StatIs(path, kind) ==
    /\ FindMount(path) # NoMount
    /\ FsStat(path, kind)

-----------------------------------------------------------------------------
(* Descriptors.                                                            *)

NewFd == LET new == {f \in Fds : fds[f] # fds'[f]} IN IF new = {} THEN NoFd ELSE Lowest(new)
NewHandle == Lowest({h \in Handles : handles[h] # handles'[h]})

(* fs_open_tracked, fs_fh_add                                              *)
OpenTracked(path, flags) ==
    /\ VfsOpen(path, flags)
    /\ tracked' = IF Cardinality(tracked) < TrackMax THEN tracked \union {NewFd} ELSE tracked

(* fs_close_tracked                                                        *)
FhDel(f) == tracked' = tracked \ {f}
CloseTracked(f) == VfsClose(f) /\ FhDel(f)

ReadOnly   == [create |-> FALSE, trunc |-> FALSE, how |-> "read"]
ReadWrite  == [create |-> TRUE, trunc |-> FALSE, how |-> "write"]
WriteAnew  == [create |-> TRUE, trunc |-> TRUE, how |-> "write"]

-----------------------------------------------------------------------------
(* Commands of one call.  A path that is no path, or leads nowhere, ends   *)
(* a command before it does anything.                                      *)
Cd(arg) ==
    LET p == CliResolve(arg)
    IN  p # Bad /\ StatIs(p, "dir") /\ SetCwd(p) /\ UNCHANGED <<vfsVars, tracked, job>>

CallOn(arg, Call(_)) ==
    CliResolve(arg) # Bad /\ Call(CliResolve(arg)) /\ UNCHANGED shellVars

MkdirCmd(arg) == CallOn(arg, VfsMkdir)
RmCmd(arg)    == CallOn(arg, LAMBDA p : StatIs(p, "file") /\ VfsUnlink(p))
MvCmd(src, dst) == CallOn(src, LAMBDA p : CallOn(dst, LAMBDA q : VfsRename(p, q)))

(* mount and umount take the mount point as it is typed                    *)
MountCmd(mp)  == Mount(mp) /\ UNCHANGED shellVars
UmountCmd(mp) == Umount(mp) /\ UNCHANGED shellVars

-----------------------------------------------------------------------------
(* Commands of several.                                                    *)
At(cmd, at) == job.cmd = cmd /\ job.at = at
Begin(cmd, at) == [NoJob EXCEPT !.cmd = cmd, !.at = at]

(* fs_confirm, of mkfs and rm -r: the operator says yes, or anything else  *)
Confirm ==
    /\ job.at = "asked" /\ job' \in {NoJob, [job EXCEPT !.at = "visit"]}
    /\ UNCHANGED <<vfsVars, cwd, tracked>>

(* cmd_mkfs                                                                *)
MkfsCmd(mp) ==
    /\ job' = [Begin("mkfs", "asked") EXCEPT !.path = mp]
    /\ UNCHANGED <<vfsVars, cwd, tracked>>

MkfsGo ==
    /\ At("mkfs", "visit") /\ job' = NoJob /\ UNCHANGED tracked
    /\ \/ Mkfs(job.path) /\ SetCwd(<< >>)
       \/ FindMount(job.path) = NoMount /\ UNCHANGED <<vfsVars, cwd>>

(* cmd_touch                                                               *)
Touch(arg) ==
    LET p == CliResolve(arg)
    IN  /\ p # Bad /\ OpenTracked(p, ReadWrite)
        /\ job' = [Begin("touch", "end") EXCEPT !.in = NewFd]
        /\ UNCHANGED cwd

(* cmd_cat, cmd_hexdump                                                    *)
Show(arg) ==
    LET p == CliResolve(arg)
    IN  /\ p # Bad /\ OpenTracked(p, ReadOnly)
        /\ job' = [Begin("show", "read") EXCEPT !.in = NewFd]
        /\ UNCHANGED cwd

ShowRead ==
    /\ At("show", "read")
    /\ VfsRead(job.in, IoChunk) /\ UNCHANGED shellVars

(* cmd_cp                                                                  *)
Cp(src, dst) ==
    LET p == CliResolve(src)
    IN  /\ p # Bad /\ CliResolve(dst) # Bad
        /\ StatIs(p, "file") /\ OpenTracked(p, ReadOnly)
        /\ job' = [Begin("cp", "open") EXCEPT !.in = NewFd, !.path = CliResolve(dst)]
        /\ UNCHANGED cwd

CpOpen ==
    /\ At("cp", "open")
    /\ \/ /\ OpenTracked(job.path, WriteAnew)
          /\ job' = [job EXCEPT !.out = NewFd, !.at = "read"]
       \/ /\ ~StatIs(job.path, "file")
          /\ job' = [job EXCEPT !.at = "end"] /\ UNCHANGED <<vfsVars, tracked>>
    /\ UNCHANGED cwd

CpRead ==
    /\ At("cp", "read") /\ VfsRead(job.in, IoChunk)
    /\ job' = [job EXCEPT !.at = "write",
                  !.buf = SubSeq(cells[fds[job.in].ino], fds[job.in].pos + 1, fds'[job.in].pos)]
    /\ UNCHANGED <<cwd, tracked>>

CpWrite ==
    /\ At("cp", "write") /\ VfsWrite(job.out, job.buf)
    /\ job' = IF fds'[job.out].pos = fds[job.out].pos
              THEN [job EXCEPT !.at = "end"] ELSE [job EXCEPT !.at = "read", !.buf = << >>]
    /\ UNCHANGED <<cwd, tracked>>

(* the end of the source, or Ctrl-C, or no memory for a buffer             *)
StopReading ==
    /\ job.cmd \in {"show", "cp"} /\ job.at = "read"
    /\ job' = [job EXCEPT !.at = "end"] /\ UNCHANGED <<vfsVars, cwd, tracked>>

(* Bug form: a copy closes what it reads only                              *)
CloseInput ==
    /\ job.cmd \in {"touch", "show", "cp"} /\ job.at = "end"
    /\ CloseTracked(job.in) /\ job' = NoJob
    /\ UNCHANGED cwd

(* the way out of touch, cat, hexdump and cp                               *)
CloseAll ==
    /\ job.cmd \in {"touch", "show", "cp"} /\ job.at = "end"
    /\ \/ /\ job.in # NoFd /\ CloseTracked(job.in)
          /\ job' = IF job.out = NoFd THEN NoJob ELSE [job EXCEPT !.in = NoFd]
       \/ /\ job.in = NoFd /\ CloseTracked(job.out) /\ job' = NoJob
    /\ UNCHANGED cwd

(* cmd_ls; cli_path_complete looks for names the same way                  *)
Ls(arg) ==
    LET p == CliResolve(arg)
    IN  /\ p # Bad /\ VfsOpendir(p)
        /\ job' = [Begin("ls", "next") EXCEPT !.dirs = <<[path |-> p, handle |-> NewHandle]>>]
        /\ UNCHANGED <<cwd, tracked>>

LsNext ==
    /\ At("ls", "next")
    /\ \/ VfsReaddir(job.dirs[1].handle) /\ UNCHANGED job
       \/ VfsClosedir(job.dirs[1].handle) /\ job' = NoJob
    /\ UNCHANGED <<cwd, tracked>>

-----------------------------------------------------------------------------
(* rm -r: fs_rm_tree, its recursion as a stack of open directories.        *)
RmTree(arg) ==
    LET p == CliResolve(arg)
    IN  /\ p # Bad /\ StatIs(p, "dir")
        /\ job' = [Begin("rm", "asked") EXCEPT !.path = p]
        /\ UNCHANGED <<vfsVars, cwd, tracked>>

Top == Last(job.dirs)
Popped(at) == IF Len(job.dirs) = 1 THEN NoJob
              ELSE [job EXCEPT !.dirs = Front(@), !.at = at]

(* one that fails, or is interrupted, ends the whole                       *)
RmVisit ==
    /\ At("rm", "visit")
    /\ \/ /\ StatIs(job.path, "file") /\ VfsUnlink(job.path)
          /\ job' = [job EXCEPT !.at = "next"]
       \/ /\ job.path # << >> /\ VfsOpendir(job.path)
          /\ job' = [job EXCEPT !.at = "next",
                        !.dirs = Append(@, [path |-> job.path, handle |-> NewHandle])]
       \/ /\ job' = IF job.dirs = << >> THEN NoJob ELSE [job EXCEPT !.at = "unwind"]
          /\ UNCHANGED vfsVars
    /\ UNCHANGED <<cwd, tracked>>

(* the name of the entry at byte pos of d; none there if pos is inside one *)
NameAt(d, pos) ==
    LET k == SelectInSeq([j \in DOMAIN entries[d] |-> EndOf(d, j - 1)], LAMBDA p : p = pos)
    IN  IF k = 0 THEN Junk ELSE entries[d][k].name

RmNext ==
    LET d == handles[Top.handle].ino
        pos == handles[Top.handle].pos
    IN  /\ At("rm", "next")
        /\ \/ /\ VfsReaddir(Top.handle)
              /\ job' = [job EXCEPT !.at = "visit", !.path = Printed(Append(Top.path, NameAt(d, pos)))]
           \/ /\ pos + 3 > EndOf(d, Len(entries[d]))
              /\ VfsClosedir(Top.handle) /\ job' = [job EXCEPT !.at = "rmdir"]
        /\ UNCHANGED <<cwd, tracked>>

RmDir ==
    /\ At("rm", "rmdir")
    /\ \/ VfsRmdir(Top.path) /\ job' = Popped("next")
       \/ /\ entries[Resolve(Top.path).ino] # << >>
          /\ job' = Popped("unwind") /\ UNCHANGED vfsVars
    /\ UNCHANGED <<cwd, tracked>>

RmUnwind ==
    /\ At("rm", "unwind") /\ VfsClosedir(Top.handle) /\ job' = Popped("unwind")
    /\ UNCHANGED <<cwd, tracked>>

-----------------------------------------------------------------------------
(* cmd_fbench: over and over a file is made, written, read and closed; it  *)
(* is removed at the end, but not after Ctrl-C.                            *)
Bench ==
    /\ job' = Begin("bench", "open")
    /\ \/ VfsMkdir(Front(BenchFile))
       \/ UNCHANGED vfsVars
    /\ UNCHANGED <<cwd, tracked>>

BenchStep ==
    /\ job.cmd = "bench"
    /\ \/ /\ job.at = "open" /\ VfsOpen(BenchFile, WriteAnew)
          /\ job' = [job EXCEPT !.at = "write", !.out = NewFd]
       \/ /\ job.at = "open" /\ job' \in {NoJob, [job EXCEPT !.at = "unlink"]}
          /\ UNCHANGED vfsVars
       \/ /\ job.at = "write" /\ \E c \in Chunks : VfsWrite(job.out, c)
          /\ job' = [job EXCEPT !.at = IF fds'[job.out].pos = 0 THEN "close" ELSE "seek"]
       \/ /\ job.at = "seek" /\ VfsLseek(job.out, 0, "set")
          /\ job' = [job EXCEPT !.at = "read"]
       \/ /\ job.at = "read" /\ VfsRead(job.out, MaxFile)
          /\ job' = [job EXCEPT !.at = "close"]
       \/ /\ job.at = "close" /\ VfsClose(job.out)
          /\ job' = [job EXCEPT !.at = "open", !.out = NoFd]
       \/ /\ job.at = "unlink" /\ job' = NoJob
          /\ \/ VfsUnlink(BenchFile)
             \/ ~StatIs(BenchFile, "file") /\ UNCHANGED vfsVars
    /\ UNCHANGED <<cwd, tracked>>

ShellStep ==
    \/ /\ job = NoJob
       /\ \/ \E a \in Args : Cd(a) \/ MkdirCmd(a) \/ RmCmd(a) \/ Touch(a) \/ Show(a)
                             \/ Ls(a) \/ RmTree(a)
          \/ \E a, b \in Args : MvCmd(a, b) \/ Cp(a, b)
          \/ \E mp \in MountPoints : MountCmd(mp) \/ UmountCmd(mp) \/ MkfsCmd(mp)
          \/ Bench
    \/ Confirm \/ MkfsGo
    \/ ShowRead \/ CpOpen \/ CpRead \/ CpWrite \/ StopReading \/ CloseAll
    \/ LsNext \/ RmVisit \/ RmNext \/ RmDir \/ RmUnwind
    \/ BenchStep

-----------------------------------------------------------------------------
(* However a command ends, interrupted or refused half way, nothing it has *)
(* opened is left open and fhandle shows what is open; and a copy under    *)
(* way is the beginning of its source.                                     *)
NothingLeft ==
    /\ job = NoJob => \A h \in Handles : handles[h] = Closed
    /\ job.cmd \notin {"bench", "vi"} => tracked = {f \in Fds : fds[f] # Closed}
    /\ tracked \subseteq {job.in, job.out}
    /\ LET i == fds[job.in].ino
           o == fds[job.out].ino
       IN  {job.in, job.out} \subseteq Fds /\ i # o =>
             SubSeq(cells[o], 1, fileSize[o]) \o job.buf = SubSeq(cells[i], 1, fds[job.in].pos)

(* What the operator names is what he gets: a path that the file system    *)
(* would follow, and that fits in the shell's buffer, leads to the same    *)
(* file after the shell has normalised it, and it is served by the longest *)
(* mount point that it begins with.                                        *)
PathsLead ==
    /\ LongestMount
    /\ \A a \in Args :
         LET names == Named(a)
             raw   == Resolve(names)
             p     == CliResolve(a)
         IN  (/\ p # Bad /\ PathLen(names) <= PathMax
              /\ names # << >> /\ Last(names) # ".." /\ raw.rc = "found") =>
               Resolve(p) = raw
=============================================================================
