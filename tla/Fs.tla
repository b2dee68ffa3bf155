--------------------------------- MODULE Fs ---------------------------------
(***************************************************************************)
(* The file system calls of kernel/syscall.c, the file layer of fs/fs.c and *)
(* axfs, fs/axfs.c, on an image that tools/mkfs.c has made.                 *)
(*                                                                         *)
(* A call may sleep in the block cache, but what it uses is its own: the    *)
(* image is not written, and a file object belongs to one process.  So a    *)
(* call is one step.  `bad' are the blocks whose transfer fails during it.  *)
(* axfs does not look at the result of a read of the super block, of a      *)
(* descriptor or of an inode: an open that has met such a failure goes on   *)
(* with whatever the buffers held, and its file is `stale'.                 *)
(***************************************************************************)
EXTENDS Mkfs

CONSTANTS
    SECTOR_SIZE,            \* 512 in the code
    Procs,                  \* processes, Init among them
    Init0,                  \* the process loaded at boot
    PROC_MAX_FILE_NUM,      \* 16 in the code
    FileCount,              \* struct file objects slab_alloc can give
    OpenPaths,              \* paths user programs open, sequences of names
    ReadSizes,              \* sizes they ask for
    Failures,               \* sets of blocks whose transfers may fail during one call
    StaleInodes             \* what buffers hold, taken for inodes

ASSUME ProcsAssumption == Init0 \in Procs
\* An inode does not lie across two sectors.
ASSUME SectorAssumption ==
    /\ SECTOR_SIZE \in Nat \ {0}
    /\ BLOCK_SIZE % SECTOR_SIZE = 0 /\ SECTOR_SIZE % INODE_SIZE = 0
\* A pointer of a stale inode is any number, 0 too.
ASSUME StaleAssumption ==
    \A inode \in StaleInodes :
        /\ inode.size \in Nat
        /\ \A k \in 0..DIRECT_BLOCK_COUNT - 1 : <<k>> \in DOMAIN inode.tree
ASSUME FilesAssumption ==
    /\ PROC_MAX_FILE_NUM \in Nat /\ FileCount \in Nat /\ ReadSizes \subseteq Nat
    /\ OpenPaths \subseteq Seq(STRING)

Fds == 0..PROC_MAX_FILE_NUM - 1
FileObjects == 1..FileCount
NULL == 0

VARIABLES
    live,           \* processes that exist
    files,          \* the file table of each process
    file,           \* file objects in use: [path, inode, f_pos, f_refs, stale]; inode is
                    \* i_private, what open has read (i_ino is never looked at)
    out,            \* the bytes each open file has given so far
    panic

fsVars == <<live, files, file, out, panic>>
vars == <<mkfsVars, fsVars>>

Init ==
    /\ MkfsInit
    /\ live = {Init0}
    /\ files = [p \in Procs |-> [fd \in Fds |-> NULL]]
    /\ file = <<>>
    /\ out = <<>>
    /\ panic = FALSE

-----------------------------------------------------------------------------
(* axfs.                                                                   *)

\* The calls run on the finished image.
Booted == pc = "done" /\ ~panic

SECTOR_NO(block) == block * (BLOCK_SIZE \div SECTOR_SIZE)

desc_block(g) == (DESC_SIZE * g) \div BLOCK_SIZE + SUPER_BLOCK_NO + 1

\* get_bg_inode_table: what mkfs has put where axfs, which reads sectors, looks
\* for the descriptor of group g.
get_bg_inode_table(g) ==
    LET offset == DESC_SIZE * g
        sector == SECTOR_NO(desc_block(g)) + (offset % BLOCK_SIZE) \div SECTOR_SIZE
        byte == sector * SECTOR_SIZE + (offset % SECTOR_SIZE)
    IN bg_inode_table(CHOOSE h \in DOMAIN bg : seek_desc(h) = byte)

inode_block(ino) ==
    get_bg_inode_table((ino - 1) \div InodesPerGroup)
        + (INODE_SIZE * ((ino - 1) % InodesPerGroup)) \div BLOCK_SIZE

\* inode_read: where it looks for an inode, in bytes.
inode_read(ino) ==
    LET offset == INODE_SIZE * ((ino - 1) % InodesPerGroup)
        sector == SECTOR_NO(inode_block(ino)) + (offset % BLOCK_SIZE) \div SECTOR_SIZE
    IN sector * SECTOR_SIZE + ((offset % BLOCK_SIZE) % SECTOR_SIZE)

\* inode_get, its reads having succeeded: the inode mkfs has put there.
inode_get(ino) == inodes[CHOOSE i \in DOMAIN inodes : seek_inode(i) = inode_read(ino)]

\* The blocks inode_get needs, with the super block that ax_open has read for it.
metadata(ino) ==
    {SUPER_BLOCK_NO, desc_block((ino - 1) \div InodesPerGroup), inode_block(ino)}

\* dir_find_ino looking at the first block only (mutant).
dir_find_ino_first(ino, name, bad) ==
    LET b == inode_get(ino).tree[<<0>>]
    IN IF <<0>> \in DOMAIN inode_get(ino).tree /\ b \notin bad
       THEN {disk[b].entries[i].inode : i \in {j \in DOMAIN disk[b].entries :
                disk[b].entries[j].name = name}}
       ELSE {}

\* dir_find_ino, as a set: the direct blocks up to the first that is missing;
\* one that cannot be read is passed over, indirect ones are not searched.
dir_find_ino(ino, name, bad) ==
    LET tree == inode_get(ino).tree
        direct == {k \in 0..DIRECT_BLOCK_COUNT - 1 : \A j \in 0..k : <<j>> \in DOMAIN tree}
        found(b) == {disk[b].entries[i].inode : i \in {j \in DOMAIN disk[b].entries :
                        disk[b].entries[j].name = name}}
    IN UNION {found(tree[<<k>>]) : k \in {k \in direct : tree[<<k>>] \notin bad}}

\* namex name by name from the root, 0 if one is not found or follows a file.
walk(path, bad) ==
    LET find(ino, name) ==
            LET found == dir_find_ino(ino, name, bad)
            IN IF inode_get(ino).mode # "DIR" \/ found = {} THEN 0 ELSE Min(found)
        at[i \in 0..Len(path)] ==
            IF i = 0 THEN ROOT_INO ELSE IF at[i - 1] = 0 THEN 0 ELSE find(at[i - 1], path[i])
    IN at

namex(path, bad) == walk(path, bad)[Len(path)]

\* The metadata namei needs: the directories' and the file's.
looked_at(path, bad) ==
    UNION {metadata(ino) : ino \in {walk(path, bad)[i] : i \in 0..Len(path)} \ {0}}

\* The byte at offset i of block b: byte number n of the file src, or another
\* byte of the image.
Byte(b, i) ==
    IF b \in DOMAIN disk THEN <<disk[b].src, disk[b].k * BLOCK_SIZE + i>>
    ELSE <<"", b * BLOCK_SIZE + i>>

bytes_to_read(inode, pos, size) ==
    Min({size, inode.size - pos, DIRECT_BLOCK_COUNT * BLOCK_SIZE - pos})

block_at(inode, n) == inode.tree[<<n \div BLOCK_SIZE>>]

\* The blocks read_file asks for.
blocks_to_read(inode, pos, size) ==
    IF pos >= inode.size THEN {}
    ELSE {block_at(inode, n) : n \in pos..pos + bytes_to_read(inode, pos, size) - 1}

\* read_file: 0 at the end, -1 past the direct blocks or when a block cannot be
\* read, whatever was copied before.
read_file(inode, pos, size, bad) ==
    LET bytes == bytes_to_read(inode, pos, size)
    IN  IF pos >= inode.size THEN [ret |-> 0, data |-> <<>>]
        ELSE IF pos \div BLOCK_SIZE >= DIRECT_BLOCK_COUNT
                \/ blocks_to_read(inode, pos, size) \cap bad # {}
        THEN [ret |-> -1, data |-> <<>>]
        ELSE [ret |-> bytes,
              data |-> [i \in 1..bytes |->
                           Byte(block_at(inode, pos + i - 1), (pos + i - 1) % BLOCK_SIZE)]]

-----------------------------------------------------------------------------
(* System calls.                                                           *)

FreeFds(p) == {fd \in Fds : files[p][fd] = NULL}
FreeObjects == FileObjects \ DOMAIN file

\* A new object, with the lowest free descriptor of process p.
Opens(p, path, inode, stale) ==
    LET f == Min(FreeObjects) IN
    /\ inode.mode # "DIR"
    /\ file' = Put(file, f, [path |-> path, inode |-> inode, f_pos |-> 0, f_refs |-> 1,
                             stale |-> stale])
    /\ files' = [files EXCEPT ![p][Min(FreeFds(p))] = f]
    /\ out' = Put(out, f, <<>>)

\* sys_open, vfs_open and ax_open for reading; the object is given back when the
\* path is not found or is a directory.
sys_open(p) ==
    /\ Booted /\ p \in live
    /\ FreeFds(p) # {} /\ FreeObjects # {}
    /\ \E path \in OpenPaths, bad \in Failures :
        LET ino == namex(path, bad) IN
        /\ looked_at(path, bad) \cap bad = {} /\ ino # 0
        /\ Opens(p, path, inode_get(ino), FALSE)
    /\ UNCHANGED <<mkfsVars, live, panic>>

\* The same with a super block, descriptor or inode that cannot be read: axfs goes
\* on with what is in the buffer.  That may take it to any inode or to no inode at
\* all, or divide by 0 inodes per group, or ask for a sector the drive does not have.
sys_open_stale(p) ==
    /\ Booted /\ p \in live
    /\ FreeFds(p) # {} /\ FreeObjects # {}
    /\ \E path \in OpenPaths, bad \in Failures :
        /\ looked_at(path, bad) \cap bad # {}
        /\ \/ \E inode \in StaleInodes \cup {inodes[ino] : ino \in DOMAIN inodes} :
                Opens(p, path, inode, TRUE) /\ UNCHANGED panic
           \/ panic' = TRUE /\ UNCHANGED <<files, file, out>>
    /\ UNCHANGED <<mkfsVars, live>>

\* vfs_open finds no mount for a path that is not absolute.
vfs_open_panic(p) ==
    /\ Booted /\ p \in live
    /\ FreeFds(p) # {} /\ FreeObjects # {}
    /\ panic' = TRUE
    /\ UNCHANGED <<mkfsVars, live, files, file, out>>

\* sys_close: the last reference releases the object.
sys_close(p) ==
    /\ Booted /\ p \in live
    /\ \E fd \in Fds :
        LET f == files[p][fd] IN
        /\ f # NULL
        /\ files' = [files EXCEPT ![p][fd] = NULL]
        /\ IF file[f].f_refs = 1
           THEN /\ file' = [g \in DOMAIN file \ {f} |-> file[g]]
                /\ out' = [g \in DOMAIN out \ {f} |-> out[g]]
           ELSE /\ file' = [file EXCEPT ![f].f_refs = @ - 1]
                /\ UNCHANGED out
    /\ UNCHANGED <<mkfsVars, live, panic>>

\* The blocks a read of a file asks for and the drive does not have: they are in
\* stale inodes.  The drive is the image.
PastEnd(f, size) ==
    {b \in blocks_to_read(f.inode, f.f_pos, size) : b > s_blocks_count}

\* ax_read moving on by what was asked for (mutant).
ax_read_by_size(p) ==
    /\ Booted /\ p \in live
    /\ \E fd \in Fds, size \in ReadSizes, bad \in Failures :
        LET f == files[p][fd]
            r == read_file(file[f].inode, file[f].f_pos, size, bad)
        IN  /\ f # NULL
            /\ PastEnd(file[f], size) = {}
            /\ file' = [file EXCEPT ![f].f_pos = @ + size]
            /\ out' = [out EXCEPT ![f] = @ \o r.data]
    /\ UNCHANGED <<mkfsVars, live, files, panic>>

\* sys_read, vfs_read and ax_read: the position moves on by what was read.
sys_read(p) ==
    /\ Booted /\ p \in live
    /\ \E fd \in Fds, size \in ReadSizes, bad \in Failures :
        LET f == files[p][fd]
            r == read_file(file[f].inode, file[f].f_pos, size, bad)
        IN  /\ f # NULL
            /\ PastEnd(file[f], size) = {}
            /\ file' = [file EXCEPT ![f].f_pos = IF r.ret > 0 THEN @ + r.ret ELSE @]
            /\ out' = [out EXCEPT ![f] = @ \o r.data]
    /\ UNCHANGED <<mkfsVars, live, files, panic>>

\* check_drive finds that a block is not on the drive.
sys_read_panic(p) ==
    /\ Booted /\ p \in live
    /\ \E fd \in Fds, size \in ReadSizes :
        LET f == files[p][fd] IN f # NULL /\ PastEnd(file[f], size) # {}
    /\ panic' = TRUE
    /\ UNCHANGED <<mkfsVars, live, files, file, out>>

\* fork: proc_alloc clears the new process and nothing copies the file table.
proc_clone(p) ==
    /\ Booted /\ p \in live
    /\ \E c \in Procs \ live :
        /\ live' = live \cup {c}
        /\ files' = [files EXCEPT ![c] = [fd \in Fds |-> NULL]]
    /\ UNCHANGED <<mkfsVars, file, out, panic>>

\* exit, until proc_free: the objects of the files left open are not released.
proc_exit(p) ==
    /\ Booted /\ p \in live
    /\ live' = live \ {p}
    /\ files' = [files EXCEPT ![p] = [fd \in Fds |-> NULL]]
    /\ UNCHANGED <<mkfsVars, file, out, panic>>

\* mkfs has exited, or the kernel has panicked or has nobody left to run.
Stopped ==
    /\ panic \/ live = {} \/ pc \in {"exit_mkfs", "exit_inode", "exit_dir", "exit_data"}
    /\ UNCHANGED vars

Next ==
    \/ MkfsNext /\ UNCHANGED fsVars
    \/ \E p \in Procs : \/ sys_open(p) \/ sys_open_stale(p) \/ vfs_open_panic(p)
                        \/ sys_close(p) \/ sys_read(p) \/ sys_read_panic(p)
                        \/ proc_clone(p) \/ proc_exit(p)
    \/ Stopped

Spec == Init /\ [][Next]_vars

-----------------------------------------------------------------------------
(* Properties.                                                             *)

\* Values of their kinds: counters do not wrap below 0, blocks lie in the image,
\* descriptors name objects in use.
TypeOK ==
    /\ s_blocks_count \in Nat /\ s_free_blocks_count \in Nat /\ s_free_inodes_count \in Nat
    /\ \A g \in DOMAIN bg : bg[g] \in [free_blocks : 0..BLOCKS_PER_GROUP,
                                       free_inodes : 0..InodesPerGroup]
    /\ \A g \in DOMAIN bg : /\ block_bitmap[g] \subseteq 0..BLOCKS_PER_GROUP - 1
                            /\ inode_bitmap[g] \subseteq 0..InodesPerGroup - 1
    /\ DOMAIN disk \subseteq 1..s_blocks_count
    /\ \A p \in Procs, fd \in Fds : files[p][fd] \in DOMAIN file \cup {NULL}
    /\ \A f \in DOMAIN file : f \in FileObjects /\ file[f].stale \in BOOLEAN
    /\ live \subseteq Procs

\* A file that mkfs says it copied is found by axfs under its path, with its size
\* and its data block by block, whatever was copied before and after, failed
\* copies included.  The exception is the one the code names ("TODO: Find in
\* indirect blocks", axfs.c:177): a directory with more than the direct blocks.
CopiedIsFound ==
    pc = "done" => \A c \in copied :
        LET ino == namex(c.path, {}) IN
        \/ /\ ino # 0 /\ inodes[ino].mode = "REG" /\ inodes[ino].size = c.size
           /\ \A k \in 0..Ceil(c.size, BLOCK_SIZE) - 1 :
                disk[inodes[ino].tree[Path(k)]] = Data(c.src, k)
        \/ ino = 0 /\ \E d \in DOMAIN inodes :
                inodes[d].mode = "DIR" /\ <<DIRECT_BLOCK_COUNT>> \in DOMAIN inodes[d].tree

\* A descriptor names a file object in use.  If its open could read the metadata,
\* the object is of the file that its path leads to, and the bytes read from it are
\* the beginning of that file, up to the position, whatever the sizes asked for,
\* the reads that failed in between and what other opens have made of theirs; and a
\* directory block that cannot be read never leads to another file.
StreamIsFile ==
    /\ \A p \in Procs, fd \in Fds : files[p][fd] \in DOMAIN file \cup {NULL}
    /\ \A f \in DOMAIN file : ~file[f].stale =>
        LET ino == namex(file[f].path, {}) IN
        /\ ino # 0 /\ file[f].inode = inode_get(ino)
        /\ \/ out[f] = <<>> /\ file[f].f_pos = 0
           \/ \E c \in copied : /\ namex(c.path, {}) = ino
                               /\ file[f].f_pos <= c.size
                               /\ out[f] = [i \in 1..file[f].f_pos |-> <<c.src, i - 1>>]
=============================================================================
