-------------------------------- MODULE Mkfs --------------------------------
(***************************************************************************)
(* tools/mkfs.c: making an axfs image and copying files into it.           *)
(*                                                                         *)
(* The pointers that lead from an inode to its blocks, in i_block and in   *)
(* the indirect blocks, are one map `tree': the node <<i>> is i_block[i],  *)
(* <<i, j>> is entry j of the indirect block that <<i>> names, and so on;  *)
(* a pointer that is 0 is not in the map.  A step is one block taken from  *)
(* the bitmap, with what the code does before it takes another one.        *)
(***************************************************************************)
EXTENDS Integers, Sequences, FiniteSetsExt

CONSTANTS
    BLOCK_SIZE,             \* 1024 in the code
    POINTER_SIZE,           \* sizeof(uint32_t)
    ENTRY_SIZE,             \* sizeof(struct ax_directory_entry)
    INODE_SIZE,             \* sizeof(struct ax_inode)
    DESC_SIZE,              \* sizeof(struct ax_block_group_descriptor)
    DIRECT_BLOCK_COUNT,     \* 21 in the code
    BLOCKS_PER_GROUP,       \* the bits of a block, 8 * BLOCK_SIZE in the code
    InodesPerGroup,         \* option -i
    ImageSizes,             \* option -s, in blocks
    NameLen,                \* the names of files and their lengths
    Copies,                 \* option -c: records [src, size, path]; a path is the name
                            \* before the first / after the root, and the rest
    MaxCopies               \* bound on the files copied into an image

ROOT_INO == 1
SUPER_BLOCK_NO == 1
POINTERS == BLOCK_SIZE \div POINTER_SIZE
MaxBlocks ==
    DIRECT_BLOCK_COUNT + POINTERS + POINTERS * POINTERS + POINTERS * POINTERS * POINTERS

ASSUME SizesAssumption == {BLOCK_SIZE, ENTRY_SIZE, INODE_SIZE, DESC_SIZE} \subseteq Nat \ {0}
ASSUME PointerAssumption == POINTER_SIZE \in Nat \ {0} /\ BLOCK_SIZE % POINTER_SIZE = 0
\* An inode has pointers for more blocks than a group has.
ASSUME GroupAssumption ==
    /\ BLOCKS_PER_GROUP \in Nat \ {0} /\ BLOCKS_PER_GROUP <= MaxBlocks
    /\ DIRECT_BLOCK_COUNT \in Nat \ {0}
\* main refuses a size or a number of inodes of 0.
ASSUME OptionsAssumption == InodesPerGroup \in Nat \ {0} /\ ImageSizes \subseteq Nat \ {0}
\* Every name fits into an empty directory block, and its length into name_len, a
\* uint8_t; none is empty.
ASSUME NamesAssumption ==
    /\ {".", ".."} \subseteq DOMAIN NameLen /\ "" \notin DOMAIN NameLen
    /\ \A n \in DOMAIN NameLen :
         /\ NameLen[n] \in Nat /\ NameLen[n] <= 255
         /\ ENTRY_SIZE + NameLen[n] + 4 <= BLOCK_SIZE
ASSUME CopiesAssumption ==
    \A c \in Copies : c.size \in Nat /\ c.path \in Seq(DOMAIN NameLen)

\* a / b + (a % b ? 1 : 0)
Ceil(a, b) == a \div b + (IF a % b # 0 THEN 1 ELSE 0)

\* The map f with v at x.
Put(f, x, v) == [y \in DOMAIN f \cup {x} |-> IF y = x THEN v ELSE f[y]]

\* f[0] + ... + f[n - 1]
SumTo(f, n) == LET sum[i \in 0..n] == IF i = 0 THEN 0 ELSE sum[i - 1] + f[i - 1] IN sum[n]

VARIABLES
    s_blocks_count,     \* the super block
    s_free_blocks_count, s_free_inodes_count,
    bg,                 \* the group descriptors' [free_blocks, free_inodes]
    block_bitmap,       \* of each group, the bits that are set
    inode_bitmap,
    inodes,             \* the inodes written: [mode, size, tree]
    disk,               \* the blocks written
    pc,                 \* where mkfs is
    job,                \* the copy under way: [src, size, path, name, ino, k, tree]
    copied,             \* the copies for which write_file returned true
    count               \* how many copies were tried

super == <<s_blocks_count, s_free_blocks_count, s_free_inodes_count>>
maps == <<bg, block_bitmap, inode_bitmap>>
mkfsVars == <<super, maps, inodes, disk, pc, job, copied, count>>

NoJob == [src |-> "", size |-> 0, path |-> <<>>, name |-> 0, ino |-> 0, k |-> 0, tree |-> <<>>]

MkfsInit ==
    /\ s_blocks_count = 0 /\ s_free_blocks_count = 0 /\ s_free_inodes_count = 0
    /\ bg = <<>> /\ block_bitmap = <<>> /\ inode_bitmap = <<>>
    /\ inodes = <<>> /\ disk = <<>>
    /\ pc = "start" /\ job = NoJob
    /\ copied = {} /\ count = 0

-----------------------------------------------------------------------------
(* Blocks and inodes.                                                      *)

\* The precedence of ?: makes this 1 for whatever is not 0 altogether: mkfs
\* looks for space in the first group only.
bg_num(n, per_group) == IF (n \div per_group) + (n % per_group) # 0 THEN 1 ELSE 0

\* The first zero bit, as a set; empty if the group's counter is 0.
alloc_block_from_block_group(g) ==
    LET bits == (0..BLOCKS_PER_GROUP - 1) \ block_bitmap[g]
    IN IF bg[g].free_blocks > 0 /\ bits # {}
       THEN {Min(bits) + g * BLOCKS_PER_GROUP + SUPER_BLOCK_NO} ELSE {}

\* The block alloc_block returns, as a set; empty if it exits.
alloc_block ==
    LET found(g) == {b \in alloc_block_from_block_group(g) :
                        b > 0 /\ b < s_blocks_count + SUPER_BLOCK_NO}
        groups == {g \in 0..bg_num(s_blocks_count, BLOCKS_PER_GROUP) - 1 : found(g) # {}}
    IN IF groups = {} THEN {} ELSE found(Min(groups))

alloc_inode_no_from_block_group(g) ==
    LET bits == (0..BLOCKS_PER_GROUP - 1) \ inode_bitmap[g]
    IN IF bg[g].free_inodes > 0 /\ bits # {}
       THEN {Min(bits) + g * InodesPerGroup + 1} ELSE {}

\* The inode number alloc_inode_no returns, as a set; empty if it exits.
alloc_inode_no ==
    LET n == Cardinality(DOMAIN bg) * InodesPerGroup
        groups == {g \in 0..bg_num(n, InodesPerGroup) - 1 :
                      alloc_inode_no_from_block_group(g) # {}}
    IN IF groups = {} THEN {} ELSE alloc_inode_no_from_block_group(Min(groups))

\* update_block_bitmap taking the block for one of the group before (mutant).
update_block_bitmap_off_by_one(b) ==
    LET g == (b - SUPER_BLOCK_NO) \div BLOCKS_PER_GROUP
        bit == b % BLOCKS_PER_GROUP
    IN  /\ block_bitmap' = [block_bitmap EXCEPT ![g] = @ \cup {bit}]
        /\ bg' = [bg EXCEPT ![g].free_blocks = @ - 1]
        /\ s_free_blocks_count' = s_free_blocks_count - 1

\* update_block_bitmap, and the super block's counter that goes with it.
update_block_bitmap(b) ==
    LET g == (b - SUPER_BLOCK_NO) \div BLOCKS_PER_GROUP
        bit == (b - SUPER_BLOCK_NO) % BLOCKS_PER_GROUP
    IN  /\ block_bitmap' = [block_bitmap EXCEPT ![g] = @ \cup {bit}]
        /\ bg' = [bg EXCEPT ![g].free_blocks = @ - 1]
        /\ s_free_blocks_count' = s_free_blocks_count - 1

\* write_inode: a new inode, and the super block's counter that goes with it.
write_inode(ino, inode) ==
    LET g == (ino - 1) \div InodesPerGroup
        bit == (ino - 1) % InodesPerGroup
    IN  /\ inodes' = Put(inodes, ino, inode)
        /\ inode_bitmap' = [inode_bitmap EXCEPT ![g] = @ \cup {bit}]
        /\ bg' = [bg EXCEPT ![g].free_inodes = @ - 1]
        /\ s_free_inodes_count' = s_free_inodes_count - 1

\* Where in the tree the k-th block of an inode is.
Path(k) ==
    LET P == POINTERS
        k1 == k - DIRECT_BLOCK_COUNT
        k2 == k1 - P
        k3 == k2 - P * P
    IN  IF k1 < 0 THEN <<k>>
        ELSE IF k2 < 0 THEN <<DIRECT_BLOCK_COUNT, k1>>
        ELSE IF k3 < 0 THEN <<DIRECT_BLOCK_COUNT + 1, k2 \div P, k2 % P>>
        ELSE <<DIRECT_BLOCK_COUNT + 2, k3 \div (P * P), (k3 \div P) % P, k3 % P>>

\* The nodes on the way to the k-th block that the tree does not have, as
\* lengths of prefixes of its path; they are allocated from the shortest on.
Missing(tree, k) == {i \in 1..Len(Path(k)) : SubSeq(Path(k), 1, i) \notin DOMAIN tree}

-----------------------------------------------------------------------------
(* Directories.                                                            *)

\* ALIGN_4 adds at least one byte.
rec_len(name) == ((ENTRY_SIZE + NameLen[name] + 4) \div 4) * 4

padding_entry(len) == [name |-> "", inode |-> 0, type |-> "UNKNOWN", rec_len |-> len]

\* What is in a block: directory entries, or block k of the file src.
Dir(entries) == [entries |-> entries, src |-> "", k |-> 0]
Data(src, k) == [entries |-> <<>>, src |-> src, k |-> k]

\* init_dir_block
EmptyDir == <<padding_entry(BLOCK_SIZE)>>

\* write_dir_entry_to_block: only the last entry of a block can be padding.
has_room(entries, name) ==
    LET pad == entries[Len(entries)]
    IN pad.type = "UNKNOWN" /\ pad.rec_len >= rec_len(name)

\* write_dir_entry_here: the entry takes the padding's place, with new padding
\* after it if a header fits.
write_dir_entry(entries, name, type, ino) ==
    LET max_len == entries[Len(entries)].rec_len
        need_padding == max_len >= rec_len(name) + ENTRY_SIZE
        entry == [name |-> name, inode |-> ino, type |-> type,
                  rec_len |-> IF need_padding THEN rec_len(name) ELSE max_len]
    IN SubSeq(entries, 1, Len(entries) - 1) \o <<entry>>
          \o (IF need_padding THEN <<padding_entry(max_len - rec_len(name))>> ELSE <<>>)

\* The blocks of a directory, in the order they are searched.
DirBlocks(tree) == {k \in 0..MaxBlocks - 1 : Path(k) \in DOMAIN tree}

\* get_entry_from_dir, as a set: direct blocks first, then the indirect ones.
get_entry_from_dir(ino, name) ==
    LET tree == inodes[ino].tree
        entries(k) == disk[tree[Path(k)]].entries
    IN UNION {{entries(k)[i] : i \in {j \in DOMAIN entries(k) :
                    entries(k)[j].type # "UNKNOWN" /\ entries(k)[j].name = name}}
              : k \in DirBlocks(tree)}

-----------------------------------------------------------------------------
(* Making the file system.                                                 *)

inodes_table_blocks == Ceil(InodesPerGroup * INODE_SIZE, BLOCK_SIZE)

\* The blocks of a group that hold its metadata; the first group has the super
\* block and the descriptors too.
used_blocks(g, block_groups) ==
    (IF g = 0 THEN 1 + Ceil(block_groups * DESC_SIZE, BLOCK_SIZE) ELSE 0)
        + 1 + 1 + inodes_table_blocks

blocks_of(g, block_num) ==
    IF block_num - g * BLOCKS_PER_GROUP > BLOCKS_PER_GROUP
    THEN BLOCKS_PER_GROUP ELSE block_num - g * BLOCKS_PER_GROUP

\* The inode table is the last of a group's metadata.
bg_inode_table(g) ==
    g * BLOCKS_PER_GROUP + SUPER_BLOCK_NO
        + used_blocks(g, Cardinality(DOMAIN bg)) - inodes_table_blocks

\* Where in the image, in bytes, mkfs has the descriptor of a group.
seek_desc(g) == g * DESC_SIZE + (SUPER_BLOCK_NO + 1) * BLOCK_SIZE

\* Where it has an inode.
seek_inode(ino) ==
    ((ino - 1) % InodesPerGroup) * INODE_SIZE
        + bg_inode_table((ino - 1) \div InodesPerGroup) * BLOCK_SIZE

\* make_first_block_group, make_block_group and write_root_dir, which takes the
\* first data block and inode 1; or an exit when a group has no data blocks.
mkfs ==
    /\ pc = "start"
    /\ \E size \in ImageSizes :
        LET block_num == size - 1
            n == Ceil(block_num, BLOCKS_PER_GROUP)
            used(g) == used_blocks(g, n)
            free(g) == blocks_of(g, block_num) - used(g)
            root == used(0) + SUPER_BLOCK_NO
            first(g) == IF g = 0 THEN 1 ELSE 0
        IN  IF n < 1 \/ \E g \in 0..n - 1 : free(g) <= 0
            THEN /\ pc' = "exit_mkfs"
                 /\ UNCHANGED <<super, maps, inodes, disk>>
            ELSE /\ pc' = "idle"
                 /\ s_blocks_count' = block_num
                 /\ s_free_blocks_count' = SumTo([g \in 0..n - 1 |-> free(g)], n) - 1
                 /\ s_free_inodes_count' = n * InodesPerGroup - 1
                 /\ bg' = [g \in 0..n - 1 |-> [free_blocks |-> free(g) - first(g),
                                               free_inodes |-> InodesPerGroup - first(g)]]
                 /\ block_bitmap' = [g \in 0..n - 1 |-> 0..used(g) - 1 + first(g)]
                 /\ inode_bitmap' = [g \in 0..n - 1 |-> 0..first(g) - 1]
                 /\ inodes' = [ino \in {ROOT_INO} |->
                        [mode |-> "DIR", size |-> BLOCK_SIZE, tree |-> [k \in {<<0>>} |-> root]]]
                 /\ disk' = [b \in {root} |-> Dir(write_dir_entry(
                        write_dir_entry(EmptyDir, ".", "DIR", ROOT_INO),
                        "..", "DIR", ROOT_INO))]
    /\ UNCHANGED <<job, copied, count>>

-----------------------------------------------------------------------------
(* Copying a file into it.                                                 *)

Exit(where) ==
    /\ pc' = where
    /\ UNCHANGED <<super, maps, inodes, disk, job, copied, count>>

Fail ==
    /\ pc' = "idle" /\ job' = NoJob
    /\ UNCHANGED <<super, maps, inodes, disk, copied, count>>

\* cpfs takes the next argument; copy_file refuses a path that is not one of a
\* file, here the empty one.
copy_file ==
    /\ pc = "idle" /\ count < MaxCopies
    /\ count' = count + 1
    /\ \E c \in Copies :
        IF c.path = <<>> THEN UNCHANGED <<pc, job>>
        ELSE /\ pc' = "path"
             /\ job' = [NoJob EXCEPT !.src = c.src, !.size = c.size, !.path = c.path,
                                     !.name = 1, !.ino = ROOT_INO]
    /\ UNCHANGED <<super, maps, inodes, disk, copied>>

\* create_file_inode: `sep' stops at the first / and is never moved past the
\* zero that replaces it.  So all names of a path with a / are names of
\* directories, and the rest of the path is taken again and again.
is_dir_name == Len(job.path) > 1
next_name == IF is_dir_name THEN 2 ELSE 0

\* One name that is there: the file itself must not exist, and what comes before
\* it must be a directory.
path_found ==
    /\ pc = "path" /\ job.name # 0
    /\ \E e \in get_entry_from_dir(job.ino, job.path[job.name]) :
        IF ~is_dir_name \/ e.type # "DIR" THEN Fail
        ELSE /\ job' = [job EXCEPT !.ino = e.inode, !.name = next_name]
             /\ UNCHANGED <<super, maps, inodes, disk, pc, copied, count>>

PathMissing ==
    /\ pc = "path" /\ job.name # 0
    /\ get_entry_from_dir(job.ino, job.path[job.name]) = {}

\* The block of the directory that takes the entry: the first that has room or
\* is not there yet.  (A directory with MaxBlocks full blocks is out of reach.)
target_block ==
    LET tree == inodes[job.ino].tree
    IN Min({k \in 0..MaxBlocks - 1 :
               Missing(tree, k) # {}
               \/ has_room(disk[tree[Path(k)]].entries, job.path[job.name])})

\* write_entry_to_dir: alloc_inode_no exits.
write_entry_no_inode ==
    /\ PathMissing
    /\ alloc_inode_no = {}
    /\ Exit("exit_inode")

\* write_entry_to_blocks and write_entry_to_indirect_blocks taking a block for
\* the directory or for its pointers; the inode or the indirect block above is
\* written at once.
write_entry_alloc ==
    LET k == target_block
        i == Min(Missing(inodes[job.ino].tree, k))
        node == SubSeq(Path(k), 1, i)
    IN  /\ PathMissing
        /\ alloc_inode_no # {}
        /\ Missing(inodes[job.ino].tree, k) # {}
        /\ \/ alloc_block = {} /\ Exit("exit_dir")
           \/ \E b \in alloc_block :
                /\ inodes' = [inodes EXCEPT ![job.ino].tree = Put(@, node, b)]
                /\ disk' = IF i = Len(Path(k)) THEN Put(disk, b, Dir(EmptyDir)) ELSE disk
                /\ update_block_bitmap(b)
                /\ UNCHANGED <<s_blocks_count, s_free_inodes_count, inode_bitmap, pc, job,
                               copied, count>>

\* write_entry_to_blocks writing the entry and the new, empty inode.
write_entry ==
    LET tree == inodes[job.ino].tree
        name == job.path[job.name]
        type == IF is_dir_name THEN "DIR" ELSE "REG"
        b == tree[Path(target_block)]
    IN  /\ PathMissing
        /\ Missing(tree, target_block) = {}
        /\ \E ino \in alloc_inode_no :
            /\ disk' = [disk EXCEPT ![b].entries = write_dir_entry(@, name, type, ino)]
            /\ write_inode(ino, [mode |-> type, size |-> 0, tree |-> <<>>])
            /\ job' = [job EXCEPT !.ino = ino, !.name = next_name]
        /\ UNCHANGED <<s_blocks_count, s_free_blocks_count, block_bitmap, pc, copied, count>>

data_blocks == Ceil(job.size, BLOCK_SIZE)

\* has_enough_space.  Its `indirect' is BLOCK_SIZE % sizeof(uint32_t), which is
\* 0: nothing is ever subtracted for the indirect blocks, the inner loops do not
\* run, and each of the three levels counts for one block.
has_enough_space ==
    LET rest == IF data_blocks >= DIRECT_BLOCK_COUNT
                THEN data_blocks - DIRECT_BLOCK_COUNT ELSE data_blocks
        meta_blocks == IF rest > 0 THEN 3 ELSE 0
    IN data_blocks + meta_blocks <= s_free_blocks_count

check_space ==
    /\ pc = "path" /\ job.name = 0
    /\ IF has_enough_space
       THEN /\ pc' = "data"
            /\ UNCHANGED <<super, maps, inodes, disk, job, copied, count>>
       ELSE Fail

\* write_data_into_blocks and alloc_indirect_block: one block, of pointers or of
\* data.  The pointers stay in memory until the file is written.
write_data ==
    LET i == Min(Missing(job.tree, job.k))
        node == SubSeq(Path(job.k), 1, i)
        last == i = Len(Path(job.k))
    IN  /\ pc = "data" /\ job.k < Min({data_blocks, MaxBlocks})
        /\ \/ alloc_block = {} /\ Exit("exit_data")
           \/ \E b \in alloc_block :
                /\ disk' = IF last THEN Put(disk, b, Data(job.src, job.k)) ELSE disk
                /\ job' = [job EXCEPT !.tree = Put(@, node, b),
                                      !.k = IF last THEN @ + 1 ELSE @]
                /\ update_block_bitmap(b)
                /\ UNCHANGED <<s_blocks_count, s_free_inodes_count, inode_bitmap, inodes,
                               pc, copied, count>>

\* The end of write_file: update_inode.
write_file ==
    /\ pc = "data" /\ job.k = Min({data_blocks, MaxBlocks})
    /\ inodes' = [inodes EXCEPT ![job.ino].size = job.size, ![job.ino].tree = job.tree]
    /\ copied' = copied \cup {[path |-> job.path, src |-> job.src, size |-> job.size]}
    /\ pc' = "idle" /\ job' = NoJob
    /\ UNCHANGED <<super, maps, disk, count>>

\* cpfs closes the image.
cpfs_end ==
    /\ pc = "idle"
    /\ pc' = "done"
    /\ UNCHANGED <<super, maps, inodes, disk, job, copied, count>>

MkfsNext ==
    \/ mkfs \/ copy_file \/ path_found
    \/ write_entry_no_inode \/ write_entry_alloc \/ write_entry
    \/ check_space \/ write_data \/ write_file \/ cpfs_end

-----------------------------------------------------------------------------
(* Properties.                                                             *)

Groups == DOMAIN bg

\* The block of bit i of group g.
BlockNo(g, i) == g * BLOCKS_PER_GROUP + i + SUPER_BLOCK_NO

IsMetadata(g, i) == i < used_blocks(g, Cardinality(Groups))

\* The pointers of all inodes: <<inode, node>>.
Pointers == UNION {{<<ino, node>> : node \in DOMAIN inodes[ino].tree} : ino \in DOMAIN inodes}
Target(p) == inodes[p[1]].tree[p[2]]

\* What a file system check would ask of the image whenever no file is being
\* written, also after copies that failed: no block has two pointers or is
\* outside of the image, the bitmaps are exactly the metadata, the blocks that
\* are pointed to and the inodes in use, and the counters of the groups and of
\* the super block agree with them.
Fsck ==
    pc \in {"idle", "done"} =>
        /\ \A p, q \in Pointers : p # q => Target(p) # Target(q)
        /\ \A g \in Groups :
            /\ \A i \in 0..BLOCKS_PER_GROUP - 1 : i \in block_bitmap[g] <=>
                    IsMetadata(g, i) \/ \E p \in Pointers : Target(p) = BlockNo(g, i)
            /\ \A i \in block_bitmap[g] : BlockNo(g, i) <= s_blocks_count
            /\ bg[g].free_blocks =
                    blocks_of(g, s_blocks_count) - Cardinality(block_bitmap[g])
            /\ {g * InodesPerGroup + i + 1 : i \in inode_bitmap[g]}
                  = {n \in DOMAIN inodes : (n - 1) \div InodesPerGroup = g}
            /\ bg[g].free_inodes = InodesPerGroup - Cardinality(inode_bitmap[g])
        /\ s_free_blocks_count = SumTo([g \in Groups |-> bg[g].free_blocks], Cardinality(Groups))
        /\ s_free_inodes_count = SumTo([g \in Groups |-> bg[g].free_inodes], Cardinality(Groups))

\* A copy makes at most one inode for each name of its path: "The destination path
\* can not be a directory, and it must start from root directory." (mkfs.c:1122)
\* is all that a path has to satisfy.
InodePerName ==
    Cardinality(DOMAIN inodes) <= 1 + count * Max({Len(c.path) : c \in Copies})
=============================================================================
