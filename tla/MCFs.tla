-------------------------------- MODULE MCFs --------------------------------
(* Instances of Fs for TLC: blocks of 24 bytes and 2 pointers, 2 of them    *)
(* direct, 16 blocks and 4 inodes per group.                                *)
EXTENDS Fs, TLC

CONSTANTS p1, p2

MCNameLen == "." :> 1 @@ ".." :> 2 @@ "a" :> 1 @@ "b" :> 1 @@ "mid" :> 3 @@ "long" :> 11

Copy(src, size, path) == [src |-> src, size |-> size, path |-> path]

\* Files that end inside of, at and after the direct blocks; names that fill a
\* directory block, leave too little for padding, or leave room; a path through a
\* directory, one through a file (if "a" was copied before), one that is none.
MCCopies == {Copy("A", 37, <<"a">>), Copy("B", 50, <<"b">>), Copy("M", 24, <<"mid">>),
             Copy("L", 120, <<"long">>), Copy("A", 37, <<"a", "b">>), Copy("X", 1, <<>>)}

MCPaths == {<<"a">>, <<"b">>, <<"a", "b">>}

\* One of the blocks axfs reads may fail: the super block, the descriptors, the
\* inode table of the first group, where all inodes are, and the blocks after it.
MCFailures == {{}} \cup {{b} : b \in {1, 2} \cup 5..16}

\* An inode that is no file's: its first block is some block of the image, its second
\* is not on the drive.
MCStale == {[mode |-> "NONE", size |-> 37, tree |-> <<0>> :> 3 @@ <<1>> :> 99]}

\* A file to be put into a directory.
DirCopies == {Copy("A", 10, <<"a", "b">>)}

\* Copies for programs to read: the second file is longer than the direct blocks.
ReadCopies == {Copy("A", 37, <<"a">>), Copy("B", 50, <<"b">>)}

\* Programs run on images of 14 blocks with up to two files, all of ReadCopies;
\* every image is made and checked, from every way of filling it.
ReadImages ==
    pc = "done" => /\ s_blocks_count = 14 - 1 /\ copied \subseteq ReadCopies
                   /\ Cardinality(copied) = count
=============================================================================
