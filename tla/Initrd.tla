------------------------------- MODULE Initrd -------------------------------
(***************************************************************************)
(* The initial ramdisk, from the files that utils/mkinit.c packs to the    *)
(* answers of the virtual file system (sys/initrd.c, sys/fs.c).            *)
(*                                                                         *)
(* A name is a sequence of characters, a file's data a sequence of bytes   *)
(* that say where they come from.  Nodes are numbered as root_nodes, the   *)
(* directories are -1 and -2.  The answer to a call is kept in answer.     *)
(***************************************************************************)
EXTENDS Integers, Sequences, Strings

CONSTANTS
    Char,       \* characters of names
    MaxName,    \* longest name, in characters
    HeaderName, \* size of a header's name (64)
    NameLen,    \* size of a node's name (128)
    MaxFiles,   \* bound: files in the ramdisk
    Lengths,    \* lengths of files
    Garbage,    \* what may fill memory that kmalloc hands out
    Sizes,      \* bound: offsets and sizes asked of read_fs
    Spare,      \* arguments of mkinit behind the last pair (the Makefile passes one)
    SCHAR,      \* values of a char, the type of mkinit's argc (256)
    HeaderSize, \* bytes of the image before the data
    Location,   \* where the bootloader puts the image
    U32         \* values of a u32int (2^32)

Name == UNION {[1..l -> Char] : l \in 1..MaxName}

DEV    == CHOOSE n \in [1..2 -> Char] : n[1] # n[2]         \* "dev"
INITRD == CHOOSE n \in [1..2 -> Char] : n # DEV            \* "initrd"

ASSUME InitrdAssumption ==
    /\ Char \subseteq Nat \ {0} /\ \E a, b \in Char : a # b
    /\ {MaxFiles, HeaderSize, Location, NameLen, SCHAR, U32} \cup Lengths \subseteq Nat
    /\ HeaderName \in 0..NameLen /\ MaxName \in 2..(HeaderName - 1)
    /\ Spare \in 0..1 /\ 2 * MaxFiles + Spare + 1 < SCHAR \div 2
    /\ MaxFiles < U32 /\ Lengths \cup Sizes \subseteq 0..(U32 - 1)
    /\ Garbage \subseteq Char \cup {0}

initrd_root == -1
initrd_dev  == -2

VARIABLES
    files,          \* what mkinit is given: names and data
    garbage,        \* what fills the memory that kmalloc hands out; 0 if it is clean
    file_headers,   \* with absolute offsets, once initialise_initrd has run
    nodes,          \* the two directories and root_nodes
    dirent,         \* the one static struct dirent
    answer

vars == <<files, garbage, file_headers, nodes, dirent, answer>>

(* A string as a terminated buffer, and what a buffer says.                *)
Str(name) == [k \in 0..NameLen |-> IF k < Len(name) THEN name[k + 1] ELSE 0]
Text(s)   == [k \in 1..strlen(s) |-> s[k - 1]]

nfiles == Len(files)

-----------------------------------------------------------------------------
(* char                                                                    *)
SChar(n) == IF n % SCHAR < SCHAR \div 2 THEN n % SCHAR ELSE (n % SCHAR) - SCHAR

(* The offset that mkinit has counted up to when it comes to file i, and    *)
(* the data it has written once file i is.                                 *)
off[i \in 1..(nfiles + 1)] ==
    IF i = 1 THEN HeaderSize ELSE off[i - 1] + Len(files[i - 1].data)

written[i \in 0..nfiles] ==
    IF i = 0 THEN <<>> ELSE written[i - 1] \o files[i].data

(* mkinit, given a path and a name for each file: the headers, with the    *)
(* offsets in the image, and the data one after the other.  A name and its *)
(* terminator fit the header (MaxName); a longer one would run into the    *)
(* offset.  A path that cannot be opened ends mkinit before it has written *)
(* anything: there is no image to boot with, which is a case of Kernel's   *)
(* CheckModules.                                                           *)
mkinit ==
    LET argc     == SChar(2 * nfiles + Spare + 1)
        nheaders == (argc - 1) \div 2
    IN  [headers |-> [i \in 1..nheaders |->
                        [name   |-> Str(files[i].name),
                         offset |-> off[i],
                         length |-> Len(files[i].data)]],
         data    |-> written[nheaders]]

(* The image in memory, at the addresses of its data.                      *)
memory ==
    [a \in (Location + HeaderSize)..(Location + HeaderSize + Len(mkinit.data) - 1) |->
        mkinit.data[a - Location - HeaderSize + 1]]

Init ==
    /\ \E n \in 0..MaxFiles :
          \E names \in [1..n -> Name], len \in [1..n -> Lengths] :
              files = [i \in 1..n |->
                          [name |-> names[i], data |-> [b \in 1..len[i] |-> <<i, b>>]]]
    /\ garbage \in Garbage
    /\ file_headers = <<>>
    /\ nodes = <<>>
    /\ dirent = [name |-> Str(<<>>), ino |-> 0]
    /\ answer = [call |-> "none"]

(* A node's name comes from strcpy into memory of kmalloc; after the name  *)
(* array comes the mask, which is 0.                                       *)
NodeName(name) == strcpy([k \in 0..NameLen |-> IF k < NameLen THEN garbage ELSE 0], name)

Directory(name) ==
    [name |-> NodeName(Str(name)), flags |-> "directory", inode |-> 0,
     read |-> FALSE, write |-> FALSE, readdir |-> TRUE, finddir |-> TRUE]

File(n) ==
    [name |-> NodeName(mkinit.headers[n + 1].name), flags |-> "file", inode |-> n,
     read |-> TRUE, write |-> FALSE, readdir |-> FALSE, finddir |-> FALSE]

initialise_initrd ==
    /\ nodes = <<>>
    /\ file_headers' = [i \in DOMAIN mkinit.headers |->
                           [mkinit.headers[i] EXCEPT !.offset = @ + Location]]
    /\ nodes' = [n \in {initrd_root, initrd_dev} \cup 0..(Len(mkinit.headers) - 1) |->
                    CASE n = initrd_root -> Directory(INITRD)
                      [] n = initrd_dev  -> Directory(DEV)
                      [] OTHER           -> File(n)]
    /\ UNCHANGED <<files, garbage, dirent, answer>>

-----------------------------------------------------------------------------
(* The VFS calls the node's function, if it has one.  The answers of a     *)
(* call that returns a pointer are the empty set (0) or the one object.    *)

(* A byte of no file.                                                      *)
Outside == <<0, 0>>

(* Mutant: the rest of the file is thought to be all of it.                *)
initrd_read_Whole(node, offset, size) ==
    LET header == file_headers[node.inode + 1]
        n      == IF (offset + size) % U32 > header.length THEN header.length ELSE size
    IN  IF offset > header.length THEN <<>>
        ELSE IF \E k \in 0..(n - 1) : header.offset + offset + k \notin DOMAIN memory
        THEN <<Outside>>
        ELSE memcpy(memory, header.offset + offset, n)

(* initrd_read.  The sum is a u32int.  A read outside the data returns     *)
(* whatever is there.                                                      *)
initrd_read(node, offset, size) ==
    LET header == file_headers[node.inode + 1]
        n      == IF (offset + size) % U32 > header.length
                  THEN header.length - offset ELSE size
    IN  IF offset > header.length THEN <<>>
        ELSE IF \E k \in 0..(n - 1) : header.offset + offset + k \notin DOMAIN memory
        THEN <<Outside>>
        ELSE memcpy(memory, header.offset + offset, n)

read_fs(n, offset, size) ==
    /\ answer' = [call |-> "read", node |-> n, offset |-> offset, size |-> size,
                  bytes |-> IF nodes[n].read THEN initrd_read(nodes[n], offset, size)
                            ELSE <<>>]
    /\ UNCHANGED <<files, garbage, file_headers, nodes, dirent>>

(* write_fs, open_fs and close_fs: no node of the ramdisk has these.       *)
write_fs(n) ==
    /\ ~nodes[n].write
    /\ answer' = [call |-> "write", node |-> n, written |-> 0]
    /\ UNCHANGED <<files, garbage, file_headers, nodes, dirent>>

nroot_nodes == Len(file_headers)

(* Mutant: the terminator is left to strcpy.                               *)
initrd_readdir_Unterminated(n, index) ==
    IF n = initrd_root /\ index = 0
    THEN dirent' = [name |-> strcpy(dirent.name, Str(DEV)), ino |-> 0]
    ELSE IF (index - 1) % U32 >= nroot_nodes
    THEN UNCHANGED dirent
    ELSE dirent' = [name |-> strcpy(dirent.name, nodes[index - 1].name),
                    ino |-> nodes[index - 1].inode]

(* initrd_readdir: what it leaves in dirent.  The subtraction and the      *)
(* comparison are unsigned.                                                *)
initrd_readdir(n, index) ==
    IF n = initrd_root /\ index = 0
    THEN dirent' = [name |-> [strcpy(dirent.name, Str(DEV)) EXCEPT ![Len(DEV)] = 0],
                    ino  |-> 0]
    ELSE IF (index - 1) % U32 >= nroot_nodes
    THEN UNCHANGED dirent
    ELSE LET node == nodes[index - 1]
         IN  dirent' = [name |-> [strcpy(dirent.name, node.name)
                                    EXCEPT ![strlen(node.name)] = 0],
                        ino  |-> node.inode]

(* Does initrd_readdir return &dirent?                                     *)
HasEntry(n, index) == (n = initrd_root /\ index = 0) \/ (index - 1) % U32 < nroot_nodes

readdir_fs(n, index) ==
    /\ IF nodes[n].flags = "directory" /\ nodes[n].readdir
       THEN /\ initrd_readdir(n, index)
            /\ answer' = [call |-> "readdir", node |-> n, index |-> index,
                          entry |-> IF HasEntry(n, index) THEN {dirent'} ELSE {}]
       ELSE /\ answer' = [call |-> "readdir", node |-> n, index |-> index, entry |-> {}]
            /\ UNCHANGED dirent
    /\ UNCHANGED <<files, garbage, file_headers, nodes>>

initrd_finddir(n, name) ==
    IF n = initrd_root /\ strcmp(name, Str(DEV)) = 0
    THEN {initrd_dev}
    ELSE LET equal == {m \in 0..(nroot_nodes - 1) : strcmp(name, nodes[m].name) = 0}
         IN  IF equal = {} THEN {} ELSE {Min(equal)}

finddir_fs(n, name) ==
    /\ answer' = [call |-> "finddir", node |-> n, name |-> name,
                  found |-> IF nodes[n].flags = "directory" /\ nodes[n].finddir
                            THEN initrd_finddir(n, Str(name)) ELSE {}]
    /\ UNCHANGED <<files, garbage, file_headers, nodes, dirent>>

Next ==
    \/ initialise_initrd
    \/ \E n \in DOMAIN nodes :
          \/ \E offset, size \in Sizes : read_fs(n, offset, size)
          \/ write_fs(n)
          \/ \E index \in 0..(nroot_nodes + 1) : readdir_fs(n, index)
          \/ \E name \in Name : finddir_fs(n, name)

Spec == Init /\ [][Next]_vars
-----------------------------------------------------------------------------
isFile(n) == n >= 0
FirstFile(name) == {m \in 0..(nfiles - 1) : /\ files[m + 1].name = name
                                            /\ \A l \in 1..m : files[l].name # name}

(* What read_fs copies is that part of the file that mkinit was given, cut *)
(* at its end: through mkinit's offsets, the relocation and the clipping.  *)
(* Only an offset + size that wraps escapes the check against the length.  *)
ReadIsSlice ==
    answer.call = "read" /\ answer.offset + answer.size < U32 =>
        answer.bytes =
            IF isFile(answer.node)
            THEN LET data == files[answer.node + 1].data
                 IN  SubSeq(data, answer.offset + 1,
                            Min({answer.offset + answer.size, Len(data)}))
            ELSE <<>>

(* finddir_fs on the root finds the first file of that name, /dev for      *)
(* "dev", and nothing if there is none; on a file it finds nothing.  The   *)
(* nodes' names have no terminator of their own, so this needs clean       *)
(* memory.                                                                 *)
FindsFile ==
    answer.call = "finddir" /\ answer.node # initrd_dev /\ garbage = 0 =>
        answer.found =
            IF isFile(answer.node) THEN {}
            ELSE IF answer.name = DEV THEN {initrd_dev}
            ELSE FirstFile(answer.name)

(* If kmalloc returned clean memory for the nodes (garbage = 0; their      *)
(* names have no terminator of their own): a walk along the root's entries *)
(* meets /dev, then every file in order, each with its own name whatever   *)
(* longer name dirent held before, and ends; a walk along /dev ends at     *)
(* once although index - 1 wraps.                                          *)
ListsDirectory ==
    answer.call = "readdir" /\ garbage = 0 =>
        /\ answer.node = initrd_root =>
              {[name |-> Text(e.name), ino |-> e.ino] : e \in answer.entry} =
              IF answer.index = 0 THEN {[name |-> DEV, ino |-> 0]}
              ELSE IF answer.index > nfiles THEN {}
              ELSE {[name |-> files[answer.index].name, ino |-> answer.index - 1]}
        /\ answer.node = initrd_dev /\ answer.index = 0 => answer.entry = {}
        /\ isFile(answer.node) => answer.entry = {}
=============================================================================
