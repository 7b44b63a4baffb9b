------------------------------ MODULE Ramdisk ------------------------------
(***************************************************************************)
(* The initial ramdisk from the host to a loaded program: the image that   *)
(* tools/make_initrd.c writes, init_initrd() that makes a file system of   *)
(* it (kernel/fs/initrd.c), the operations of kernel/fs/fs.c on its nodes, *)
(* the listing of debug_print_root_content(), and load_elf_binary()        *)
(* (kernel/kernel/elf.c) for exec_elf().                                   *)
(*                                                                         *)
(* Mounting and listing happen before the first sti, loading after a cli;  *)
(* the lookup of exec_elf() in between only reads.  Memory is counted in   *)
(* cells: a byte of a file, an ELF header, a program header, a header of   *)
(* the image and the number of files each take one.  A name is a sequence  *)
(* of characters, because strcpy() of this kernel does not copy the end.   *)
(* Programs in the image are well formed; open() and close() find no       *)
(* callback in the nodes of a ramdisk and do nothing.                      *)
(***************************************************************************)
EXTENDS Integers, Sequences, SequencesExt

CONSTANTS
  Word,        \* values of an uint32_t (2^32)
  MaxFiles,    \* headers an image has room for (64)
  HeaderLen,   \* characters a name has room for in the image (64),
  NameLen,     \* and in a node or a dirent_t (128)
  location,    \* where the boot loader has put the image
  PageSize,
  Letter,      \* characters of names, of which the zero at the end is none
  Images,      \* the file lists make_initrd may be called with
  Sizes        \* offsets and sizes of single reads

dev == <<"d", "e", "v">>

\* What a cell of a file may be, and a file of the host.
Cell ==
  [kind : {"byte"}, v : Nat]
    \cup [kind : {"ehdr"}, phoff : Nat, phnum : Nat]
    \cup [kind : {"phdr"}, type : STRING, offset : Nat, vaddr : Nat, filesz : Nat, memsz : Nat]

HostFile == [name : Seq(Letter), data : Seq(Cell)]

\* The addresses that a segment takes from the file.
Segment(p_hdr) == p_hdr.vaddr .. p_hdr.vaddr + p_hdr.filesz - 1

\* Data that starts with an ELF header is a program as a linker writes it: its
\* program headers are in the file, and so is what is loaded, which is no more
\* than the memory asked for and lies apart from the other segments.
WellFormed(data) ==
  (data # << >> /\ data[1].kind = "ehdr") =>
    LET p_hdr(k) == data[data[1].phoff + k + 1]
        loaded   == {k \in 0 .. data[1].phnum - 1 : p_hdr(k).type = "LOAD"}
    IN  /\ \A k \in 0 .. data[1].phnum - 1 : /\ data[1].phoff + k + 1 \in DOMAIN data
                                             /\ p_hdr(k).kind = "phdr"
        /\ \A k \in loaded : /\ p_hdr(k).filesz <= p_hdr(k).memsz
                             /\ p_hdr(k).offset + p_hdr(k).filesz <= Len(data)
        /\ \A k, m \in loaded : k # m => Segment(p_hdr(k)) \cap Segment(p_hdr(m)) = {}

\* The sums that an uint32_t must hold are those of reads that end in a word,
\* of the sizes of files and of the indices of directories.  make_initrd checks
\* neither the number of files nor the length of a name: both fit the image.
ASSUME RamdiskAssumption ==
  /\ {Word, MaxFiles, HeaderLen, NameLen, PageSize} \subseteq Nat \ {0}
  /\ MaxFiles < Word /\ HeaderLen <= NameLen /\ Len(dev) < NameLen
  /\ {"d", "e", "v"} \subseteq Letter /\ "nul" \notin Letter
  /\ location \in Nat
  /\ Sizes \subseteq Nat /\ \A off, size \in Sizes : off + size < Word
  /\ \A fs \in Images :
       /\ fs \in Seq(HostFile) /\ Len(fs) <= MaxFiles
       /\ \A j \in DOMAIN fs : /\ Len(fs[j].name) \in 1 .. HeaderLen - 1
                               /\ Len(fs[j].data) < Word
                               /\ WellFormed(fs[j].data)

VARIABLES
  files,       \* what the host had: names and data
  image,       \* the cells of the module in memory
  root_nodes,  \* nodes made so far
  dirent,      \* the one entry all callers of readdir() share
  pc,          \* what kmain() is at
  index,       \* the local of a loop: files to mount, to list, or segments
  shown,       \* what debug_print_root_content() has printed
  last,        \* the last single read, before a program was started
  file,        \* the node exec_elf() has found; 0 is the directory dev
  umem,        \* the address space that exec_elf() fills
  fault        \* why the processor no longer does what the source says

vars == <<files, image, root_nodes, dirent, pc, index, shown, last, file, umem, fault>>

-----------------------------------------------------------------------------
(* make_initrd                                                             *)

\* Mutant: the number of files is not counted.
offset_without_count(fs, j) ==
  LET offset_after[n \in 0 .. Len(fs)] ==
        IF n = 0 THEN MaxFiles ELSE offset_after[n - 1] + Len(fs[n].data)
  IN  offset_after[j - 1]

\* The offset of file j: past the number of files and all headers, and then
\* moved on by the length of each file before.
offset(fs, j) ==
  LET offset_after[n \in 0 .. Len(fs)] ==
        IF n = 0 THEN MaxFiles + 1 ELSE offset_after[n - 1] + Len(fs[n].data)
  IN  offset_after[j - 1]

Header(fs, j) == [kind |-> "header", magic |-> TRUE, name |-> fs[j].name,
                  offset |-> offset(fs, j), length |-> Len(fs[j].data)]

\* Headers past the last file are written as well, with whatever they hold.
make_initrd(fs) ==
  <<[kind |-> "count", n |-> Len(fs)]>>
    \o [j \in 1 .. MaxFiles |-> IF j <= Len(fs) THEN Header(fs, j)
                                ELSE [kind |-> "header", magic |-> FALSE]]
    \o FlattenSeq([j \in 1 .. Len(fs) |-> fs[j].data])

\* A module that is something else has a header without the magic number.
Corrupt(fs, j) == [make_initrd(fs) EXCEPT ![j + 1].magic = FALSE]

-----------------------------------------------------------------------------
(* strings                                                                 *)

Zeros == [j \in 0 .. NameLen - 1 |-> "nul"]

\* The string an array holds, and strcpy(), which copies no end.
Str(a)          == [j \in 1 .. (CHOOSE k \in 0 .. NameLen - 1 :
                                  /\ a[k] = "nul"
                                  /\ \A m \in 0 .. k - 1 : a[m] # "nul") |-> a[j - 1]]
strcpy(a, src)  == [j \in DOMAIN a |-> IF j < Len(src) THEN src[j + 1] ELSE a[j]]

-----------------------------------------------------------------------------
(* init_initrd() and the operations of a node                              *)

NoRead == [inode |-> 0, offset |-> 0, size |-> 0, bytes |-> << >>]

Init ==
  /\ files \in Images
  /\ \/ image = make_initrd(files)
     \/ \E j \in DOMAIN files : image = Corrupt(files, j)
  /\ root_nodes = << >> /\ dirent = [name |-> Zeros, inode |-> 0]
  /\ pc = "mount" /\ index = 1 /\ shown = << >>
  /\ last = NoRead
  /\ file = 0 /\ umem = << >> /\ fault = "none"

file_headers(j) == image[j + 1]
nfiles          == image[1].n

\* One turn of the loop of init_initrd(); the image is relocated in place.
MountFile ==
  /\ pc = "mount" /\ index <= nfiles
  /\ IF file_headers(index).magic
     THEN /\ image' = [image EXCEPT ![index + 1].offset = @ + location]
          /\ root_nodes' = Append(root_nodes,
               [name |-> strcpy(Zeros, file_headers(index).name),
                length |-> file_headers(index).length, inode |-> index])
          /\ index' = index + 1
          /\ UNCHANGED pc
     ELSE pc' = "panic" /\ UNCHANGED <<image, root_nodes, index>>
  /\ UNCHANGED <<files, dirent, shown, last, file, umem, fault>>

Mounted ==
  /\ pc = "mount" /\ index > nfiles
  /\ pc' = "list" /\ index' = 0
  /\ UNCHANGED <<files, image, root_nodes, dirent, shown, last, file, umem, fault>>

\* What is at an address of the module.
Memory(a) == LET k == a - location + 1
             IN  IF k \in DOMAIN image THEN image[k] ELSE [kind |-> "junk"]

\* initrd_read(): the bytes copied.
initrd_read(h, off, size) ==
  IF off > h.length THEN << >>
  ELSE [j \in 1 .. (IF (off + size) % Word > h.length THEN h.length - off ELSE size)
          |-> Memory(h.offset + off + j - 1)]

\* read(): the directory has no callback.
read(node, off, size) ==
  IF node = 0 THEN << >> ELSE initrd_read(file_headers(node), off, size)

\* Mutant: the index is compared as an int.
NoEntrySigned(i) == i - 1 >= Len(root_nodes)

\* index - 1 >= nroot_nodes, with 2^32 - 1 for index 0 of dev.
NoEntry(i) == (i - 1) % Word >= Len(root_nodes)

\* Mutant: the terminator is left out.
EntryUnterminated(name, n) == [dirent EXCEPT !.name = strcpy(@, name), !.inode = n]

\* dirent after an entry was copied to it: strcpy(), then the terminator.
Entry(name, n) ==
  [name |-> [strcpy(dirent.name, name) EXCEPT ![Len(name)] = "nul"], inode |-> n]

IsDev(node, i) == node = "root" /\ i = 0

\* readdir() on the root or on dev: what happens to dirent.
Readdir(node, i) ==
  CASE IsDev(node, i)                -> dirent' = Entry(dev, 0) /\ UNCHANGED fault
    [] ~ IsDev(node, i) /\ NoEntry(i) -> UNCHANGED <<dirent, fault>>
    [] OTHER -> IF i \in DOMAIN root_nodes
                THEN /\ dirent' = Entry(Str(root_nodes[i].name), root_nodes[i].inode)
                     /\ UNCHANGED fault
                ELSE fault' = "range" /\ UNCHANGED dirent

\* finddir() on the root: the node, 0 for dev, and -1 for none.
Matches(name) == {j \in DOMAIN root_nodes : Str(root_nodes[j].name) = name}
finddir(name) ==
  IF name = dev THEN 0
  ELSE IF Matches(name) = {} THEN -1
  ELSE CHOOSE j \in Matches(name) : \A m \in Matches(name) : j <= m

\* debug_print_root_content(): an entry is looked up by the name it was given.
ListEntry ==
  /\ pc = "list"
  /\ Readdir("root", index)
  /\ IF index > 0 /\ NoEntry(index)
     THEN pc' = "ready" /\ index' = 0 /\ UNCHANGED shown
     ELSE LET name == Str(dirent'.name)
              node == finddir(name)
          IN  /\ shown' = Append(shown, [name |-> name, node |-> node])
              /\ index' = index + 1 /\ UNCHANGED pc
  /\ UNCHANGED <<files, image, root_nodes, last, file, umem>>

\* A single read() of a file, and readdir() of the empty directory dev.
ReadFile(node, off, size) ==
  /\ pc = "ready" /\ node \in DOMAIN root_nodes
  /\ last' = [inode |-> node, offset |-> off, size |-> size,
              bytes |-> read(node, off, size)]
  /\ UNCHANGED <<files, image, root_nodes, dirent, pc, index, shown, file, umem, fault>>

ReaddirDev(i) ==
  /\ pc = "ready"
  /\ Readdir("dev", i)
  /\ UNCHANGED <<files, image, root_nodes, pc, index, shown, last, file, umem>>

-----------------------------------------------------------------------------
(* exec_elf() and load_elf_binary()                                        *)

\* open() follows the result of finddir(), also when it is null.
exec_elf(name) ==
  /\ pc = "ready"
  /\ IF finddir(name) = -1
     THEN fault' = "null" /\ UNCHANGED <<pc, file, umem>>
     ELSE pc' = "header" /\ file' = finddir(name) /\ umem' = << >> /\ UNCHANGED fault
  /\ index' = 0 /\ last' = NoRead
  /\ UNCHANGED <<files, image, root_nodes, dirent, shown>>

elf_hdr == read(file, 0, 1)

\* The magic number is looked for in what was read; where nothing was, in what
\* the stack held.
LoadHeader ==
  /\ pc = "header"
  /\ \/ /\ elf_hdr = << >>
        /\ \/ fault' = "garbage" /\ UNCHANGED pc
           \/ pc' = "panic" /\ UNCHANGED fault
     \/ /\ elf_hdr # << >> /\ elf_hdr[1].kind = "ehdr"
        /\ pc' = "segment" /\ UNCHANGED fault
     \/ /\ elf_hdr # << >> /\ elf_hdr[1].kind # "ehdr"
        /\ pc' = "panic" /\ UNCHANGED fault
  /\ UNCHANGED <<files, image, root_nodes, dirent, index, shown, last, file, umem>>

RoundDown(a) == (a \div PageSize) * PageSize
RoundUp(a)   == ((a + PageSize - 1) \div PageSize) * PageSize

\* Mutant: pages that are mapped are replaced.
allocate_range_anew(m, from, to) ==
  [a \in DOMAIN m \cup RoundDown(from) .. RoundUp(to) - 1 |->
     IF a \in RoundDown(from) .. RoundUp(to) - 1 THEN [kind |-> "junk"] ELSE m[a]]

\* Pages that are mapped keep their contents; others come as they are.
allocate_range(m, from, to) ==
  [a \in DOMAIN m \cup RoundDown(from) .. RoundUp(to) - 1 |->
     IF a \in DOMAIN m THEN m[a] ELSE [kind |-> "junk"]]

\* One turn of the loop: a segment to be loaded (p_type is compared with PF_X,
\* which has the value of PT_LOAD) is mapped, then read into its place.
LoadSegment ==
  /\ pc = "segment" /\ index < elf_hdr[1].phnum
  /\ LET p_hdr == read(file, elf_hdr[1].phoff + index, 1)[1]
         space == allocate_range(umem, p_hdr.vaddr, p_hdr.vaddr + p_hdr.memsz)
         bytes == read(file, p_hdr.offset, p_hdr.filesz)
         place == p_hdr.vaddr .. p_hdr.vaddr + Len(bytes) - 1
     IN  CASE p_hdr.type # "LOAD" -> UNCHANGED <<umem, fault>>
           [] p_hdr.type = "LOAD" /\ place \subseteq DOMAIN space ->
                /\ umem' = [a \in DOMAIN space |-> IF a \in place
                              THEN bytes[a - p_hdr.vaddr + 1] ELSE space[a]]
                /\ UNCHANGED fault
           [] OTHER -> fault' = "page" /\ UNCHANGED umem
  /\ index' = index + 1
  /\ UNCHANGED <<files, image, root_nodes, dirent, pc, shown, last, file>>

\* exec_elf() makes the task and returns to the directory of its caller.
Loaded ==
  /\ pc = "segment" /\ index = elf_hdr[1].phnum
  /\ pc' = "ready" /\ index' = 0
  /\ file' = 0 /\ umem' = << >>
  /\ UNCHANGED <<files, image, root_nodes, dirent, shown, last, fault>>

\* Names kmain() may ask for: those of the image, dev, and one that is missing.
Next ==
  /\ fault = "none"
  /\ \/ MountFile \/ Mounted \/ ListEntry
     \/ \E node \in 1 .. MaxFiles, off, size \in Sizes : ReadFile(node, off, size)
     \/ \E i \in 0 .. MaxFiles + 1 : ReaddirDev(i)
     \/ \E name \in {files[j].name : j \in DOMAIN files} \cup {dev, <<"?">>} : exec_elf(name)
     \/ LoadHeader \/ LoadSegment \/ Loaded

Spec == Init /\ [][Next]_vars

-----------------------------------------------------------------------------
(* Properties                                                              *)

\* A read returns exactly the bytes that the file had on the host in the range
\* that was asked for, up to its end: neither fewer, nor any of the next file.
ReadExact ==
  last.inode \in DOMAIN files =>
    LET data == files[last.inode].data
        end  == last.offset + last.size
    IN  last.bytes = SubSeq(data, last.offset + 1,
                            IF end < Len(data) THEN end ELSE Len(data))

FirstNamed(name) == CHOOSE j \in DOMAIN files :
                      /\ files[j].name = name
                      /\ \A m \in DOMAIN files : files[m].name = name => j <= m

\* The listing shows dev and every file of the host once, in order, under its
\* own name although all names go through one buffer that strcpy() does not
\* terminate, and each leads to a node: the first of that name.
ListedRight ==
  LET names == <<dev>> \o [j \in DOMAIN files |-> files[j].name]
  IN  /\ IsPrefix([j \in DOMAIN shown |-> shown[j].name], names)
      /\ \A j \in DOMAIN shown :
           shown[j].node = IF names[j] = dev THEN 0 ELSE FirstNamed(names[j])
      /\ pc \notin {"mount", "list", "panic"} => Len(shown) = Len(names)

\* No directory is read outside of its nodes and no segment is copied to an
\* address that is not mapped.
NoWildAccess == fault \notin {"range", "page"}

\* When a program is loaded, every segment holds what the file has for it,
\* also when segments share a page.
LoadedIntact ==
  pc = "segment" =>
    \A k \in 0 .. index - 1 :
      LET data  == files[file].data
          p_hdr == data[data[1].phoff + k + 1]
      IN  p_hdr.type = "LOAD" =>
            \A j \in 0 .. p_hdr.filesz - 1 :
              umem[p_hdr.vaddr + j] = data[p_hdr.offset + j + 1]

=============================================================================
