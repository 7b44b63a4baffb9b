----------------------------- MODULE MCRamdisk -----------------------------
EXTENDS Ramdisk

B(v)          == [kind |-> "byte", v |-> v]
Ehdr(off, n)  == [kind |-> "ehdr", phoff |-> off, phnum |-> n]
Phdr(t, o, a, f, m) == [kind |-> "phdr", type |-> t, offset |-> o, vaddr |-> a,
                        filesz |-> f, memsz |-> m]

\* Programs of two segments that share a page of four, touch, or lie apart,
\* with and without a header between them that is not loaded; and two files
\* that are no programs.
Program(a, b, f, m) ==
  <<Ehdr(1, 3), Phdr("LOAD", 4, a, 2, 2), Phdr("NOTE", 0, 0, 0, 0),
    Phdr("LOAD", 6, b, f, m), B(1), B(2), B(3), B(4), B(5)>>

Data == {<< >>, <<B(1)>>, <<B(7), B(8), B(9)>>}
          \cup {Program(a, b, f, f + m) : a \in {0, 3}, b \in {5, 6, 9}, f \in 0 .. 3, m \in {0, 2}}

Names == {<<"a">>, <<"a", "b">>, dev, <<"l", "o", "n", "g">>}

AnyFile == [name : Names, data : Data]

\* One file, or three: a program between two others, and equal names.
MCImages ==
  {<<f>> : f \in AnyFile}
    \cup {<<[name |-> n1, data |-> <<B(7), B(8), B(9)>>], f, [name |-> n2, data |-> <<B(1)>>]>> :
            n1 \in Names, n2 \in Names, f \in [name : Names, data : {<< >>, Program(3, 5, 2, 4)}]}
    \cup {<< >>}

=============================================================================
