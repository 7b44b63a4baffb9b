------------------------------ MODULE MCKHeap ------------------------------
(* Instances of KHeap for TLC.                                             *)
EXTENDS KHeap

\* Chunks of 2, 3 and 5 words with H = 1: a free chunk is reused exactly, with
\* one word to spare, or split.
SizesThree == {1, 2, 4}
=============================================================================
