----------------------------- MODULE MCVMMemory -----------------------------
(***************************************************************************)
(* Words of 3 bits and ints of 2 for TLC: a chunk of three words, more     *)
(* than an int has bits, one of a word, and big chunks.                    *)
(***************************************************************************)
EXTENDS VMMemory
CONSTANT Chunks
MCRows == <<[min |-> 1, max |-> 1, count |-> 9], [min |-> 2, max |-> 2, count |-> 6],
            [min |-> 3, max |-> 8, count |-> 1]>>
MCChunkIds == 1 .. Chunks
=============================================================================
