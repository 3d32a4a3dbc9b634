-------------------------- MODULE MCDocumentQueue --------------------------
(* Instances of DocumentQueue for TLC. *)
EXTENDS DocumentQueue, TLC

MCChunksTwo     == <<2>>       \* one document of two chunks
MCChunksTwoZero == <<2, 0>>    \* and one without text
MCChunksNone    == <<0, 0>>    \* two without text: the queue alone

WorkerSymmetry == Permutations(Workers)
=============================================================================
