--------------------------- MODULE MCMessageLooper ---------------------------
(***************************************************************************)
(* The module TLC runs for MessageLooper: its cfg files name the threads,  *)
(* who quits, and the messages.                                            *)
(***************************************************************************)
EXTENDS MessageLooperProps, TLC

\* Threads that only post, and messages, are interchangeable.
Symmetry == Permutations(Posters \ Quitters) \cup Permutations(Msg)
=============================================================================
