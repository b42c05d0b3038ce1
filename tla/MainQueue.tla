------------------------------ MODULE MainQueue ------------------------------
(***************************************************************************)
(* The main thread of the app.  Completions of the SDK do not touch a      *)
(* screen themselves but put a block on the main queue, where it waits     *)
(* behind others; taps and the end of an alert's animation come in between *)
(* (see Between).                                                          *)
(***************************************************************************)
EXTENDS Integers, SequencesExt

CONSTANT MaxBlocks      \* bound: blocks waiting on the main queue

ASSUME MaxBlocksAssumption == MaxBlocks \in Nat

VARIABLES blocks,       \* the main queue
          due           \* how many of them run before the next event

queue == <<blocks, due>>

(* DispatchQueue.main.async, from a completion.                            *)
Send(b) ==
    /\ Len(blocks) < MaxBlocks
    /\ blocks' = Append(blocks, b)
    /\ UNCHANGED due

(* The next block runs; it is of the kind what.                            *)
Dequeue(what) ==
    /\ blocks # <<>> /\ Head(blocks).what = what
    /\ blocks' = Tail(blocks)
    /\ due' = IF due > 0 THEN due - 1 ELSE 0

(* Events of the run loop.  Between two of them all blocks run that were   *)
(* waiting at the first, but a block may come in just before or after one. *)
(* bs are the blocks that wait when the event has been handled.            *)
Between(bs) ==
    /\ due = 0
    /\ blocks' = bs
    /\ due' = Len(bs)
=============================================================================
