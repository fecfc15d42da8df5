------------------------------ MODULE Allocator ------------------------------
(***************************************************************************)
(* What an allocator over the arena [Base, Base + Size) promises its       *)
(* callers, with no blocks, headers or lists: each successful request is   *)
(* given a range of at least the requested length, aligned to the grain,   *)
(* inside the arena and overlapping no range still held; a range keeps its *)
(* place and length until it is released, and a release gives back       *)
(* exactly one held range.  An allocator may refuse a request, so nothing  *)
(* here has to happen.                                                     *)
(*                                                                         *)
(* kernel/memory/memory.c's malloc and free (module Heap) implement this;  *)
(* Heap maps its used blocks to `held'.                                    *)
(***************************************************************************)
EXTENDS Integers

CONSTANTS
  Base,      \* the first byte of the arena
  Size,      \* its length
  Grain,     \* ranges start on, and are a multiple of, this many bytes
  Requests   \* the lengths callers ask for

VARIABLE held   \* the ranges given out and not yet released

Range == [ptr : Base..(Base + Size), len : 0..Size, req : Requests]

\* The multiples of Grain in lo..hi.
Grains(lo, hi) == {g * Grain : g \in ((lo + Grain - 1) \div Grain)..(hi \div Grain)}

Inside(r) == r.ptr + r.len <= Base + Size

Disjoint(r, s) == r.ptr + r.len <= s.ptr \/ s.ptr + s.len <= r.ptr

Init == held = {}

\* A request of `req' bytes is granted a fresh range.
Alloc(req) ==
  \E p \in Grains(Base, Base + Size), n \in Grains(req, Size) :
    LET r == [ptr |-> p, len |-> n, req |-> req]
    IN  /\ Inside(r)
        /\ \A s \in held : Disjoint(r, s)
        /\ held' = held \cup {r}

\* A held range is given back.
Release(r) == held' = held \ {r}

Next == (\E req \in Requests : Alloc(req)) \/ (\E r \in held : Release(r))

Spec == Init /\ [][Next]_held

-----------------------------------------------------------------------------
TypeOK == held \subseteq Range

(* No two ranges held at once share a byte. *)
HeldDisjoint == \A r, s \in held : r # s => Disjoint(r, s)

=============================================================================
