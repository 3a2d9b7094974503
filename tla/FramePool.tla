----------------------------- MODULE FramePool -----------------------------
(***************************************************************************)
(* What the page frame allocator promises its callers: a pool of free      *)
(* pages and the pages that are held.  A page given back may be lost, but  *)
(* a call never moves a page it was not asked about.                       *)
(***************************************************************************)
EXTENDS Integers, FiniteSetsExt

VARIABLES
  free, held,
  call,          \* "start", "none", "alloc", "free" or "lock": the call in progress
  moving         \* the pages it is still to move, in order of address

vars == <<free, held, call, moving>>

Init == free = {} /\ held = {} /\ call = "start" /\ moving = {}

(* The memory manager starts with the pages of the map. *)
Start ==
  /\ call = "start" /\ call' = "none"
  /\ free' \in SUBSET Nat
  /\ UNCHANGED <<held, moving>>

BeginTake == call = "none" /\ call' = "alloc" /\ UNCHANGED <<free, held, moving>>

(* The lowest free page is handed out, if there is one. *)
Take ==
  LET taken == IF free = {} THEN {} ELSE {Min(free)}
  IN  /\ call = "alloc" /\ call' = "none"
      /\ free' = free \ taken /\ held' = held \cup taken
      /\ UNCHANGED moving

BeginFree ==
  /\ call = "none" /\ call' = "free"
  /\ \E pages \in (SUBSET held) \ {{}} : moving' = pages /\ held' = held \ pages
  /\ UNCHANGED free

BeginLock ==
  /\ call = "none" /\ call' = "lock"
  /\ \E pages \in (SUBSET free) \ {{}} : moving' = pages
  /\ UNCHANGED <<free, held>>

(* The call is done with its first page, and ends with its last. *)
Passed ==
  /\ moving' = moving \ {Min(moving)}
  /\ call' = IF moving' = {} THEN "none" ELSE call

FreePage ==
  /\ call = "free"
  /\ free' \in {free, free \cup {Min(moving)}}
  /\ Passed \/ UNCHANGED <<call, moving>>
  /\ UNCHANGED held

LockPage ==
  /\ call = "lock"
  /\ free' \in {free, free \ {Min(moving)}}
  /\ \/ Passed /\ Min(moving) \notin free' /\ held' = held \cup {Min(moving)}
     \/ UNCHANGED <<call, moving, held>>

Next == Start \/ BeginTake \/ Take \/ BeginFree \/ BeginLock \/ FreePage \/ LockPage

Spec == Init /\ [][Next]_vars
=============================================================================
