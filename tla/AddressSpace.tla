---------------------------- MODULE AddressSpace ----------------------------
(***************************************************************************)
(* What paging promises its callers: a function from pages to page frames, *)
(* of which a request changes the page that it names and no other, and     *)
(* which the processor is given once it is good enough to run in.          *)
(***************************************************************************)
EXTENDS Integers, Sequences, SequencesExt

CONSTANTS
  Pages,
  Unmapped,      \* what a page without a frame is mapped to
  Required       \* what pages the kernel needs must be mapped to, as a function

VARIABLES
  map,
  requests,      \* pages to be mapped, with their frames; the next one is the last
  running        \* the processor uses the map

vars == <<map, requests, running>>

Init == map = [page \in Pages |-> Unmapped] /\ requests = << >> /\ running = FALSE

(* The pages that a step maps anew. *)
Changed == {page \in Pages : map'[page] # map[page]}

(* A request from a caller, or, before the one being served, for the memory *)
(* that serving it takes, which is mapped to itself.                        *)
Ask ==
  /\ Len(requests') = Len(requests) + 1 /\ Front(requests') = requests
  /\ requests # << >> => Last(requests').page = Last(requests').frame
  /\ Changed = {} /\ UNCHANGED running

Serve ==
  /\ requests # << >> /\ requests' = Front(requests)
  /\ Changed \subseteq {Last(requests).page}
  /\ map'[Last(requests).page] = Last(requests).frame
  /\ UNCHANGED running

(* A page is unmapped, to be mapped elsewhere or not at all. *)
Unmap ==
  /\ requests = << >> /\ Len(requests') <= 1
  /\ LET changed == Changed
     IN  \A page \in changed : changed = {page} /\ map'[page] = Unmapped
  /\ UNCHANGED running

(* The flags of a page are edited: without a frame, it gets frame 0.        *)
Edit ==
  /\ requests = << >> /\ requests' = << >>
  /\ LET changed == Changed
     IN  \E page \in changed : changed = {page} /\ map[page] = Unmapped /\ map'[page] = 0
  /\ UNCHANGED running

Start ==
  /\ ~running /\ running' = TRUE
  /\ requests = << >>
  /\ \A page \in DOMAIN Required : map[page] = Required[page]
  /\ UNCHANGED <<map, requests>>

Next == Ask \/ Serve \/ Unmap \/ Edit \/ Start

Spec == Init /\ [][Next]_vars
=============================================================================
