---------------------------- MODULE ClosablePool ----------------------------
(***************************************************************************)
(* What a frame pool promises the stages that share it: a fixed set of     *)
(* frames, each lent to one holder at a time.  An acquire returns 1 with   *)
(* an idle frame, and 0 only after the close.  A frame given back before   *)
(* the close can be lent again; one given back after it is retired.        *)
(***************************************************************************)
CONSTANTS Threads,    (* the threads that acquire                           *)
          Frames      (* the preallocated frames                            *)

VARIABLES idle,       (* frames ready to be lent                            *)
          lent,       (* frames some stage holds                            *)
          closed,
          returned    (* per thread: what its last acquire returned         *)

vars == <<idle, lent, closed, returned>>

Init == /\ idle = Frames
        /\ lent = {}
        /\ closed = FALSE
        /\ returned = [t \in Threads |-> "none"]

Returns(t, outcome) == returned' = [returned EXCEPT ![t] = outcome]

Acquire(t, f) == /\ ~closed
                 /\ f \in idle
                 /\ idle' = idle \ {f}
                 /\ lent' = lent \cup {f}
                 /\ Returns(t, "done")
                 /\ UNCHANGED closed

AcquireRefused(t) == /\ closed
                     /\ Returns(t, "refused")
                     /\ UNCHANGED <<idle, lent, closed>>

Call(t) == /\ Returns(t, "none")
           /\ UNCHANGED <<idle, lent, closed>>

Release(f) == /\ f \in lent
              /\ lent' = lent \ {f}
              /\ idle' = IF closed THEN idle ELSE idle \cup {f}
              /\ UNCHANGED <<closed, returned>>

Close == /\ closed' = TRUE
         /\ UNCHANGED <<idle, lent, returned>>

Next == \/ Close
        \/ \E f \in Frames : Release(f)
        \/ \E t \in Threads :
              \/ \E f \in Frames : Acquire(t, f)
              \/ AcquireRefused(t)
              \/ Call(t)

Spec == Init /\ [][Next]_vars
=============================================================================
