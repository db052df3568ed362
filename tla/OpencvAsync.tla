----------------------------- MODULE OpencvAsync ----------------------------
(* OpencvAsync of include/OpencvAsync.h: each Capture() posts the next one   *)
(* to an executor of several threads.  The camera is external: a handle that *)
(* was open when it went away, or a file at its end, reads nothing any more. *)
EXTENDS Naturals

CONSTANT Workers   \* the threads of the executor

VARIABLES posted,   \* how many Capture() wait in the executor
          at,       \* at[w]: out, or in Capture(): capture, sleep, fn; or gone
          cap,      \* the VideoCapture: none before construction, closed, open, stale
          camera    \* the camera can be opened and read

vars == <<posted, at, cap, camera>>

Init == posted = 0 /\ at = [w \in Workers |-> "out"] /\ cap = "none" /\ camera = TRUE

(* The constructor dispatches the first Capture(). *)
Construct == cap = "none" /\ cap' = "closed" /\ posted' = 1 /\ UNCHANGED <<at, camera>>

Unplug == camera /\ camera' = FALSE /\ cap' = (IF cap = "open" THEN "stale" ELSE cap) /\ UNCHANGED <<posted, at>>
Plug == ~camera /\ camera' = TRUE /\ UNCHANGED <<posted, at, cap>>

Go(w, l) == at' = [at EXCEPT ![w] = l]
AsyncCapture(w) == posted' = posted + 1 /\ Go(w, "out")
Take(w) == at[w] = "out" /\ posted > 0 /\ posted' = posted - 1 /\ Go(w, "capture") /\ UNCHANGED <<cap, camera>>

(* Mutant: no return after AsyncCapture(). *)
OpenFallsThrough(w) ==
  /\ at[w] = "capture" /\ cap = "closed" /\ camera
  /\ cap' = "open" /\ posted' = posted + 1 /\ UNCHANGED <<at, camera>>

(* Capture() of a capture that is not open opens it; a failure sleeps first. *)
Open(w) ==
  /\ at[w] = "capture" /\ cap = "closed" /\ camera
  /\ cap' = "open" /\ AsyncCapture(w) /\ UNCHANGED camera
OpenFails(w) ==
  /\ at[w] = "capture" /\ cap = "closed" /\ ~camera
  /\ Go(w, "sleep") /\ UNCHANGED <<posted, cap, camera>>
Wake(w) == at[w] = "sleep" /\ AsyncCapture(w) /\ UNCHANGED <<cap, camera>>

(* ... of an open one reads: a frame goes to fn, a failure to the next try.  *)
Read(w) == at[w] = "capture" /\ cap = "open" /\ Go(w, "fn") /\ UNCHANGED <<posted, cap, camera>>

(* Mutant: a failed read ends the loop. *)
ReadFailsReturns(w) ==
  at[w] = "capture" /\ cap \in {"open", "stale"} /\ Go(w, "out") /\ UNCHANGED <<posted, cap, camera>>

ReadFails(w) == at[w] = "capture" /\ cap \in {"open", "stale"} /\ AsyncCapture(w) /\ UNCHANGED <<cap, camera>>

(* fn returns, or throws through Capture() out of the executor's thread. *)
Fn(w) == at[w] = "fn" /\ AsyncCapture(w) /\ UNCHANGED <<cap, camera>>
FnThrows(w) == at[w] = "fn" /\ Go(w, "gone") /\ UNCHANGED <<posted, cap, camera>>

Next ==
  \/ Construct \/ Unplug \/ Plug
  \/ \E w \in Workers : \/ Take(w) \/ Open(w) \/ OpenFails(w) \/ Wake(w)
                        \/ Read(w) \/ ReadFails(w) \/ Fn(w) \/ FnThrows(w)

Spec == Init /\ [][Next]_vars

(* Threads of the executor run; of a good handle's reads some succeed. *)
Fairness ==
  \A w \in Workers : /\ WF_vars(Take(w) \/ OpenFails(w) \/ Wake(w) \/ ReadFails(w) \/ Fn(w))
                     /\ WF_vars(Open(w)) /\ SF_vars(Read(w))
-----------------------------------------------------------------------------
TypeOK ==
  /\ posted \in Nat /\ camera \in BOOLEAN /\ cap \in {"none", "closed", "open", "stale"}
  /\ at \in [Workers -> {"out", "capture", "sleep", "fn", "gone"}]

(* However many threads the executor has, one Capture() is posted or running *)
(* at a time: the VideoCapture, which is not thread-safe, and fn are never   *)
(* used by two of them at once.                                              *)
Inside == {w \in Workers : at[w] \in {"capture", "sleep", "fn"}}
OneCapture == posted \in {0, 1} /\ (posted = 1 => Inside = {}) /\ \A v, w \in Inside : v = w

(* Frames go on coming while there is a camera, failed reads and a late      *)
(* start notwithstanding, unless fn threw; but a camera that went away while *)
(* it was open is never opened again, since isOpened() stays true.           *)
Frame == \E w \in Workers : at[w] = "fn"
Flows ==
  <>[](camera /\ cap \in {"closed", "open"} /\ \A w \in Workers : at[w] # "gone") => []<>Frame
=============================================================================
