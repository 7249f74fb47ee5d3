-------------------------------- MODULE Timers --------------------------------
(***************************************************************************)
(* What the time wheel is for: a connection that sends nothing for Timeout *)
(* ticks is closed by the next tick, and no tick closes it before.         *)
(* Reactor implements this as long as no client closes first or asks for a *)
(* transfer.                                                               *)
(***************************************************************************)
EXTENDS Integers

CONSTANTS Fds,      \* descriptors
          Timeout,  \* ticks a connection may stay silent
          NULL      \* "no timer"

VARIABLE left  \* left[f]: how many ticks from now close f; NULL if f is not timed

vars == left

Init == left = [f \in Fds |-> NULL]

Add(f) ==
  /\ left[f] = NULL
  /\ left' = [left EXCEPT ![f] = Timeout + 1]

Refresh(f) ==
  /\ left[f] # NULL
  /\ left' = [left EXCEPT ![f] = Timeout + 1]

\* A timer that is due takes its connection with it ...
Expire(f) ==
  /\ left[f] = 1
  /\ left' = [left EXCEPT ![f] = NULL]

\* ... before the clock advances.
Tick ==
  /\ \A f \in Fds : left[f] # 1
  /\ left' = [f \in Fds |-> IF left[f] = NULL THEN NULL ELSE left[f] - 1]

Next ==
  \/ \E f \in Fds : Add(f) \/ Refresh(f) \/ Expire(f)
  \/ Tick

Spec == Init /\ [][Next]_vars
===============================================================================
