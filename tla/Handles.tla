------------------------------- MODULE Handles -------------------------------
(***************************************************************************)
(* What every program of the camera's media libraries promises about the   *)
(* handles it is given: none is opened twice, none is made from a handle   *)
(* that is not open, and none is closed while something made from it is    *)
(* still in use.  A thread that works on a handle is one more of its       *)
(* users.  MediaProgram and StreamDemo are checked against this.           *)
(***************************************************************************)
CONSTANTS
  Handle,   \* what can be opened
  Needs     \* Needs[h]: the handles h is made from, and uses while it is open

VARIABLE open

Init == open = {}

Open(h) ==
  /\ h \in Handle \ open
  /\ Needs[h] \subseteq open
  /\ open' = open \cup {h}

Close(h) ==
  /\ h \in open
  /\ \A user \in open : h \notin Needs[user]
  /\ open' = open \ {h}

\* The process ends, and the kernel takes everything back.
End == open' = {}

Next == \/ \E h \in Handle : Open(h) \/ Close(h)
        \/ End

Spec == Init /\ [][Next]_open
=============================================================================
