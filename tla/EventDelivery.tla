---------------------------- MODULE EventDelivery ----------------------------
(***************************************************************************)
(* What the outbox promises to the services that record events, whatever   *)
(* the number of relays: an event is owed from the moment it is recorded   *)
(* until it is done or dead, and it is done only if the broker took it.    *)
(* Copies are not counted: delivery is at least once.                      *)
(***************************************************************************)
CONSTANT Event

VARIABLES
  fate,   \* fate[e]: what the platform believes of e
  taken   \* the events the broker has

Fate == {"unborn", "owed", "dead", "done"}

Init ==
  /\ fate = [e \in Event |-> "unborn"]
  /\ taken = {}

Record(e) ==
  /\ fate[e] = "unborn"
  /\ fate' = [fate EXCEPT ![e] = "owed"]
  /\ UNCHANGED taken

(* The broker takes an event, again perhaps, after it was recorded.        *)
Take(e) ==
  /\ fate[e] # "unborn"
  /\ taken' = taken \cup {e}
  /\ UNCHANGED fate

(* Outcomes are written back, of many events at once.  Belief may change   *)
(* either way, but an event is never believed done that was not taken, and *)
(* an event once recorded is never unrecorded.                             *)
WriteBack ==
  /\ fate' \in [Event -> Fate]
  /\ \A e \in Event :
       \/ fate'[e] = fate[e]
       \/ /\ fate[e] # "unborn"
          /\ fate'[e] # "unborn"
          /\ fate'[e] = "done" => e \in taken
  /\ UNCHANGED taken

Next == (\E e \in Event : Record(e) \/ Take(e)) \/ WriteBack

Spec == Init /\ [][Next]_<<fate, taken>>
=============================================================================
