------------------------------- MODULE MCDesk -------------------------------
(***************************************************************************)
(* What desks share, on small instances: the lock of a resource, held by   *)
(* an analyst with two tabs and an MLRO with one, the report batches with  *)
(* the live feed, and the watchlists.  They share no state, so each        *)
(* initial state picks one of them and the others rest.                    *)
(***************************************************************************)
EXTENDS ResourceLock, StrBatch, Screening, TLC

CONSTANTS OneTab, SameTab, Other, First

VARIABLE part

deskVars == <<part, vars, strVars, screenVars>>

(* Processes of one container, and the first ones of two.                  *)
OwnNumber == [p \in Process |-> p]
OneNumber == [p \in Process |-> First]

DeskInit ==
  /\ part \in {"lock", "str", "screen"}
  /\ Init /\ StrInit /\ ScreenInit
  /\ pid \in IF part = "str" THEN {OwnNumber, OneNumber} ELSE {OneNumber}
  /\ part # "str" => at = [c \in Client |-> New]

DeskNext ==
  /\ UNCHANGED part
  /\ \/ part = "lock" /\ Next /\ UNCHANGED <<strVars, screenVars>>
     \/ part = "str" /\ StrNext /\ UNCHANGED <<vars, screenVars>>
     \/ part = "screen" /\ ScreenNext /\ UNCHANGED <<vars, strVars>>

DeskSpec == DeskInit /\ [][DeskNext]_deskVars

TwoTabs == [s \in Session |-> IF s = Other THEN "mlro" ELSE "analyst"]

(* World-Check and Dow Jones name one politically exposed person, whom the *)
(* feeds may come to sanction; the data sets for feeds that fail are behind *)
(* the feeds.                                                              *)
OnePEP == {<<"n", "pep">>}
NoneListed == [f \in Feed |-> {}]

(* The properties of the lock say nothing after a first cause, those of    *)
(* the watchlists nothing after some failures, and either stays: nothing   *)
(* is lost by not going on from there.                                     *)
Undisturbed == causes = {}
Telling == mishaps \subseteq {"sql", "scan"}

(* Bound: two requests for the lock are in progress at once, and a third   *)
(* may have begun.                                                         *)
TwoAtOnce == \E s \in Session : req[s] = NoReq

(* Tabs and requests are interchangeable, and so are processes; parts that *)
(* do not meet use the same values.                                        *)
DeskSymmetry == {p @@ q : p \in Permutations({OneTab, SameTab}), q \in Permutations(Process)}
=============================================================================
