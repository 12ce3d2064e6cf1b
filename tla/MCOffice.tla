------------------------------ MODULE MCOffice ------------------------------
(***************************************************************************)
(* The office side on small instances: cases, sessions, second factor,     *)
(* rate limit, lockout, onboarding, model feedback.  They share no state   *)
(* here, so each initial state picks one of them and the others rest: the  *)
(* state spaces add up instead of multiplying.  UsedOnce says nothing once *)
(* requests raced, so the second factor stops there.                       *)
(***************************************************************************)
EXTENDS CaseLifecycle, Sessions, GuessLimits, Onboarding, FeedbackLoop, TLC

VARIABLE part

vars == <<part, caseVars, sessionVars, factorVars, rateVars, lockoutVars,
          boardingVars, feedbackVars>>

Parts == {"case", "sessions", "factor", "rate", "lockout", "board", "feedback"}

Init ==
  /\ part \in Parts
  /\ CaseInit /\ SignedOut /\ FactorInit /\ RateInit /\ LockoutInit
  /\ BoardInit /\ FeedbackInit
  /\ role \in IF part = "sessions" THEN Role ELSE {"none"}
  /\ part # "sessions" => mfaOn
  /\ part # "feedback" => model = [s \in Server |-> History]

Next ==
  /\ UNCHANGED part
  /\ \/ /\ part = "case" /\ CaseNext
        /\ UNCHANGED <<sessionVars, factorVars, rateVars, lockoutVars, boardingVars, feedbackVars>>
     \/ /\ part = "sessions" /\ SessionNext
        /\ UNCHANGED <<caseVars, factorVars, rateVars, lockoutVars, boardingVars, feedbackVars>>
     \/ /\ part = "factor" /\ ~raced /\ FactorNext
        /\ UNCHANGED <<caseVars, sessionVars, rateVars, lockoutVars, boardingVars, feedbackVars>>
     \/ /\ part = "rate" /\ RateNext
        /\ UNCHANGED <<caseVars, sessionVars, factorVars, lockoutVars, boardingVars, feedbackVars>>
     \/ /\ part = "lockout" /\ LockoutNext
        /\ UNCHANGED <<caseVars, sessionVars, factorVars, rateVars, boardingVars, feedbackVars>>
     \/ /\ part = "board" /\ BoardNext
        /\ UNCHANGED <<caseVars, sessionVars, factorVars, rateVars, lockoutVars,
                       feedbackVars>>
     \/ /\ part = "feedback" /\ FeedbackNext
        /\ UNCHANGED <<caseVars, sessionVars, factorVars, rateVars, lockoutVars,
                       boardingVars>>

Spec == Init /\ [][Next]_vars

(* Requests and processes are interchangeable; parts that do not meet use  *)
(* the same values.                                                        *)
ActorSymmetry == {p @@ q : p \in Permutations(Call), q \in Permutations(Role)}
=============================================================================
