----------------------------- MODULE GuessLimits ----------------------------
(***************************************************************************)
(* What stands between a guesser and a user's account, side by side: the   *)
(* second factor, the lockout of the user name and the rate limit of the   *)
(* address.  They share no state, and any of them may take the next step.  *)
(***************************************************************************)
EXTENDS TwoFactor, RateLimit, Lockout

guessVars == <<factorVars, rateVars, lockoutVars>>

GuessInit == FactorInit /\ RateInit /\ LockoutInit

GuessNext ==
  \/ FactorNext /\ UNCHANGED <<rateVars, lockoutVars>>
  \/ RateNext /\ UNCHANGED <<factorVars, lockoutVars>>
  \/ LockoutNext /\ UNCHANGED <<factorVars, rateVars>>

GuessSpec == GuessInit /\ [][GuessNext]_guessVars

(* What stands against guessing: no code is accepted twice, and neither    *)
(* Redis away nor a worker restarted lets the rate limiter admit, nor a    *)
(* kill the lockout forget, more than the bounds each states.              *)
LimitsHold == UsedOnce /\ AdmittedBounded /\ AttemptsBounded
=============================================================================
