---------------------------- MODULE LfsrSessions ----------------------------
(***************************************************************************)
(* The pattern generator through whole sessions: the load of the seed,     *)
(* then Loads chain loads of LoadLength shifts each (LoadLength = 153 and  *)
(* Loads = 10000 in bist_controller.vhd), and again.                       *)
(***************************************************************************)
EXTENDS Lfsr

CONSTANTS LoadLength, Loads

VARIABLE shifts   \* history: shifts since the seed was loaded

sessionVars == <<ff_output, shifts>>

SeedLoaded == ff_output = Seed /\ shifts = 0

FreeRun == /\ shifts < LoadLength * Loads
           /\ Clock(1, 1, 0)
           /\ shifts' = shifts + 1

Reload == /\ shifts = LoadLength * Loads
          /\ Clock(1, 0, 1)
          /\ shifts' = 0

SessionsNext == FreeRun \/ Reload

Period == 2 ^ W - 1

\* The feedback polynomial is primitive: the generator goes through every word
\* but the zero word before it comes back to its seed.  A session shifts more
\* often than that; but the period is no multiple of LoadLength, so no load
\* starts from the seed again, and as the shift is injective, no two loads
\* start alike.
MaximalPeriod == ff_output = Seed <=> shifts % Period = 0
=============================================================================
