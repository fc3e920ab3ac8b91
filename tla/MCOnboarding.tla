---------------------------- MODULE MCOnboarding ----------------------------
(* Small instances of Onboarding for TLC.                                   *)
EXTENDS Onboarding, TLC

OnboardingSymmetry ==
    Permutations(Request) \cup Permutations(Worker) \cup Permutations(Documents)
=============================================================================
