---------------------------- MODULE MCHostUpdate ----------------------------
(* Every tool once, and one of them a second time.  Two of the three files *)
(* are exchanged by "sources", one of them after "selftest" exchanged it.  *)
EXTENDS HostUpdate

SomeAttempts ==
    {<<"migrate", 1>>, <<"stage", 1>>, <<"selftest", 1>>,
     <<"selftest", 2>>, <<"sources", 1>>}
ThreeFiles == <<"apply", "coordinator", "selftest">>
TwoTargets == <<"coordinator", "selftest">>
=============================================================================
