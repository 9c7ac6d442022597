---------------------------- MODULE MCWebLibrary ----------------------------
(* Three versions on the server, at most four rows in the table, two drops.          *)
EXTENDS WebLibrary

MCVersions == {<<"r1", "r2", "r3", "r4">>, <<"r0", "r1", "r2">>, <<"r1">>, <<>>}
MCMatching == {"r0", "r2", "r4"}
=============================================================================
