---------------------------- MODULE MC_Console ----------------------------
(* A small console: four effect runs of a terminal, four connect() calls of
   a desktop, three starts of an RDP display, three files on two upload
   slots. *)
EXTENDS Console

CONSTANTS f1, f2, f3, dir

MCBatches == {<<f1, f2>>, <<f3>>}

\* The last file finds its directory made or in the making; the second needs none.
MCDirOf == f1 :> dir @@ f2 :> NoDir @@ f3 :> dir

=============================================================================
