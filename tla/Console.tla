------------------------------ MODULE Console ------------------------------
(***************************************************************************)
(* The web console: a terminal tab, a remote desktop tab of either kind    *)
(* and the desktop's upload queue.  They share no state that any of them   *)
(* writes but the access token, which only uploads wait for here; so their *)
(* interleavings add nothing, and a behaviour of the console is one of a   *)
(* part that is in use while the others have not been opened.              *)
(***************************************************************************)
EXTENDS Terminal, Desktop, RdpDisplay, DriveTransfers

consoleVars == <<termVars, deskVars, rdpVars, driveVars>>

Init == TermInit /\ DeskInit /\ RdpInit /\ DriveInit

UsesTerminal ==
    DeskInit /\ RdpInit /\ DriveInit /\ TermNext /\ UNCHANGED <<deskVars, rdpVars, driveVars>>

UsesDesktop ==
    TermInit /\ RdpInit /\ DriveInit /\ DeskNext /\ UNCHANGED <<termVars, rdpVars, driveVars>>

UsesRdp ==
    TermInit /\ DeskInit /\ DriveInit /\ RdpNext /\ UNCHANGED <<termVars, deskVars, driveVars>>

UsesDrive ==
    TermInit /\ DeskInit /\ RdpInit /\ DriveNext /\ UNCHANGED <<termVars, deskVars, rdpVars>>

Next == UsesTerminal \/ UsesDesktop \/ UsesRdp \/ UsesDrive

\* A part that has not been opened owes nothing.
Spec == Init /\ [][Next]_consoleVars /\ TermFairness /\ DeskFairness /\ DriveFairness

\* The state of the terminal, of the desktops and of the upload queue keeps its
\* shape: see TermTypeOK, DeskTypeOK, RdpTypeOK and DriveTypeOK.
TypeOK == TermTypeOK /\ DeskTypeOK /\ RdpTypeOK /\ DriveTypeOK

\* No part of the console leaves its user waiting for ever: a terminal and a
\* desktop connect, give up or say what failed, and a queue of uploads drains or
\* the page asks for a login (the countdowns of the tabs, the queue's pump).
EveryWaitEnds == ConnectingSettles /\ DeskSettles /\ QueueDrains

=============================================================================
