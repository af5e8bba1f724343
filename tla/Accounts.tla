-------------------------------- MODULE Accounts -------------------------------
(* The installation's accounts: the scripts of MODULE Setup create them while   *)
(* the requests of MODULE Sessions are served to whoever has one, and people    *)
(* switch users, memberships, customers and tenants off and on.                 *)
EXTENDS Sessions, Setup

vars == <<tableVars, sessionVars, setupVars>>

(* What is there at first, the script that each operator may start, who may     *)
(* sign in, and the bound on switches.                                          *)
CONSTANT Installations

ASSUME InstallationsAssumption ==
    \A i \in Installations :
        /\ i.script \in [Operators -> Seq(AnyTask)]
        /\ \A r \in DOMAIN i.rows : i.rows[r] \in Row

Init ==
    /\ SessionsInit
    /\ turned = {}
    /\ SetupInit
    /\ installation \in Installations
    /\ rows = [r \in Rows |-> IF r \in DOMAIN installation.rows
                              THEN installation.rows[r] ELSE None]

Scripts == SetupNext /\ UNCHANGED sessionVars
Requests == SessionsNext /\ UNCHANGED setupVars

Next == Scripts \/ Requests
Spec == Init /\ [][Next]_vars

(* The server answers what it was asked.  Nobody has to browse, to start a       *)
(* script or to let it end.                                                     *)
FairSpec == Spec /\ WF_vars(Answer /\ UNCHANGED setupVars)
=============================================================================
