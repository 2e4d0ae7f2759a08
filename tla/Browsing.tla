------------------------------ MODULE Browsing ------------------------------
(***************************************************************************)
(* What the page promises a visitor who opens one file after another: the  *)
(* file it works on is the one chosen last, the list is that file's, and   *)
(* what the viewer is given comes out of that file.  A file that cannot be *)
(* read leaves the page working on the one before, with nothing listed.    *)
(***************************************************************************)
CONSTANTS
    Files,          \* what can be chosen
    MembersOf(_),   \* what can come out of a file
    NoFile

VARIABLES
    chosen,     \* the file named at the top of the page
    current,    \* the file the page works on
    listed,     \* the file whose members are listed
    shown,      \* what the viewer was last given
    busy        \* a choice is being carried out

vars == <<chosen, current, listed, shown, busy>>

Init ==
    /\ chosen = NoFile
    /\ current = NoFile
    /\ listed = NoFile
    /\ shown = NoFile
    /\ busy = FALSE

Choose(f) ==
    /\ ~busy
    /\ chosen' = f
    /\ busy' = TRUE
    /\ listed' = NoFile
    /\ UNCHANGED <<current, shown>>

(* carried out: listed or not, and the viewer may be given the file or,    *)
(* when it is listed, one of its members                                   *)
Settle ==
    /\ busy
    /\ busy' = FALSE
    /\ current' = chosen
    /\ listed' \in {NoFile, chosen}
    /\ \/ shown' \in {shown, NoFile}
       \/ shown' = chosen
       \/ listed' = chosen /\ shown' \in MembersOf(chosen)
    /\ UNCHANGED chosen

(* not carried out: the catch in the change listener; the viewer may have  *)
(* been emptied by then                                                    *)
GiveUp ==
    /\ busy
    /\ busy' = FALSE
    /\ current' \in {current, chosen}
    /\ shown' \in {shown, NoFile}
    /\ UNCHANGED <<chosen, listed>>

Browse ==
    /\ ~busy
    /\ listed # NoFile
    /\ shown' \in MembersOf(listed) \cup {NoFile}
    /\ UNCHANGED <<chosen, current, listed, busy>>

Next ==
    \/ \E f \in Files : Choose(f)
    \/ Settle
    \/ GiveUp
    \/ Browse

Spec == Init /\ [][Next]_vars /\ WF_vars(Settle \/ GiveUp)
=============================================================================
