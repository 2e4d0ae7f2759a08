--------------------------- MODULE ViewerPromise ----------------------------
(* The viewer as an implementation of Browsing, for a visitor who lets one *)
(* file finish opening before choosing the next (one ticket): the file at  *)
(* the top is `label`, the one worked on `picked`, the list and the viewer *)
(* are themselves, and a read in flight is what keeps the page busy.       *)
EXTENDS Viewer

Promise == INSTANCE Browsing WITH
    MembersOf <- Members, NoFile <- None,
    chosen <- label, current <- picked.file, listed <- entries,
    shown <- view.src, busy <- Waiting # {}

(* The promise and its liveness: an open that began is carried out or      *)
(* given up, whatever fails or traps under it.                             *)
KeepsPromise == Promise!Spec

(* The promise without liveness. *)
NeverBreaksPromise == Promise!Init /\ [][Promise!Next]_(Promise!vars)
=============================================================================
