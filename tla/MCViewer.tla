------------------------------ MODULE MCViewer ------------------------------
(* Up to six files - an executable, an archive with a page, an image and a *)
(* broken member, an archive without a page, one with sizes refusedReason  *)
(* turns away, a COFF object, and bytes no reader knows - of which a run   *)
(* takes those its question needs.                                         *)
EXTENDS ViewerPromise

CONSTANTS
    exe, site, apk, bomb, coff, noise,              \* files
    image, page, draft, bad, setup, manifest, raw          \* members

MCInputs == Files \cup Items
MCZips == Files \cap {site, apk, bomb}
MCEntries == [f \in Archives |->
    SelectSeq(IF f = site THEN <<image, page, draft, bad>>
              ELSE IF f = apk THEN <<setup, manifest, raw>>
              ELSE <<>>, LAMBDA i : i \in Items)]
MCMagic == [b \in Inputs |->
    IF b = exe THEN "mz" ELSE IF b = manifest THEN "axml" ELSE "other"]
MCNamed == [i \in Items |->
    IF i \in {page, draft} THEN "html" ELSE IF i = image THEN "image"
    ELSE IF i = setup THEN "exe" ELSE "other"]
MCLinks == [i \in Items |-> Items \cap
    (IF i = page THEN {image} ELSE IF i = draft THEN {bad} ELSE {})]
MCBroken == Items \cap {bad}
MCRefused == Files \cap {bomb}
MCAccepts == [r \in Readers |-> Inputs \cap
    (CASE r = "pe" -> {exe}
       [] r = "axml" -> {manifest}
       [] r = "document" -> {apk}
       [] r = "container" -> {coff, raw}
       [] OTHER -> {})]
=============================================================================
