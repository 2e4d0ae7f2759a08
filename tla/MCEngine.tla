------------------------------ MODULE MCEngine ------------------------------
(* Three buffers: nothing at all, a document package (a zip the document   *)
(* reader recognises) and a gzip stream.  Every reader so meets a buffer   *)
(* it refuses, and two of them one they recognise.                         *)
EXTENDS EngineCalls

CONSTANTS nothing, docx, gz

MCInputs == {nothing, docx, gz}
MCEmpty == {nothing}
MCZips == {docx}
MCAccepts == [r \in Readers |->
    IF r = "document" THEN {docx} ELSE IF r = "stream" THEN {gz} ELSE {}]
=============================================================================
