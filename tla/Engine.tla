------------------------------- MODULE Engine -------------------------------
(***************************************************************************)
(* The C ABI of apk-lens.wasm (engine/src/lib.rs): one held archive, one   *)
(* answer slot per reader, one last-error text.  The module is a wasm      *)
(* instance built with panic = "abort": a call either returns or traps,    *)
(* and a trap leaves every thread-local exactly as it was at that moment,  *)
(* a mutable borrow included.                                              *)
(*                                                                         *)
(* Each operator below maps the engine's state before a call to its state  *)
(* after it, so that a page task can chain the calls it makes; EngineCalls *)
(* puts the module under an arbitrary caller.                              *)
(***************************************************************************)
EXTENDS Naturals, Sequences

CONSTANTS
    Inputs,     \* the byte buffers a caller may hand over
    Empty,      \* those of length zero
    Zips,       \* those ZipArchive::new reads
    Accepts,    \* Accepts[r]: those reader r recognises
    None        \* no buffer, an empty slot

Readers == {"pe", "dex", "axml", "document", "container", "audio", "stream"}

ASSUME EngineAssumption ==
    /\ None \notin Inputs
    /\ Empty \subseteq Inputs
    /\ Zips \subseteq Inputs \ Empty
    /\ Accepts \in [Readers -> SUBSET (Inputs \ Empty)]
    \* documents::parse begins by reading the buffer as a zip
    /\ Accepts["document"] \subseteq Zips

Calls == Readers \cup {"none", "open", "extract"}

Source == Inputs \cup {None}

EngineStates ==
    [archive : Source,               \* ARCHIVE
     borrowed : BOOLEAN,             \* a trap left ARCHIVE mutably borrowed
     slot : [Readers -> Source],     \* KIND and ENTRIES (or HEADER) of a reader
     error : [call : Calls, src : Source]]   \* LAST_ERROR: whose words, about what

Fresh ==
    [archive |-> None, borrowed |-> FALSE,
     slot |-> [r \in Readers |-> None],
     error |-> [call |-> "none", src |-> None]]

(* mutant: the two halves of the record change places                      *)
WithErrorSwapped(e, call, b) == [e EXCEPT !.error = [call |-> b, src |-> call]]

WithError(e, call, b) == [e EXCEPT !.error = [call |-> call, src |-> b]]

-----------------------------------------------------------------------------
(* open: a refusal says so and keeps the archive that was held; a success  *)
(* needs the borrow, so it never returns once a trap has kept it.          *)

OpenReturns(e, b) == b \in Zips => ~e.borrowed

(* mutant: the held archive is dropped before the new one is read          *)
OpenedAfterDrop(e, b) ==
    IF b \in Zips THEN [e EXCEPT !.archive = b]
    ELSE WithError([e EXCEPT !.archive = None], "open", b)

Opened(e, b) ==
    IF b \in Zips THEN [e EXCEPT !.archive = b] ELSE WithError(e, "open", b)

(* parse_<reader>: an empty buffer is turned away in lib.rs before the     *)
(* reader runs, so its slot stays.  A refusal inside a reader empties the  *)
(* slot and says why - except streams::parse, which returns its code and   *)
(* does neither.                                                           *)

Recognised(r, b) == b \in Accepts[r]

Kept(e, r, b) == [e EXCEPT !.slot[r] = b]

(* mutant: a refusal says why and leaves the rows standing                 *)
RejectedKeeping(e, r, b) == IF r = "stream" THEN e ELSE WithError(e, r, b)

(* mutant: every reader refuses the way streams::parse does, but clears    *)
RejectedSilently(e, r, b) ==
    IF r = "stream" THEN e ELSE [e EXCEPT !.slot[r] = None]

Rejected(e, r, b) ==
    IF r = "stream" THEN e
    ELSE WithError([e EXCEPT !.slot[r] = None], r, b)

Parsed(e, r, b) ==
    IF b \in Empty THEN WithError(e, r, b)
    ELSE IF Recognised(r, b) THEN Kept(e, r, b)
    ELSE Rejected(e, r, b)
=============================================================================
