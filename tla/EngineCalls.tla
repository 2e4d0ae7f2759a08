---------------------------- MODULE EngineCalls ----------------------------
(* apk-lens.wasm under any caller, which may make any call in any order.   *)
EXTENDS Engine

(* `heard` is a history variable: the last thing each reader was asked     *)
(* about and whether it recognised it, which is what the caller believes   *)
(* the getters answer for.                                                 *)

VARIABLES eng, heard

engineVars == <<eng, heard>>

Answers == [src : Source, ok : BOOLEAN]

EngineInit ==
    /\ eng = Fresh
    /\ heard = [r \in Readers |-> [src |-> None, ok |-> FALSE]]

Open(b) ==
    /\ OpenReturns(eng, b)
    /\ eng' = Opened(eng, b)
    /\ UNCHANGED heard

Parse(r, b) ==
    /\ eng' = Parsed(eng, r, b)
    \* an empty buffer is no question to the reader at all
    /\ heard' = IF b \in Empty THEN heard
                ELSE [heard EXCEPT ![r] = [src |-> b, ok |-> Recognised(r, b)]]

(* extract: a failed member says so; a call without an archive returns -2  *)
(* and leaves the older text standing.                                     *)
ExtractFails ==
    /\ ~eng.borrowed
    /\ eng.archive # None
    /\ eng' = WithError(eng, "extract", eng.archive)
    /\ UNCHANGED heard

(* a trap while by_index or read runs leaves the RefCell borrowed for good *)
ExtractTraps ==
    /\ ~eng.borrowed
    /\ eng.archive # None
    /\ eng' = [eng EXCEPT !.borrowed = TRUE]
    /\ UNCHANGED heard

EngineNext ==
    \/ \E b \in Inputs : Open(b)
    \/ \E r \in Readers, b \in Inputs : Parse(r, b)
    \/ ExtractFails
    \/ ExtractTraps

EngineSpec == EngineInit /\ [][EngineNext]_engineVars

-----------------------------------------------------------------------------
EngineTypeOK ==
    /\ eng \in EngineStates
    /\ heard \in [Readers -> Answers]

SlotAgrees(r) ==
    eng.slot[r] = IF heard[r].ok THEN heard[r].src ELSE None

(* What a reader's getters answer is what that reader said last: the rows  *)
(* of the buffer it recognised, nothing after it refused one - whatever    *)
(* the other readers, open and extract were asked in between.              *)
SlotsAnswerLastQuestion == \A r \in Readers \ {"stream"} : SlotAgrees(r)

(* The same of stream_kind, which lib.rs documents as "0 none": after      *)
(* parse_stream refused a buffer, no kind stands.                          *)
StreamAnswersLastQuestion == SlotAgrees("stream")
=============================================================================
