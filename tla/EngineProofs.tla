---------------------------- MODULE EngineProofs ----------------------------
(* What each call on the engine keeps of its state, for the proofs about   *)
(* an arbitrary caller (EngineCallsProofs) and about the page.             *)
EXTENDS Engine, TLAPS

LEMMA WithErrorKeeps ==
    ASSUME NEW e \in EngineStates, NEW call \in Calls, NEW b \in Source
    PROVE  /\ WithError(e, call, b) \in EngineStates
           /\ WithError(e, call, b).archive = e.archive
BY DEF WithError, EngineStates

LEMMA ParsedKeeps ==
    ASSUME NEW e \in EngineStates, NEW r \in Readers, NEW b \in Inputs
    PROVE  /\ Parsed(e, r, b) \in EngineStates
           /\ Parsed(e, r, b).archive = e.archive
<1>1. b \in Source /\ None \in Source /\ r \in Calls
  BY DEF Source, Calls
<1>2. /\ Kept(e, r, b) \in EngineStates
      /\ Kept(e, r, b).archive = e.archive
  BY <1>1 DEF Kept, EngineStates
<1>3. /\ [e EXCEPT !.slot[r] = None] \in EngineStates
      /\ [e EXCEPT !.slot[r] = None].archive = e.archive
  BY <1>1 DEF EngineStates
<1>4. /\ Rejected(e, r, b) \in EngineStates
      /\ Rejected(e, r, b).archive = e.archive
  BY <1>1, <1>3, WithErrorKeeps DEF Rejected
<1> QED
  BY <1>1, <1>2, <1>4, WithErrorKeeps DEF Parsed

LEMMA OpenedKeeps ==
    ASSUME NEW e \in EngineStates, NEW b \in Inputs
    PROVE  /\ Opened(e, b) \in EngineStates
           /\ b \in Zips => Opened(e, b).archive = b
           /\ b \notin Zips => Opened(e, b).archive = e.archive
<1>1. b \in Source /\ "open" \in Calls
  BY DEF Source, Calls
<1>2. CASE b \in Zips
  BY <1>1, <1>2 DEF Opened, EngineStates
<1>3. CASE b \notin Zips
  BY <1>1, <1>3, WithErrorKeeps DEF Opened
<1> QED
  BY <1>2, <1>3
=============================================================================
