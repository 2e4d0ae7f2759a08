------------------------- MODULE EngineCallsProofs --------------------------
(* apk-lens.wasm under any caller: any buffers, any order of calls.        *)
EXTENDS EngineCalls, EngineProofs

(* A call touches no slot but that of the reader it asks.                  *)
LEMMA ParsedTouchesOne ==
    ASSUME NEW e \in EngineStates, NEW r \in Readers, NEW b \in Inputs,
           NEW q \in Readers, q # r
    PROVE  Parsed(e, r, b).slot[q] = e.slot[q]
<1>1. Kept(e, r, b).slot[q] = e.slot[q]
  BY DEF Kept, EngineStates
<1>2. Rejected(e, r, b).slot[q] = e.slot[q]
  BY DEF Rejected, WithError, EngineStates
<1> QED
  BY <1>1, <1>2 DEF Parsed, WithError, EngineStates

(* And what it leaves in that one is its answer.                           *)
LEMMA ParsedAnswers ==
    ASSUME NEW e \in EngineStates, NEW r \in Readers \ {"stream"}, NEW b \in Inputs
    PROVE  Parsed(e, r, b).slot[r] =
               IF b \in Empty THEN e.slot[r]
               ELSE IF Recognised(r, b) THEN b ELSE None
<1>1. Kept(e, r, b).slot[r] = b
  BY DEF Kept, EngineStates
<1>2. Rejected(e, r, b).slot[r] = None
  BY DEF Rejected, WithError, EngineStates
<1> QED
  BY <1>1, <1>2 DEF Parsed, WithError, EngineStates

EngineInv == EngineTypeOK /\ SlotsAnswerLastQuestion

LEMMA EngineInvInductive ==
    ASSUME EngineInv, [EngineNext]_engineVars
    PROVE  EngineInv'
<1>1. eng \in EngineStates /\ heard \in [Readers -> Answers]
  BY DEF EngineInv, EngineTypeOK
<1>2. ASSUME NEW b \in Inputs, Open(b)
      PROVE  EngineInv'
  <2>1. eng' \in EngineStates
    BY <1>1, <1>2, OpenedKeeps DEF Open
  <2>2. eng'.slot = eng.slot
    BY <1>1, <1>2 DEF Open, Opened, WithError, EngineStates
  <2> QED
    BY <1>1, <1>2, <2>1, <2>2
    DEF Open, EngineInv, EngineTypeOK, SlotsAnswerLastQuestion, SlotAgrees
<1>3. ASSUME NEW r \in Readers, NEW b \in Inputs, Parse(r, b)
      PROVE  EngineInv'
  <2>1. eng' = Parsed(eng, r, b)
    BY <1>3 DEF Parse
  <2>2. eng' \in EngineStates
    BY <1>1, <2>1, ParsedKeeps
  <2>3. [src |-> b, ok |-> Recognised(r, b)] \in Answers
    BY DEF Answers, Source, Recognised
  <2>4. heard' \in [Readers -> Answers]
    BY <1>1, <1>3, <2>3 DEF Parse
  <2>5. ASSUME NEW q \in Readers \ {"stream"}
        PROVE  SlotAgrees(q)'
    <3>1. SlotAgrees(q)
      BY DEF EngineInv, SlotsAnswerLastQuestion
    <3>2. CASE q # r
      <4>1. eng'.slot[q] = eng.slot[q]
        BY <1>1, <2>1, <3>2, ParsedTouchesOne
      <4>2. heard'[q] = heard[q]
        BY <1>1, <1>3, <3>2 DEF Parse
      <4> QED
        BY <3>1, <4>1, <4>2 DEF SlotAgrees
    <3>3. CASE q = r /\ b \in Empty
      <4>1. eng'.slot[q] = eng.slot[q]
        BY <1>1, <2>1, <3>3, ParsedAnswers
      <4>2. heard' = heard
        BY <1>3, <3>3 DEF Parse
      <4> QED
        BY <3>1, <4>1, <4>2 DEF SlotAgrees
    <3>4. CASE q = r /\ b \notin Empty
      <4>1. eng'.slot[q] = IF Recognised(r, b) THEN b ELSE None
        BY <1>1, <2>1, <3>4, ParsedAnswers
      <4>2. heard'[q] = [src |-> b, ok |-> Recognised(r, b)]
        BY <1>1, <1>3, <3>4 DEF Parse
      <4> QED
        BY <4>1, <4>2 DEF SlotAgrees
    <3> QED
      BY <3>2, <3>3, <3>4
  <2> QED
    BY <2>2, <2>4, <2>5 DEF EngineInv, EngineTypeOK, SlotsAnswerLastQuestion
<1>4. CASE ExtractFails
  <2>1. eng.archive \in Source /\ "extract" \in Calls
    BY <1>1 DEF EngineStates, Calls
  <2>2. eng' = WithError(eng, "extract", eng.archive) /\ heard' = heard
    BY <1>4 DEF ExtractFails
  <2>3. eng' \in EngineStates
    BY <1>1, <2>1, <2>2, WithErrorKeeps
  <2>4. eng'.slot = eng.slot
    BY <1>1, <2>2 DEF WithError, EngineStates
  <2> QED
    BY <1>1, <2>2, <2>3, <2>4
    DEF EngineInv, EngineTypeOK, SlotsAnswerLastQuestion, SlotAgrees
<1>5. CASE ExtractTraps
  <2>1. eng' \in EngineStates /\ eng'.slot = eng.slot /\ heard' = heard
    BY <1>1, <1>5 DEF ExtractTraps, EngineStates
  <2> QED
    BY <1>1, <2>1 DEF EngineInv, EngineTypeOK, SlotsAnswerLastQuestion, SlotAgrees
<1>6. CASE UNCHANGED engineVars
  BY <1>6 DEF engineVars, EngineInv, EngineTypeOK, SlotsAnswerLastQuestion, SlotAgrees
<1> QED
  BY <1>2, <1>3, <1>4, <1>5, <1>6 DEF EngineNext

LEMMA EngineInvInitially == EngineInit => EngineInv
BY DEF EngineInit, EngineInv, EngineTypeOK, SlotsAnswerLastQuestion, SlotAgrees,
       Fresh, EngineStates, Answers, Source, Calls

(* The getters of every reader but the stream one answer for the buffer    *)
(* that reader was asked about last, whatever else was called in between.  *)
THEOREM SlotsAlwaysAnswer == EngineSpec => []SlotsAnswerLastQuestion
<1>1. EngineInv /\ [EngineNext]_engineVars => EngineInv'
  BY EngineInvInductive
<1>2. EngineInv => SlotsAnswerLastQuestion
  BY DEF EngineInv
<1> QED
  BY EngineInvInitially, <1>1, <1>2, PTL DEF EngineSpec

(* The engine's state keeps its shape.                                     *)
THEOREM EngineTypeCorrect == EngineSpec => []EngineTypeOK
<1>1. EngineInv /\ [EngineNext]_engineVars => EngineInv'
  BY EngineInvInductive
<1>2. EngineInv => EngineTypeOK
  BY DEF EngineInv
<1> QED
  BY EngineInvInitially, <1>1, <1>2, PTL DEF EngineSpec
=============================================================================
