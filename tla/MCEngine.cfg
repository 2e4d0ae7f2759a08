SPECIFICATION EngineSpec
CONSTANTS
    nothing = nothing
    docx = docx
    gz = gz
    None = None
    Inputs <- MCInputs
    Empty <- MCEmpty
    Zips <- MCZips
    Accepts <- MCAccepts
INVARIANT EngineTypeOK
INVARIANT SlotsAnswerLastQuestion
