SPECIFICATION Spec
CONSTANTS
    v0 = v0
    v1 = v1
    bad = bad
    t1 = t1
    t2 = t2
    none = none
    o0 = o0
    o1 = o1
    p0 = p0
    p1 = p1
    nothing = nothing
    Field <- MCField
    Value = {v0, v1}
    OutOfRange = bad
    FieldDefault <- MCFieldDefault
    Target = {t1, t2}
    NoTarget = none
    Option = {o0, o1}
    OptionDefault = o0
    Payload = {p0, p1}
    NoPayload = nothing
    PayloadDefault = p0
    Legacy <- MCLegacy
    MayDamageHeader = FALSE
INVARIANTS
    SavedIsLoaded
    TargetKept
PROPERTIES
    AnswerIsTrue
