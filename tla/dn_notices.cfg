SPECIFICATION FairSpec
CONSTANTS
    c1 = c1
    c2 = c2
    m1 = m1
    m2 = m2
    p1 = p1
    Collectors = {c1, c2}
    Messages = {m1, m2}
    Scenes <- MCScenes
    Denials <- MCDenials
    Drafted <- MCDrafted
    NoteOf <- MCNoteOf
    Owner <- MCOwner
    Session <- MCSession
    Calls = {p1}
    Users = {"u"}
    GroupsOf <- MCGroupsOf
    Toggles <- MCToggles
    Errors = Errors
    Cacher = Cacher
    None = None
    Limit = 1
    Batch = 1
INVARIANTS
    CountsAreBacked
    NoDenialIsLost
PROPERTIES
    SettingsSurvive
    
    StandingDenialsAreShown
