SPECIFICATION Spec
CONSTANTS
    N = 3
    f = f
    g = g
    upload = upload
    complete = complete
    complete2 = complete2
    exec1 = exec1
    exec2 = exec2
    map1 = map1
    map2 = map2
    check1 = check1
    commit1 = commit1
    FieldMaps = {f, g}
    Sound <- SoundRows
    Identity <- IdentityOf
    Uploads = {upload}
    Completions = {complete}
    Executions = {exec1, exec2}
    Mappings = {map1, map2}
    Validations = {check1}
    Commits = {commit1}
    Wanted <- WantedMaps
    Existing <- ExistingKeys
    Chunk = 2
    Overlapping = FALSE
    Faults = TRUE
    Doomed = {upload, complete, exec1, exec2, map1, map2, check1, commit1}
    NoMap = NoMap
    NoKey = NoKey
    Nobody = Nobody
INVARIANTS
    ImportTypeOK
    StagedIsWholeFile
    RowsAreMapped
    ValidatedIsChecked
    WrittenRowsAreSound
    NoTwoOfAKey
PROPERTIES
    CommittedRowIsFrozen
    JobImplementsLedger
CHECK_DEADLOCK FALSE
