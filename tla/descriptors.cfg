SPECIFICATION Spec
CONSTANTS
    Handlers = {h1, h2}
    Callers = {c1}
    Names <- MCNames
    Kind <- MCKind
    Contents <- MCContents
    FilesIn <- MCFilesIn
    Puts <- MCPuts
    Uploads <- MCUploads
    Texts = {"text"}
    Services = {"Svc"}
    Nil = Nil
    Empty = Empty
    MaxGeneration = 2
INVARIANTS
    TypeOK
    GenerationNamesRegistry
    OneRegistry
    CopiesAgree
PROPERTIES
    RegistryByReset
SYMMETRY Symmetry
