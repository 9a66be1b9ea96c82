CONSTANTS
    ann = ann bob = bob sAnn = sAnn sBob = sBob sAnn2 = sAnn2 layer = layer
    attr = attr xform = xform prim = prim value = value
    Clients = {ann, bob}
    Sessions = {sAnn, sBob}
    ClientOf <- OneSessionEach
    Layers = {layer}
    Paths = {prim}
    Keys = {PrimChildren}
    XformOps = {}
    PrimChildren = PrimChildren
    TypeName = TypeName
    None = None
    File <- OneFile
    Unserializable = {}
    NoSession = NoSession
    MaxEdits = 2
    MaxReloads = 0
    MayRemove = FALSE
    FieldsOf <- FieldsByPath
    Discipline <- AllFree
    Reloaders = {}
    Leavers = {}
    NoticedFirst = TRUE
    OpenedFirst = {layer}
SPECIFICATION Spec
INVARIANT BothEditsKept
