CONSTANTS
    ann = ann bob = bob sAnn = sAnn sBob = sBob sAnn2 = sAnn2 layer = layer
    attr = attr xform = xform prim = prim value = value
    Clients = {ann, bob}
    Sessions = {sAnn, sBob}
    ClientOf <- OneSessionEach
    Layers = {layer}
    Paths = {attr}
    Keys = {value}
    XformOps = {}
    PrimChildren = PrimChildren
    TypeName = TypeName
    None = None
    File <- OneFile
    Unserializable = {}
    NoSession = NoSession
    MaxEdits = 3
    MaxReloads = 1
    MayRemove = TRUE
    FieldsOf <- FieldsByPath
    Discipline <- AllFree
    Reloaders = {ann}
    Leavers = {}
    NoticedFirst = TRUE
    OpenedFirst = {layer}
SPECIFICATION Spec
INVARIANT EveryoneStartsAfresh
