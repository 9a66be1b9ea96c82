CONSTANTS
    ann = ann bob = bob sAnn = sAnn sBob = sBob sAnn2 = sAnn2 layer = layer
    attr = attr xform = xform prim = prim value = value
    Clients = {ann, bob}
    Sessions = {sAnn, sBob}
    ClientOf <- OneSessionEach
    Layers = {layer}
    Paths = {attr, xform, prim}
    Keys = {value, PrimChildren, TypeName}
    XformOps = {xform}
    PrimChildren = PrimChildren
    TypeName = TypeName
    None = None
    File <- OneFile
    Unserializable = {}
    NoSession = NoSession
    MaxEdits = 3
    MaxReloads = 0
    MayRemove = TRUE
    FieldsOf <- FieldsByPath
    Discipline <- Careful
    Reloaders = {}
    Leavers = {}
    NoticedFirst = TRUE
    OpenedFirst = {layer}
SPECIFICATION Spec
INVARIANT TypeOK
INVARIANT MaskHasCause
INVARIANT DataConsistency
PROPERTY ImplementsSharedLog
SYMMETRY Alike
