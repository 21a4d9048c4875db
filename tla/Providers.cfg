SPECIFICATION Spec

CONSTANTS
    Attempts = {a1, a2}
    Attachments = {b1}
    Last = 2
    Paths = {p, q}
    Providers = {mysql, openldap}
    WithPost = {mysql}
    Settings <- SmallSettings
    p = p
    q = q
    mysql = mysql
    openldap = openldap
    NoProvider = NoProvider
    NoPath = NoPath
    Objects = {o1, o2}
    NoObject = NoObject

SYMMETRY Interchangeable

INVARIANTS
    TypeOK
    DumpIsWhole
    DumpsRemoved

PROPERTIES
    DumpKept
