SPECIFICATION Spec
CONSTANTS
    Users = {u1, u2, u3}
    Keys = {k1}
    Names = {root, ann}
    Passwords = {first, second}
    Secrets = {s1}
    Calls = {c1, c2}
    Nobody = nobody
    Unset = unset
    Root = root
    RootPassword = first
    Mixes <- Together
SYMMETRY Symmetry
INVARIANT Consistent
PROPERTY OnlyEntitled
PROPERTY SettingsKept
