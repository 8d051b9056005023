SPECIFICATION Spec
CONSTANTS
    u1 = u1
    u2 = u2
    u3 = u3
    Users = {u1, u2, u3}
    Ids <- ids
    Names <- names
    Blank = ""
    Fold <- fold
    Entries <- entries
    Rosters <- rosters
    Accounts <- accounts
INVARIANT TypeOK
INVARIANT IdOrNameHeldOnce
INVARIANT NeverMixed
