\* One browser with other tabs, two users, two requests at a time.
SPECIFICATION UsersSpec
CONSTANTS
    Sessions = {s1}
    Users = {u1, u2}
    Nobody = Nobody
    Here = s1
    Loans = {l1, l2}
    Calls = {c1, c2}
INVARIANTS
    SessionsHaveUser
    OneOwner
    ShowsItsUsers
PROPERTY
    AcceptedIsShown

