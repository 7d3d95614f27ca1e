SPECIFICATION MCSpec
CONSTANTS
    Clients = {c1, c2, c3}
    Emails = {e1, e2}
    Ids = {u1, u2, u3}
    None = None
    AuthClients = {c1, c2}
    AuthEmails = {e1}
    AuthIds = {u1, u2}
    AccessExpiry = 2
    RefreshExpiry = 1
    RefreshKept = 1
    MaxTime = 2
INVARIANTS
    TypeOK
    IndexIsSound
    OneUserPerEmail
    AuthTypeOK
    AuthIndexIsSound
    

    
CHECK_DEADLOCK FALSE
