---------------------------- MODULE AuthService ----------------------------
(***************************************************************************)
(* services/auth-service: accounts, sessions and revoked tokens in Redis.  *)
(* A handler gives way at every await, and time passes while it does.  A   *)
(* token is signed for a user and the second it is issued in, so two of    *)
(* one second are the same token.                                          *)
(***************************************************************************)
EXTENDS Integers

CONSTANTS
    Clients,            \* requests that may be in flight at once
    Emails, Ids, None,
    AccessExpiry,       \* JWT_ACCESS_EXPIRY
    RefreshExpiry,      \* JWT_REFRESH_EXPIRY
    RefreshKept,        \* EX of refresh:{userId}, fixed at seven days
    MaxTime             \* how far the clock runs (bound)

VARIABLES
    now,
    users, index,   \* user:{id} and user:email:{email}
    used,           \* history: ids drawn so far
    refresh,        \* refresh:{id}: [iat, until], or None
    blacklist,      \* blacklist:{token}: until when, or 0
    access,         \* history: access tokens issued
    loggedOut,      \* history: access tokens whose logout was confirmed
    at              \* where each request is

accounts == <<users, index, used>>

sessions == <<refresh, blacklist, access, loggedOut>>

vars == <<now, accounts, sessions, at>>

Times == 0 .. MaxTime

Tokens == [user : Ids, iat : Times]

\* Mutant of Token: the token is stamped with its expiry.
TokenOfExpiry(id, iat) == [user |-> id, iat |-> iat + AccessExpiry]

Token(id, iat) == [user |-> id, iat |-> iat]

Expiry(t) == t.iat + AccessExpiry

Idle == [op |-> "idle"]

Steps ==
    {Idle} \union [op : {"store", "index"}, email : Emails, id : Ids]
        \union [op : {"login"}, token : Tokens]
        \union [op : {"logout"}, token : Tokens, ttl : Int]
        \union [op : {"verify"}, token : Tokens, after : BOOLEAN]

Init ==
    /\ now = 0
    /\ users = [id \in Ids |-> None]
    /\ index = [e \in Emails |-> None]
    /\ used = {}
    /\ refresh = [id \in Ids |-> None]
    /\ blacklist = [t \in Tokens |-> 0]
    /\ access = {}
    /\ loggedOut = {}
    /\ at = [c \in Clients |-> Idle]

Go(c, step) == at' = [at EXCEPT ![c] = step]

Starts(c, step) == at[c] = Idle /\ Go(c, step)

Tick == now < MaxTime /\ now' = now + 1 /\ UNCHANGED <<accounts, sessions, at>>

-----------------------------------------------------------------------------

\* The email is looked up, an id drawn and the password hashed.
RegisterChecks(c, e, id) ==
    /\ index[e] = None
    /\ id \notin used
    /\ Starts(c, [op |-> "store", email |-> e, id |-> id])
    /\ used' = used \union {id}
    /\ UNCHANGED <<now, users, index, sessions>>

\* Mutant of RegisterStores: the index is written before the record.
IndexFirst(c) ==
    /\ at[c].op = "store"
    /\ index' = [index EXCEPT ![at[c].email] = at[c].id]
    /\ Go(c, [at[c] EXCEPT !.op = "index"])
    /\ UNCHANGED <<now, users, used, sessions>>

RegisterStores(c) ==
    /\ at[c].op = "store"
    /\ users' = [users EXCEPT ![at[c].id] = at[c].email]
    /\ Go(c, [at[c] EXCEPT !.op = "index"])
    /\ UNCHANGED <<now, index, used, sessions>>

RegisterIndexes(c) ==
    /\ at[c].op = "index"
    /\ index' = [index EXCEPT ![at[c].email] = at[c].id]
    /\ Go(c, Idle)
    /\ UNCHANGED <<now, users, used, sessions>>

\* The user is found, the password fits, the tokens are signed.
LoginSigns(c, e) ==
    /\ index[e] # None
    /\ users[index[e]] # None
    /\ Starts(c, [op |-> "login", token |-> Token(index[e], now)])
    /\ UNCHANGED <<now, accounts, sessions>>

LoginStores(c) ==
    /\ at[c].op = "login"
    /\ refresh' = [refresh EXCEPT ![at[c].token.user] =
                      [iat |-> at[c].token.iat, until |-> now + RefreshKept]]
    /\ access' = access \union {at[c].token}
    /\ Go(c, Idle)
    /\ UNCHANGED <<now, accounts, blacklist, loggedOut>>

\* The refresh token of a login at iat is neither expired nor replaced.
Refresh(id, iat) ==
    /\ refresh[id] # None
    /\ refresh[id].iat = iat
    /\ now < refresh[id].until
    /\ now < iat + RefreshExpiry
    /\ access' = access \union {Token(id, now)}
    /\ UNCHANGED <<now, accounts, refresh, blacklist, loggedOut, at>>

\* The token is not on the blacklist.
VerifyLooksUp(c, t) ==
    /\ now >= blacklist[t]
    /\ Starts(c, [op |-> "verify", token |-> t, after |-> t \in loggedOut])
    /\ UNCHANGED <<now, accounts, sessions>>

\* jwt.verify.
VerifyAnswers(c) ==
    /\ at[c].op = "verify"
    /\ Go(c, Idle)
    /\ UNCHANGED <<now, accounts, sessions>>

LogoutComputes(c, t) ==
    /\ Starts(c, [op |-> "logout", token |-> t, ttl |-> Expiry(t) - now])
    /\ UNCHANGED <<now, accounts, sessions>>

\* Mutant of LogoutStores: a token about to expire is not worth an entry.
LogoutSkipsLast(c) ==
    /\ at[c].op = "logout"
    /\ blacklist' = IF at[c].ttl > 1
                    THEN [blacklist EXCEPT ![at[c].token] = now + at[c].ttl] ELSE blacklist
    /\ loggedOut' = loggedOut \union {at[c].token}
    /\ Go(c, Idle)
    /\ UNCHANGED <<now, accounts, refresh, access>>

LogoutStores(c) ==
    /\ at[c].op = "logout"
    /\ blacklist' = IF at[c].ttl > 0
                    THEN [blacklist EXCEPT ![at[c].token] = now + at[c].ttl] ELSE blacklist
    /\ loggedOut' = loggedOut \union {at[c].token}
    /\ Go(c, Idle)
    /\ UNCHANGED <<now, accounts, refresh, access>>

\* Redis fails, or the service stops, in the middle of a request.
Abandon(c) == at[c] # Idle /\ Go(c, Idle) /\ UNCHANGED <<now, accounts, sessions>>

Next ==
    \/ Tick
    \/ \E id \in Ids, iat \in Times : Refresh(id, iat)
    \/ \E c \in Clients :
          \/ \E e \in Emails : LoginSigns(c, e) \/ \E id \in Ids : RegisterChecks(c, e, id)
          \/ \E t \in access : VerifyLooksUp(c, t) \/ LogoutComputes(c, t)
          \/ RegisterStores(c) \/ RegisterIndexes(c) \/ LoginStores(c)
          \/ VerifyAnswers(c) \/ LogoutStores(c) \/ Abandon(c)

Spec == Init /\ [][Next]_vars

-----------------------------------------------------------------------------

\* Every variable keeps its type; in particular no token is kept, blacklisted
\* or presented that was not issued.
TypeOK ==
    /\ now \in Times
    /\ users \in [Ids -> Emails \union {None}]
    /\ index \in [Emails -> Ids \union {None}]
    /\ used \subseteq Ids
    /\ refresh \in [Ids -> [iat : Times, until : Nat] \union {None}]
    /\ blacklist \in [Tokens -> Nat]
    /\ access \subseteq Tokens
    /\ loggedOut \subseteq access
    /\ at \in [Clients -> Steps]

\* A login that finds a user by email finds the record too, and that of the
\* same email, although registration writes the two keys one by one and may
\* stop in between or be under way twice.
IndexIsSound ==
    \A e \in Emails : index[e] # None => users[index[e]] = e

\* A token whose logout was confirmed is refused from then on: it stays on the
\* blacklist until it expires, whenever the entry was written and however late
\* the answer of a verification that began after the logout is given.
LoggedOutIsRefused ==
    /\ \A t \in loggedOut : now < Expiry(t) => now < blacklist[t]
    /\ \A c \in Clients :
          at[c].op = "verify" /\ at[c].after => now >= Expiry(at[c].token)
=============================================================================
