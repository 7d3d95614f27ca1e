--------------------------- MODULE Accounts_proofs ---------------------------
(***************************************************************************)
(* What holds of the two services for any requests, emails, ids and times: *)
(* the email index names only what is stored, deleted users stay deleted,  *)
(* and a token that was logged out is refused.                             *)
(***************************************************************************)
EXTENDS MCAccounts, TLAPS

-----------------------------------------------------------------------------
(* The user service.                                                       *)

Busy(c) == at[c] # Idle

Holds(c) == at[c].op \in {"update", "delete"}

\* What is stored was drawn, and what was drawn is not drawn again.
Drawn == \A id \in Ids : users[id] # None => id \in used

\* Two requests that are at one email have been noticed.
Noticed ==
    \A c, d \in Clients :
        c # d /\ Busy(c) /\ Busy(d) /\ at[c].email = at[d].email
            => at[c].email \in contested

\* Requests that have read one user have read one email: it never changes.
Agreed ==
    \A c, d \in Clients : Holds(c) /\ Holds(d) /\ at[c].id = at[d].id => at[c].email = at[d].email

\* What a request has read is out of date only if the user is gone, and that
\* only if somebody else was at the email.
Fit ==
    \A c \in Clients :
        /\ at[c].op = "create" /\ at[c].email \notin contested => index[at[c].email] = None
        /\ Holds(c) => /\ at[c].id \in used
                       /\ users[at[c].id] \in {None, at[c].email}
                       /\ at[c].email \notin contested => users[at[c].id] = at[c].email

UserInv == TypeOK /\ IndexIsSound /\ OneUserPerEmail /\ Drawn /\ Noticed /\ Agreed /\ Fit

LEMMA UserInitHolds == Init => UserInv
  BY NoneAssumption
  DEF Init, UserInv, TypeOK, IndexIsSound, OneUserPerEmail, Drawn, Noticed, Agreed, Fit,
      Busy, Holds, Idle, Steps

\* A request that begins at an email leaves the store alone.
LEMMA StartKeeps ==
    ASSUME UserInv, NEW c \in Clients, NEW e \in Emails, NEW step \in Steps,
           step # Idle, step.email = e, Start(c, e, step),
           step.op = "create" => index[e] = None,
           step.op \in {"update", "delete"} => users[step.id] = e
    PROVE  UserInv'
<1> USE DEF UserInv, Start
<1>1. TypeOK'
  BY DEF TypeOK
<1>2. IndexIsSound' /\ OneUserPerEmail' /\ Drawn'
  BY DEF IndexIsSound, OneUserPerEmail, Drawn
<1>3. at' = [at EXCEPT ![c] = step] /\ at \in [Clients -> Steps] /\ contested \subseteq contested'
  BY DEF TypeOK
<1>4. Noticed'
  BY <1>3 DEF Noticed, Busy
<1>5. Agreed'
  BY <1>3, NoneAssumption DEF Agreed, Fit, Holds, Idle, Steps
<1>6. Fit'
  BY <1>3, NoneAssumption DEF Fit, Holds, Drawn, Idle, Steps
<1>7. QED
  BY <1>1, <1>2, <1>4, <1>5, <1>6

\* A request that ends is at no email any more.
LEMMA EndKeeps ==
    ASSUME UserInv, NEW c \in Clients, Done(c)
    PROVE  /\ at' \in [Clients -> Steps]
           /\ at' = [at EXCEPT ![c] = Idle]
           /\ Noticed'
           /\ Agreed'
<1>1. at' = [at EXCEPT ![c] = Idle] /\ at \in [Clients -> Steps]
  BY DEF UserInv, TypeOK, Done
<1>2. at' \in [Clients -> Steps]
  BY <1>1 DEF Steps
<1>3. Noticed'
  BY <1>1 DEF UserInv, Noticed, Busy, Done
<1>4. Agreed'
  BY <1>1 DEF UserInv, Agreed, Holds, Idle
<1>5. QED
  BY <1>1, <1>2, <1>3, <1>4

LEMMA CreateKeeps ==
    ASSUME UserInv, NEW c \in Clients, NEW id \in Ids, CreateWrites(c, id)
    PROVE  UserInv'
<1> DEFINE e == at[c].email
<1>1. e \in Emails /\ id \notin used /\ users[id] = None
  BY DEF UserInv, TypeOK, Drawn, Steps, CreateWrites, Fresh, Idle
<1>2. /\ users' = [users EXCEPT ![id] = e]
      /\ index' = [index EXCEPT ![e] = id]
      /\ used' = used \union {id}
      /\ contested' = contested
      /\ Done(c)
  BY DEF CreateWrites, Done
<1>3. TypeOK'
  BY <1>1, <1>2, EndKeeps DEF UserInv, TypeOK
<1>4. IndexIsSound'
  BY <1>1, <1>2, NoneAssumption DEF UserInv, TypeOK, IndexIsSound
<1>5. e \notin contested => \A i \in Ids : users[i] # e
  BY <1>1, NoneAssumption DEF UserInv, Fit, OneUserPerEmail, CreateWrites
<1>6. OneUserPerEmail'
  BY <1>1, <1>2, <1>5, NoneAssumption DEF UserInv, TypeOK, OneUserPerEmail
<1>7. Drawn'
  BY <1>1, <1>2 DEF UserInv, TypeOK, Drawn
<1>8. Fit'
  <2> SUFFICES ASSUME NEW d \in Clients PROVE Fit!(d)'
    BY DEF Fit
  <2>1. CASE d = c
    BY <2>1, EndKeeps, <1>2 DEF UserInv, TypeOK, Holds, Idle
  <2>2. CASE d # c
    <3>1. at'[d] = at[d]
      BY <2>2, EndKeeps, <1>2 DEF UserInv, TypeOK
    <3>2. Busy(c)
      BY DEF CreateWrites, Busy, Idle
    <3>3. at[d].op = "create" /\ at[d].email \notin contested => at[d].email # e
      BY <2>2, <3>2 DEF UserInv, Noticed, Busy, Idle
    <3>4. Holds(d) => at[d].id # id /\ at[d].id \in Ids
      BY <1>1 DEF UserInv, TypeOK, Fit
    <3>5. QED
      BY <3>1, <3>3, <3>4, <1>1, <1>2 DEF UserInv, TypeOK, Fit, Holds, Steps, Idle
  <2>3. QED
    BY <2>1, <2>2
<1>9. QED
  BY <1>2, <1>3, <1>4, <1>6, <1>7, <1>8, EndKeeps DEF UserInv

LEMMA UpdateKeeps ==
    ASSUME UserInv, NEW c \in Clients, UpdateWrites(c)
    PROVE  /\ UserInv'
           /\ \A id \in used :
                 users[id] = None /\ users'[id] # None => users'[id] \in contested
<1> DEFINE e == at[c].email
           id == at[c].id
<1>1. e \in Emails /\ id \in Ids /\ Holds(c) /\ Busy(c)
  BY DEF UserInv, TypeOK, Steps, UpdateWrites, Idle, Holds, Busy
<1>2. /\ users' = [users EXCEPT ![id] = e]
      /\ UNCHANGED <<index, used, contested>>
      /\ Done(c)
  BY DEF UpdateWrites, Done
<1>3. /\ id \in used
      /\ users[id] \in {None, e}
      /\ e \notin contested => users[id] = e
  BY <1>1 DEF UserInv, Fit
<1>4. TypeOK'
  BY <1>1, <1>2, EndKeeps DEF UserInv, TypeOK
<1>5. IndexIsSound'
  BY <1>1, <1>2, <1>3, NoneAssumption DEF UserInv, TypeOK, IndexIsSound
<1>6. OneUserPerEmail'
  <2> SUFFICES ASSUME NEW f \in Emails \ contested, NEW i \in Ids
               PROVE  users'[i] = f <=> index[f] = i
    BY <1>2 DEF OneUserPerEmail
  <2>1. users[i] = f <=> index[f] = i
    BY DEF UserInv, OneUserPerEmail
  <2>2. CASE i # id
    BY <2>1, <2>2, <1>2 DEF UserInv, TypeOK
  <2>3. CASE i = id
    BY <2>1, <2>3, <1>1, <1>2, <1>3, NoneAssumption DEF UserInv, TypeOK
  <2>4. QED
    BY <2>2, <2>3
<1>7. Drawn'
  BY <1>1, <1>2, <1>3 DEF UserInv, TypeOK, Drawn
<1>8. Fit'
  <2> SUFFICES ASSUME NEW d \in Clients PROVE Fit!(d)'
    BY DEF Fit
  <2>1. CASE d = c
    BY <2>1, EndKeeps, <1>2 DEF UserInv, TypeOK, Holds, Idle
  <2>2. CASE d # c
    <3>1. at'[d] = at[d]
      BY <2>2, EndKeeps, <1>2 DEF UserInv, TypeOK
    <3>2. Holds(d) /\ at[d].id = id => at[d].email = e
      BY <1>1 DEF UserInv, Agreed
    <3>3. QED
      BY <3>1, <3>2, <1>1, <1>2 DEF UserInv, TypeOK, Fit, Holds
  <2>3. QED
    BY <2>1, <2>2
<1>9. QED
  BY <1>1, <1>2, <1>3, <1>4, <1>5, <1>6, <1>7, <1>8, EndKeeps, NoneAssumption DEF UserInv, TypeOK

LEMMA DeleteKeeps ==
    ASSUME UserInv, NEW c \in Clients, DeleteWrites(c)
    PROVE  UserInv'
<1> DEFINE e == at[c].email
           id == at[c].id
<1>1. e \in Emails /\ id \in Ids /\ Holds(c) /\ Busy(c)
  BY DEF UserInv, TypeOK, Steps, DeleteWrites, Idle, Holds, Busy
<1>2. /\ users' = [users EXCEPT ![id] = None]
      /\ index' = [index EXCEPT ![e] = None]
      /\ UNCHANGED <<used, contested>>
      /\ Done(c)
  BY DEF DeleteWrites, Done
<1>3. /\ users[id] \in {None, e}
      /\ e \notin contested => users[id] = e
  BY <1>1 DEF UserInv, Fit
<1>4. TypeOK'
  BY <1>1, <1>2, EndKeeps DEF UserInv, TypeOK
<1>5. \A f \in Emails : f # e => index[f] # id
  BY <1>1, <1>3, NoneAssumption DEF UserInv, IndexIsSound
<1>6. IndexIsSound'
  BY <1>1, <1>2, <1>5, NoneAssumption DEF UserInv, TypeOK, IndexIsSound
<1>7. OneUserPerEmail'
  <2> SUFFICES ASSUME NEW f \in Emails \ contested, NEW i \in Ids
               PROVE  users'[i] = f <=> index'[f] = i
    BY <1>2 DEF OneUserPerEmail
  <2>1. users[i] = f <=> index[f] = i
    BY DEF UserInv, OneUserPerEmail
  <2>2. CASE f = e
    <3>1. index[e] = id
      BY <2>2, <1>1, <1>3 DEF UserInv, OneUserPerEmail
    <3>2. QED
      BY <3>1, <2>1, <2>2, <1>1, <1>2, NoneAssumption DEF UserInv, TypeOK
  <2>3. CASE f # e
    BY <2>1, <2>3, <1>1, <1>2, <1>5, NoneAssumption DEF UserInv, TypeOK
  <2>4. QED
    BY <2>2, <2>3
<1>8. Drawn'
  BY <1>1, <1>2 DEF UserInv, TypeOK, Drawn
<1>9. Fit'
  <2> SUFFICES ASSUME NEW d \in Clients PROVE Fit!(d)'
    BY DEF Fit
  <2>1. CASE d = c
    BY <2>1, EndKeeps, <1>2 DEF UserInv, TypeOK, Holds, Idle
  <2>2. CASE d # c
    <3>1. at'[d] = at[d]
      BY <2>2, EndKeeps, <1>2 DEF UserInv, TypeOK
    <3>2. Holds(d) /\ at[d].id = id => at[d].email = e /\ e \in contested
      BY <2>2, <1>1 DEF UserInv, Agreed, Noticed, Holds, Busy, Idle
    <3>3. at[d].op = "create" => at[d].email \in Emails
      BY DEF UserInv, TypeOK, Steps, Idle
    <3>4. QED
      BY <3>1, <3>2, <3>3, <1>1, <1>2 DEF UserInv, TypeOK, Fit, Holds
  <2>3. QED
    BY <2>1, <2>2
<1>10. QED
  BY <1>2, <1>4, <1>6, <1>7, <1>8, <1>9, EndKeeps DEF UserInv

LEMMA AbandonKeeps ==
    ASSUME UserInv, NEW c \in Clients, Abandon(c)
    PROVE  UserInv'
<1>1. UNCHANGED <<users, index, used, contested>> /\ Done(c)
  BY DEF Abandon, Done
<1>2. TypeOK' /\ IndexIsSound' /\ OneUserPerEmail' /\ Drawn'
  BY <1>1, EndKeeps DEF UserInv, TypeOK, IndexIsSound, OneUserPerEmail, Drawn
<1>3. Fit'
  <2> SUFFICES ASSUME NEW d \in Clients PROVE Fit!(d)'
    BY DEF Fit
  <2>1. CASE d = c
    BY <2>1, EndKeeps, <1>1 DEF UserInv, TypeOK, Holds, Idle
  <2>2. CASE d # c
    <3>1. at'[d] = at[d]
      BY <2>2, EndKeeps, <1>1 DEF UserInv, TypeOK
    <3>2. QED
      BY <3>1, <1>1 DEF UserInv, Fit, Holds
  <2>3. QED
    BY <2>1, <2>2
<1>4. QED
  BY <1>1, <1>2, <1>3, EndKeeps DEF UserInv

LEMMA ReadsKeeps ==
    ASSUME UserInv, NEW c \in Clients, NEW op \in {"update", "delete"}, NEW id \in Ids,
           Reads(c, op, id)
    PROVE  UserInv'
<1>1. users[id] \in Emails
  BY DEF UserInv, TypeOK, Reads
<1>2. Having(op, id, users[id]) \in Steps
  BY <1>1 DEF Having, Steps
<1>3. /\ Having(op, id, users[id]) # Idle
      /\ Having(op, id, users[id]).email = users[id]
      /\ Having(op, id, users[id]).op # "create"
      /\ users[Having(op, id, users[id]).id] = users[id]
  BY DEF Having, Idle
<1>4. Start(c, users[id], Having(op, id, users[id]))
  BY DEF Reads
<1>5. QED
  BY <1>1, <1>2, <1>3, <1>4, StartKeeps

LEMMA ChecksKeeps ==
    ASSUME UserInv, NEW c \in Clients, NEW e \in Emails, CreateChecks(c, e)
    PROVE  UserInv'
<1>1. Creating(e) \in Steps /\ Creating(e) # Idle /\ Creating(e).email = e
         /\ Creating(e).op = "create"
  BY DEF Creating, Steps, Idle
<1>2. Start(c, e, Creating(e)) /\ index[e] = None
  BY DEF CreateChecks
<1>3. QED
  BY <1>1, <1>2, StartKeeps

Revival ==
    \A id \in used : users[id] = None /\ users'[id] # None => users'[id] \in contested

LEMMA UserStepKeeps ==
    ASSUME UserInv, [Next]_vars
    PROVE  UserInv' /\ Revival
<1>1. ASSUME NEW c \in Clients, NEW e \in Emails, CreateChecks(c, e)
      PROVE  UserInv' /\ Revival
  BY <1>1, ChecksKeeps DEF CreateChecks, Start, Revival
<1>2. ASSUME NEW c \in Clients, NEW id \in Ids, CreateWrites(c, id)
      PROVE  UserInv' /\ Revival
  <2>1. \A i \in used : users'[i] = users[i]
    BY <1>2 DEF CreateWrites, Fresh, UserInv, TypeOK
  <2>2. QED
    BY <1>2, <2>1, CreateKeeps DEF Revival
<1>3. ASSUME NEW c \in Clients, NEW op \in {"update", "delete"}, NEW id \in Ids, Reads(c, op, id)
      PROVE  UserInv' /\ Revival
  BY <1>3, ReadsKeeps DEF Reads, Start, Revival
<1>4. ASSUME NEW c \in Clients, UpdateWrites(c)
      PROVE  UserInv' /\ Revival
  BY <1>4, UpdateKeeps DEF Revival
<1>5. ASSUME NEW c \in Clients, DeleteWrites(c)
      PROVE  UserInv' /\ Revival
  <2>1. \A i \in used : users'[i] = users[i] \/ users'[i] = None
    BY <1>5 DEF DeleteWrites, UserInv, TypeOK
  <2>2. QED
    BY <1>5, <2>1, DeleteKeeps DEF Revival
<1>6. ASSUME NEW c \in Clients, Abandon(c)
      PROVE  UserInv' /\ Revival
  BY <1>6, AbandonKeeps DEF Abandon, Revival
<1>7. ASSUME UNCHANGED vars
      PROVE  UserInv' /\ Revival
  BY <1>7 DEF vars, UserInv, TypeOK, IndexIsSound, OneUserPerEmail, Drawn, Noticed, Agreed, Fit,
              Busy, Holds, Revival
<1>8. QED
  BY <1>1, <1>2, <1>3, <1>4, <1>5, <1>6, <1>7 DEF Next

-----------------------------------------------------------------------------
(* The auth service.                                                       *)

Registering(c) == authAt[c].op = "store"

\* A record is stored under a new id, and before its index entry.
Registered ==
    /\ \A id \in AuthIds : authUsers[id] # None => id \in authUsed
    /\ \A c \in AuthClients :
          /\ Registering(c) => authAt[c].id \in authUsed /\ authUsers[authAt[c].id] = None
          /\ authAt[c].op = "index" => authUsers[authAt[c].id] = authAt[c].email
    /\ \A c, d \in AuthClients :
          c # d /\ Registering(c) /\ Registering(d) => authAt[c].id # authAt[d].id

\* The lifetime that a logout has computed may be too long by now, but not too
\* short.
Outlived ==
    /\ \A c \in AuthClients :
          authAt[c].op = "logout" =>
             /\ authAt[c].token \in access
             /\ authAt[c].ttl >= Auth!Expiry(authAt[c].token) - now
    /\ \A t \in loggedOut : now >= Auth!Expiry(t) \/ blacklist[t] >= Auth!Expiry(t)

AuthInv == AuthTypeOK /\ AuthIndexIsSound /\ LoggedOutIsRefused /\ Registered /\ Outlived

AuthStep == Auth!Next \/ UNCHANGED authVars

LEMMA AuthInitHolds == Auth!Init => AuthInv
  BY AuthAssumption, TimeAssumption
  DEF Auth!Init, AuthInv, AuthTypeOK, AuthIndexIsSound, LoggedOutIsRefused, Registered, Outlived,
      Registering, Auth!TypeOK, Auth!IndexIsSound, Auth!LoggedOutIsRefused, Auth!Times,
      Auth!Tokens, Auth!Idle, Auth!Steps

LEMMA ExpiryIsNat == \A t \in Auth!Tokens : Auth!Expiry(t) \in Nat
  BY TimeAssumption DEF Auth!Tokens, Auth!Times, Auth!Expiry

\* What a step may do to the accounts.
LEMMA AccountsKept ==
    ASSUME AuthInv, AuthStep
    PROVE  AuthTypeOK' /\ AuthIndexIsSound' /\ Registered'
<1> USE AuthAssumption, TimeAssumption
    DEF AuthInv, AuthTypeOK, Auth!TypeOK, AuthIndexIsSound, Auth!IndexIsSound, Registered,
        Registering, Auth!Idle
<1>1. CASE Auth!Tick
  BY <1>1 DEF Auth!Tick, Auth!accounts, Auth!sessions, Auth!Times
<1>2. ASSUME NEW c \in AuthClients, NEW e \in AuthEmails, NEW id \in AuthIds,
             Auth!RegisterChecks(c, e, id)
      PROVE  AuthTypeOK' /\ AuthIndexIsSound' /\ Registered'
  BY <1>2 DEF Auth!RegisterChecks, Auth!Starts, Auth!Go, Auth!sessions, Auth!Steps
<1>3. ASSUME NEW c \in AuthClients, NEW e \in AuthEmails, Auth!LoginSigns(c, e)
      PROVE  AuthTypeOK' /\ AuthIndexIsSound' /\ Registered'
  BY <1>3 DEF Auth!LoginSigns, Auth!Starts, Auth!Go, Auth!accounts, Auth!sessions, Auth!Steps,
              Auth!Token, Auth!Tokens
<1>4. ASSUME NEW id \in AuthIds, NEW iat \in Auth!Times, Auth!Refresh(id, iat)
      PROVE  AuthTypeOK' /\ AuthIndexIsSound' /\ Registered'
  BY <1>4 DEF Auth!Refresh, Auth!accounts, Auth!Token, Auth!Tokens
<1>5. ASSUME NEW c \in AuthClients, NEW t \in access,
             Auth!VerifyLooksUp(c, t) \/ Auth!LogoutComputes(c, t)
      PROVE  AuthTypeOK' /\ AuthIndexIsSound' /\ Registered'
  <2>1. t \in Auth!Tokens /\ Auth!Expiry(t) - now \in Int
    BY ExpiryIsNat DEF Auth!Times
  <2>2. PICK step \in Auth!Steps :
           /\ step.op \in {"verify", "logout"}
           /\ authAt' = [authAt EXCEPT ![c] = step]
           /\ UNCHANGED <<now, Auth!accounts, Auth!sessions>>
    <3>1. CASE Auth!VerifyLooksUp(c, t)
      <4> DEFINE s == [op |-> "verify", token |-> t, after |-> t \in loggedOut]
      <4>1. s \in Auth!Steps
        BY <2>1 DEF Auth!Steps
      <4>2. QED
        BY <3>1, <4>1 DEF Auth!VerifyLooksUp, Auth!Starts, Auth!Go
    <3>2. CASE Auth!LogoutComputes(c, t)
      <4> DEFINE s == [op |-> "logout", token |-> t, ttl |-> Auth!Expiry(t) - now]
      <4>1. s \in Auth!Steps
        BY <2>1 DEF Auth!Steps
      <4>2. QED
        BY <3>2, <4>1 DEF Auth!LogoutComputes, Auth!Starts, Auth!Go
    <3>3. QED
      BY <1>5, <3>1, <3>2
  <2>3. QED
    BY <2>2 DEF Auth!accounts, Auth!sessions
<1>6. ASSUME NEW c \in AuthClients, Auth!RegisterStores(c)
      PROVE  AuthTypeOK' /\ AuthIndexIsSound' /\ Registered'
  BY <1>6 DEF Auth!RegisterStores, Auth!Go, Auth!sessions, Auth!Steps
<1>7. ASSUME NEW c \in AuthClients, Auth!RegisterIndexes(c)
      PROVE  AuthTypeOK' /\ AuthIndexIsSound' /\ Registered'
  BY <1>7 DEF Auth!RegisterIndexes, Auth!Go, Auth!sessions, Auth!Steps
<1>8. ASSUME NEW c \in AuthClients, Auth!LoginStores(c)
      PROVE  AuthTypeOK' /\ AuthIndexIsSound' /\ Registered'
  BY <1>8 DEF Auth!LoginStores, Auth!Go, Auth!accounts, Auth!Steps, Auth!Tokens, Auth!Times
<1>9. ASSUME NEW c \in AuthClients, Auth!LogoutStores(c)
      PROVE  AuthTypeOK' /\ AuthIndexIsSound' /\ Registered'
  BY <1>9 DEF Outlived, Auth!LogoutStores, Auth!Go, Auth!accounts, Auth!Steps, Auth!Times
<1>10. ASSUME NEW c \in AuthClients, Auth!VerifyAnswers(c) \/ Auth!Abandon(c)
      PROVE  AuthTypeOK' /\ AuthIndexIsSound' /\ Registered'
  BY <1>10 DEF Auth!VerifyAnswers, Auth!Abandon, Auth!Go, Auth!accounts, Auth!sessions, Auth!Steps
<1>11. CASE UNCHANGED authVars
  BY <1>11 DEF authVars
<1>12. QED
  BY <1>1, <1>2, <1>3, <1>4, <1>5, <1>6, <1>7, <1>8, <1>9, <1>10, <1>11
  DEF AuthStep, Auth!Next

\* What a step may do to the tokens.
LEMMA TokensKept ==
    ASSUME AuthInv, AuthStep
    PROVE  LoggedOutIsRefused' /\ Outlived'
<1> DEFINE Goal == LoggedOutIsRefused' /\ Outlived'
<1> USE TimeAssumption, ExpiryIsNat
    DEF AuthInv, AuthTypeOK, Auth!TypeOK, LoggedOutIsRefused, Auth!LoggedOutIsRefused, Outlived,
        Auth!Idle, Auth!Times
<1>a. \A t \in loggedOut : t \in Auth!Tokens /\ blacklist[t] \in Nat /\ Auth!Expiry(t) \in Nat
  OBVIOUS
<1>b. \A c \in AuthClients :
         authAt[c].op \in {"verify", "logout"} =>
            authAt[c].token \in Auth!Tokens /\ (authAt[c].op = "logout" => authAt[c].ttl \in Int)
  BY DEF Auth!Steps
<1>1. ASSUME Auth!Tick PROVE Goal
  <2>1. now' = now + 1 /\ now \in Nat /\ UNCHANGED <<loggedOut, blacklist, access, authAt>>
    BY <1>1 DEF Auth!Tick, Auth!sessions
  <2>2. QED
    BY <2>1, <1>a, <1>b, Zenon, SMT DEF Auth!Expiry
<1>2. ASSUME NEW c \in AuthClients, NEW e \in AuthEmails, NEW id \in AuthIds,
             Auth!RegisterChecks(c, e, id)
      PROVE  Goal
  BY <1>2, <1>a, <1>b DEF Auth!RegisterChecks, Auth!Starts, Auth!Go, Auth!sessions
<1>3. ASSUME NEW c \in AuthClients, NEW e \in AuthEmails, Auth!LoginSigns(c, e)
      PROVE  Goal
  BY <1>3, <1>a, <1>b DEF Auth!LoginSigns, Auth!Starts, Auth!Go, Auth!accounts, Auth!sessions
<1>4. ASSUME NEW id \in AuthIds, NEW iat \in Auth!Times, Auth!Refresh(id, iat)
      PROVE  Goal
  BY <1>4, <1>a, <1>b DEF Auth!Refresh, Auth!accounts
<1>5. ASSUME NEW c \in AuthClients, NEW t \in access, Auth!VerifyLooksUp(c, t)
      PROVE  Goal
  <2>1. /\ authAt' = [authAt EXCEPT ![c] =
                        [op |-> "verify", token |-> t, after |-> t \in loggedOut]]
        /\ UNCHANGED <<now, blacklist, access, loggedOut>>
    BY <1>5 DEF Auth!VerifyLooksUp, Auth!Starts, Auth!Go, Auth!sessions
  <2>2. t \in loggedOut => now >= Auth!Expiry(t)
    BY <1>5, <1>a DEF Auth!VerifyLooksUp
  <2>3. QED
    BY <2>1, <2>2, <1>a, <1>b
<1>6. ASSUME NEW c \in AuthClients, NEW t \in access, Auth!LogoutComputes(c, t)
      PROVE  Goal
  BY <1>6, <1>a, <1>b DEF Auth!LogoutComputes, Auth!Starts, Auth!Go, Auth!accounts, Auth!sessions
<1>7. ASSUME NEW c \in AuthClients, Auth!RegisterStores(c) \/ Auth!RegisterIndexes(c)
      PROVE  Goal
  <2>1. /\ authAt'[c].op \in {"index", "idle"}
        /\ \A d \in AuthClients : d # c => authAt'[d] = authAt[d]
        /\ UNCHANGED <<now, blacklist, access, loggedOut>>
    BY <1>7 DEF Auth!RegisterStores, Auth!RegisterIndexes, Auth!Go, Auth!sessions, Auth!Steps
  <2>2. QED
    BY <2>1, <1>a, <1>b
<1>8. ASSUME NEW c \in AuthClients, Auth!LoginStores(c)
      PROVE  Goal
  BY <1>8, <1>a, <1>b DEF Auth!LoginStores, Auth!Go, Auth!accounts
<1>9. ASSUME NEW c \in AuthClients, Auth!LogoutStores(c)
      PROVE  Goal
  BY <1>9, <1>a, <1>b DEF Auth!LogoutStores, Auth!Go, Auth!accounts
<1>10. ASSUME NEW c \in AuthClients, Auth!VerifyAnswers(c) \/ Auth!Abandon(c)
      PROVE  Goal
  BY <1>10, <1>a, <1>b DEF Auth!VerifyAnswers, Auth!Abandon, Auth!Go, Auth!accounts, Auth!sessions
<1>11. ASSUME UNCHANGED authVars PROVE Goal
  BY <1>11 DEF authVars
<1>12. QED
  BY <1>1, <1>2, <1>3, <1>4, <1>5, <1>6, <1>7, <1>8, <1>9, <1>10, <1>11
  DEF AuthStep, Auth!Next

-----------------------------------------------------------------------------
(* Whichever of the two moves.                                             *)

IInv == UserInv /\ AuthInv

LEMMA StepKeeps ==
    ASSUME IInv, [MCNext]_<<service, vars, authVars>>
    PROVE  IInv' /\ Revival
<1>1. [Next]_vars /\ AuthStep
  BY DEF MCNext, AuthStep
<1>2. UserInv' /\ Revival
  BY <1>1, UserStepKeeps DEF IInv
<1>3. AuthInv'
  BY <1>1, AccountsKept, TokensKept DEF IInv, AuthInv
<1>4. QED
  BY <1>2, <1>3 DEF IInv

LEMMA InvariantHolds == MCSpec => []IInv
<1>1. MCInit => IInv
  BY UserInitHolds, AuthInitHolds DEF MCInit, IInv
<1>2. IInv /\ [MCNext]_<<service, vars, authVars>> => IInv'
  BY StepKeeps
<1>3. QED
  BY <1>1, <1>2, PTL DEF MCSpec

\* For any requests, emails and ids, the user service keeps its types.
THEOREM TypesHold == MCSpec => []TypeOK
  BY InvariantHolds, PTL DEF IInv, UserInv

\* For any requests, emails, tokens and times, the auth service keeps its types;
\* in particular only tokens that were issued are ever logged out.
THEOREM AuthTypesHold == MCSpec => []AuthTypeOK
  BY InvariantHolds, PTL DEF IInv, AuthInv

\* The user service's index never names a user that is not stored.
THEOREM IndexStaysSound == MCSpec => []IndexIsSound
  BY InvariantHolds, PTL DEF IInv, UserInv

\* An email that only one request at a time was at has one user at most, and
\* is found by it.
THEOREM EmailsAreUnique == MCSpec => []OneUserPerEmail
  BY InvariantHolds, PTL DEF IInv, UserInv

\* A deleted user comes back only when two requests were at the email together.
THEOREM DeletedUsersStayDeleted == MCSpec => DeletedStaysDeleted
<1>1. IInv /\ [MCNext]_<<service, vars, authVars>> => [Revival]_vars
  BY StepKeeps
<1>2. MCSpec => [][Revival]_vars
  BY <1>1, InvariantHolds, PTL DEF MCSpec
<1>3. QED
  BY <1>2 DEF DeletedStaysDeleted, Revival

\* A login finds only records of the email it looked up.
THEOREM AuthIndexStaysSound == MCSpec => []AuthIndexIsSound
  BY InvariantHolds, PTL DEF IInv, AuthInv

\* A token whose logout was confirmed is refused until it expires.
THEOREM LoggedOutTokensAreRefused == MCSpec => []LoggedOutIsRefused
  BY InvariantHolds, PTL DEF IInv, AuthInv
=============================================================================
