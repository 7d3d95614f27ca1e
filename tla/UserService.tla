---------------------------- MODULE UserService ----------------------------
(***************************************************************************)
(* services/user-service: users are records in Redis with an index by      *)
(* email beside them.  A handler reads, decides, and writes both keys in   *)
(* one MULTI; nothing is watched between its read and its write.           *)
(***************************************************************************)
EXTENDS Naturals

CONSTANTS
    Clients,        \* requests that may be in flight at once
    Emails, Ids,    \* Ids: uuids, as many as are ever drawn (bound)
    None

ASSUME NoneAssumption == None \notin Emails /\ None \notin Ids

VARIABLES
    users,      \* user:{id}: the email in the record
    index,      \* user:email:{email}
    at,         \* where each request is
    used,       \* history: ids drawn so far
    contested   \* history: emails that two requests were at together

vars == <<users, index, at, used, contested>>

Idle == [op |-> "idle"]

Creating(e) == [op |-> "create", email |-> e]

Having(op, id, e) == [op |-> op, id |-> id, email |-> e]

Steps ==
    {Idle} \union [op : {"create"}, email : Emails]
        \union [op : {"update", "delete"}, id : Ids, email : Emails]

Init ==
    /\ users = [id \in Ids |-> None]
    /\ index = [e \in Emails |-> None]
    /\ at = [c \in Clients |-> Idle]
    /\ used = {}
    /\ contested = {}

\* Request c starts on email e.
Start(c, e, step) ==
    /\ at[c] = Idle
    /\ at' = [at EXCEPT ![c] = step]
    /\ contested' = IF \E d \in Clients : at[d] # Idle /\ at[d].email = e
                    THEN contested \union {e} ELSE contested
    /\ UNCHANGED <<users, index, used>>

Done(c) == at' = [at EXCEPT ![c] = Idle] /\ UNCHANGED contested

-----------------------------------------------------------------------------

\* Mutant of CreateChecks: whether the email is taken is not looked up.
CreateUnchecked(c, e) == Start(c, e, Creating(e))

CreateChecks(c, e) == index[e] = None /\ Start(c, e, Creating(e))

\* Mutant of Fresh: an id is drawn that a deleted user had.
Vacant == {id \in Ids : users[id] = None}

Fresh == Ids \ used

\* Mutant of CreateWrites: the index is given the email for an id.
CreateSwapped(c, id) ==
    /\ at[c].op = "create"
    /\ id \in Fresh
    /\ users' = [users EXCEPT ![id] = at[c].email]
    /\ index' = [index EXCEPT ![at[c].email] = at[c].email]
    /\ used' = used \union {id}
    /\ Done(c)

CreateWrites(c, id) ==
    /\ at[c].op = "create"
    /\ id \in Fresh
    /\ users' = [users EXCEPT ![id] = at[c].email]
    /\ index' = [index EXCEPT ![at[c].email] = id]
    /\ used' = used \union {id}
    /\ Done(c)

Reads(c, op, id) == users[id] # None /\ Start(c, users[id], Having(op, id, users[id]))

UpdateWrites(c) ==
    /\ at[c].op = "update"
    /\ users' = [users EXCEPT ![at[c].id] = at[c].email]
    /\ UNCHANGED <<index, used>>
    /\ Done(c)

\* Mutant of DeleteWrites: the record is deleted on its own.
DeleteRecord(c) ==
    /\ at[c].op = "delete"
    /\ users' = [users EXCEPT ![at[c].id] = None]
    /\ UNCHANGED <<index, used>>
    /\ Done(c)

DeleteWrites(c) ==
    /\ at[c].op = "delete"
    /\ index' = [index EXCEPT ![at[c].email] = None]
    /\ users' = [users EXCEPT ![at[c].id] = None]
    /\ UNCHANGED used
    /\ Done(c)

\* The service stops, or Redis does not answer, before the write.
Abandon(c) == at[c] # Idle /\ Done(c) /\ UNCHANGED <<users, index, used>>

Next ==
    \E c \in Clients :
       \/ \E e \in Emails : CreateChecks(c, e)
       \/ \E id \in Ids :
             CreateWrites(c, id) \/ Reads(c, "update", id) \/ Reads(c, "delete", id)
       \/ UpdateWrites(c) \/ DeleteWrites(c) \/ Abandon(c)

Spec == Init /\ [][Next]_vars

-----------------------------------------------------------------------------

\* Every variable keeps its type, and a user without an id was never stored.
TypeOK ==
    /\ users \in [Ids -> Emails \union {None}]
    /\ index \in [Emails -> Ids \union {None}]
    /\ at \in [Clients -> Steps]
    /\ used \subseteq Ids
    /\ contested \subseteq Emails

\* What the comment in delete_user is about: the index never names a user that
\* is not stored, or is stored under another email, however creations, updates
\* and deletions of the same user overlap.
IndexIsSound ==
    \A e \in Emails : index[e] # None => users[index[e]] = e

\* Two requests at once can give an email two users, or a user no index entry;
\* nothing else can: the user of an email that only one request at a time was
\* at is its only one, and is found by it.
OneUserPerEmail ==
    \A e \in Emails \ contested, id \in Ids : users[id] = e <=> index[e] = id

\* A deleted user comes back only when an update had read it before.
DeletedStaysDeleted ==
    [][\A id \in used :
         users[id] = None /\ users'[id] # None => users'[id] \in contested]_vars
=============================================================================
