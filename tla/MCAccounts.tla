----------------------------- MODULE MCAccounts -----------------------------
(***************************************************************************)
(* UserService and AuthService for TLC.  Each keeps its users in a Redis   *)
(* database of its own and neither reads what the other writes, so that it *)
(* is enough to let one of them move in a behaviour.                       *)
(***************************************************************************)
EXTENDS UserService, Integers

CONSTANTS
    AuthClients, AuthEmails, AuthIds,
    AccessExpiry, RefreshExpiry, RefreshKept, MaxTime

ASSUME AuthAssumption == None \notin AuthEmails /\ None \notin AuthIds

ASSUME TimeAssumption ==
    /\ {AccessExpiry, RefreshExpiry, RefreshKept} \subseteq Nat \ {0}
    /\ MaxTime \in Nat

VARIABLES
    service,    \* the one that moves
    authUsers, authIndex, authUsed, authAt,
    now, refresh, blacklist, access, loggedOut

Auth == INSTANCE AuthService WITH
    Clients <- AuthClients, Emails <- AuthEmails, Ids <- AuthIds,
    users <- authUsers, index <- authIndex, used <- authUsed, at <- authAt

authVars ==
    <<authUsers, authIndex, authUsed, authAt, now, refresh, blacklist, access, loggedOut>>

MCInit == service \in {"user", "auth"} /\ Init /\ Auth!Init

MCNext ==
    \/ service = "user" /\ Next /\ UNCHANGED <<service, authVars>>
    \/ service = "auth" /\ Auth!Next /\ UNCHANGED <<service, vars>>

MCSpec == MCInit /\ [][MCNext]_<<service, vars, authVars>>

-----------------------------------------------------------------------------

\* The auth service keeps its types.
AuthTypeOK == Auth!TypeOK

\* A login finds only records of the email it looked up.
AuthIndexIsSound == Auth!IndexIsSound

\* A token whose logout was confirmed is refused by the auth service until it
\* expires.
LoggedOutIsRefused == Auth!LoggedOutIsRefused
=============================================================================
