------------------------------ MODULE Accounts ------------------------------
(***************************************************************************)
(* The writing requests of the API that belong to accounts, and the audit  *)
(* trail they leave (handler/auth.go, admin.go, playlists.go, favorites.go *)
(* and artists.go, middleware/jwt.go and audit.go under                    *)
(* beatstream/internal; the tables in internal/db/postgres.go).            *)
(*                                                                         *)
(* Every handler changes the tables by one statement and is one action; it *)
(* takes the account and the role from the claims of a token, which stay   *)
(* what they were when it was signed.  When the handler has returned, a    *)
(* goroutine inserts the row of the audit log: the actions Insert,         *)
(* InsertFails and ProcessEnds come at any time later.                     *)
(***************************************************************************)
EXTENDS Naturals, Sequences

CONSTANTS
    Users,        \* rows of users, in the order of registration or not
    Emails,
    Nobody,       \* no user: NULL in audit_logs.user_id, no owner, no token
    Erased,       \* the unique address of an erased account
    Faults,       \* which of "insert" and "exit" may happen
    MaxRequests,  \* bound: writing requests
    MaxPlaylists  \* bound: playlists

ASSUME AccountsAssumption ==
    /\ Nobody \notin Users /\ Erased \notin Emails
    /\ Faults \subseteq {"insert", "exit"}

VARIABLES
    account,    \* a row of users: not there yet, there, soft or hard deleted
    email,      \* users.email
    admins,     \* the users with role = 'admin'
    tokens,     \* tokens that have not expired: user and role claims
    favorites,  \* users with a favorite
    playlists,  \* the rows of playlists
    log,        \* per writing request, who made it and what became of its row
    promoted    \* history: everybody who was ever an admin

accountsVars ==
    <<account, email, admins, tokens, favorites, playlists, log, promoted>>

Claims == [user : Users, role : {"user", "admin"}]

\* `by` is the user_id of the gin context, `user_id` the column, once the row is
\* stored.  `fits` says whether every other column takes what the request
\* brought: a UUID as :id of the path, an address that is one for ip_address,
\* and valid UTF-8 as agent and request id.
Entries == [by : Users \cup {Nobody}, fits : BOOLEAN,
            row : {"pending", "stored", "refused", "lost"},
            user_id : Users \cup {Nobody}]

\* A playlist: its owner_id and, as history, who created it and whether that user
\* has asked for its deletion.
Playlists == [owner_id : Users \cup {Nobody}, creator : Users, asked : BOOLEAN]

AccountsTypeOK ==
    /\ account \in [Users -> {"none", "active", "erased", "gone"}]
    /\ email \in [Users -> Emails \cup {Erased}]
    /\ admins \subseteq Users /\ promoted \subseteq Users
    /\ tokens \subseteq Claims
    /\ favorites \subseteq Users
    /\ playlists \in Seq(Playlists)
    /\ log \in Seq(Entries)

AccountsInit ==
    /\ account = [u \in Users |-> "none"] /\ email = [u \in Users |-> Erased]
    /\ admins = {} /\ tokens = {} /\ favorites = {} /\ playlists = <<>>
    /\ log = <<>> /\ promoted = {}

\* The rows that a foreign key may refer to.
Exists(u) == account[u] \in {"active", "erased"}

\* AuditLog: the handler has returned, the row is to be inserted.  Any request
\* may bring what a column does not take.
Audited(by) ==
    /\ Len(log) < MaxRequests
    /\ \E fits \in BOOLEAN :
         log' = Append(log, [by |-> by, fits |-> fits,
                             row |-> "pending", user_id |-> Nobody])

Signed(u) == [user |-> u, role |-> IF u \in admins THEN "admin" ELSE "user"]

\* Register and Login run without RequireAuth: no user in the context.
Register(u, e) ==
    /\ account[u] = "none"
    /\ \A v \in Users : Exists(v) => email[v] # e
    /\ account' = [account EXCEPT ![u] = "active"]
    /\ email' = [email EXCEPT ![u] = e]
    /\ tokens' = tokens \cup {Signed(u)}
    /\ Audited(Nobody)
    /\ UNCHANGED <<admins, favorites, playlists, promoted>>

Login(u) ==
    /\ account[u] = "active"
    /\ tokens' = tokens \cup {Signed(u)}
    /\ Audited(Nobody)
    /\ UNCHANGED <<account, email, admins, favorites, playlists, promoted>>

\* A taken address, a wrong password, no token or an expired one (409, 401); with
\* a token (`by`), a request that its body or its path makes fail, or one that
\* changes nothing modelled here, such as Artists.Create.
Refused(by) ==
    /\ by # Nobody => \E token \in tokens : token.user = by
    /\ Audited(by)
    /\ UNCHANGED <<account, email, admins, tokens, favorites, playlists, promoted>>

DeleteMe(token) ==
    LET u == token.user IN
    /\ IF account[u] = "active"
       THEN /\ account' = [account EXCEPT ![u] = "erased"]
            /\ email' = [email EXCEPT ![u] = Erased]
       ELSE UNCHANGED <<account, email>>
    /\ Audited(u)
    /\ UNCHANGED <<admins, tokens, favorites, playlists, promoted>>

\* Mutant: RequireRole is missing in the group's middleware.
AnyRole(token) == TRUE

RequireRole(token) == token.role = "admin"

\* Mutant: the audit rows go with the user, ON DELETE CASCADE.
RowsVanish(rows, u) == SelectSeq(rows, LAMBDA entry : entry.user_id # u)

\* ON DELETE SET NULL.
RowsUnlinked(rows, u) ==
    [n \in DOMAIN rows |->
        IF rows[n].user_id = u THEN [rows[n] EXCEPT !.user_id = Nobody] ELSE rows[n]]

\* The hard delete, with what the foreign keys do.
DeleteUser(token, u) ==
    /\ RequireRole(token)
    /\ Len(log) < MaxRequests
    /\ IF Exists(u)
       THEN /\ account' = [account EXCEPT ![u] = "gone"]
            /\ admins' = admins \ {u}
            /\ favorites' = favorites \ {u}
       ELSE UNCHANGED <<account, admins, favorites>>
    /\ \E fits \in BOOLEAN :
         log' = Append(RowsUnlinked(log, u),
                       [by |-> token.user, fits |-> fits,
                        row |-> "pending", user_id |-> Nobody])
    /\ UNCHANGED <<email, tokens, playlists, promoted>>

Refers(u) == Exists(u)

AddFavorite(token) ==
    /\ favorites' = IF Refers(token.user) THEN favorites \cup {token.user} ELSE favorites
    /\ Audited(token.user)
    /\ UNCHANGED <<account, email, admins, tokens, playlists, promoted>>

RemoveFavorite(token) ==
    /\ favorites' = favorites \ {token.user}
    /\ Audited(token.user)
    /\ UNCHANGED <<account, email, admins, tokens, playlists, promoted>>

\* INSERT INTO playlists (name): the owner is not stored.
CreatePlaylist(token) ==
    /\ Len(playlists) < MaxPlaylists
    /\ playlists' = Append(playlists,
                 [owner_id |-> Nobody, creator |-> token.user, asked |-> FALSE])
    /\ Audited(token.user)
    /\ UNCHANGED <<account, email, admins, tokens, favorites, promoted>>

\* DELETE ... WHERE id = $1 AND owner_id = $2
DeletePlaylist(token, n) ==
    /\ playlists' =
         IF playlists[n].owner_id = token.user
         THEN SubSeq(playlists, 1, n - 1) \o SubSeq(playlists, n + 1, Len(playlists))
         ELSE [playlists EXCEPT ![n].asked = @ \/ playlists[n].creator = token.user]
    /\ Audited(token.user)
    /\ UNCHANGED <<account, email, admins, tokens, favorites, promoted>>

Becomes(n, entry) ==
    /\ log' = [log EXCEPT ![n] = entry]
    /\ UNCHANGED <<account, email, admins, tokens, favorites, playlists, promoted>>

\* Mutant: the context is read before RequireAuth has run.
RowWithoutUser(entry) == [entry EXCEPT !.row = "stored", !.user_id = Nobody]

Row(entry) == [entry EXCEPT !.row = "stored", !.user_id = entry.by]

\* The goroutine's INSERT: user_id must refer to a user, and the other columns
\* take what the request brought.
Insert(n) ==
    /\ log[n].row = "pending"
    /\ Becomes(n, IF log[n].fits /\ (log[n].by # Nobody => Exists(log[n].by))
                  THEN Row(log[n]) ELSE [log[n] EXCEPT !.row = "refused"])

\* It times out, or the database fails; the error is logged.
InsertFails(n) ==
    /\ "insert" \in Faults /\ log[n].row = "pending"
    /\ Becomes(n, [log[n] EXCEPT !.row = "lost"])

\* The process ends and does not wait for the goroutines.
ProcessEnds ==
    /\ "exit" \in Faults
    /\ \E n \in DOMAIN log : log[n].row = "pending"
    /\ log' = [n \in DOMAIN log |->
                 IF log[n].row = "pending" THEN [log[n] EXCEPT !.row = "lost"] ELSE log[n]]
    /\ UNCHANGED <<account, email, admins, tokens, favorites, playlists, promoted>>

\* Seven days, and what is done in SQL.
Expire(token) ==
    /\ tokens' = tokens \ {token}
    /\ UNCHANGED <<account, email, admins, favorites, playlists, log, promoted>>

Promote(u) ==
    /\ Exists(u) /\ u \notin admins
    /\ admins' = admins \cup {u} /\ promoted' = promoted \cup {u}
    /\ UNCHANGED <<account, email, tokens, favorites, playlists, log>>

Demote(u) ==
    /\ u \in admins /\ admins' = admins \ {u}
    /\ UNCHANGED <<account, email, tokens, favorites, playlists, log, promoted>>

AccountsNext ==
    \/ \E u \in Users :
        \/ \E e \in Emails : Register(u, e)
        \/ Login(u) \/ Promote(u) \/ Demote(u)
    \/ \E by \in Users \cup {Nobody} : Refused(by)
    \/ \E token \in tokens :
        \/ DeleteMe(token) \/ AddFavorite(token) \/ RemoveFavorite(token)
        \/ CreatePlaylist(token) \/ Expire(token)
        \/ \E u \in Users : DeleteUser(token, u)
        \/ \E n \in DOMAIN playlists : DeletePlaylist(token, n)
    \/ \E n \in DOMAIN log : Insert(n) \/ InsertFails(n)
    \/ ProcessEnds

AccountsSpec == AccountsInit /\ [][AccountsNext]_accountsVars

----------------------------------------------------------------------------

\* A stored row names the user who made the request, and nobody only for an
\* anonymous request or when that user was hard deleted since, although the row
\* is written after the fact and out of order (audit.go:42-44, 52-70).
AuditNames ==
    \A n \in DOMAIN log : log[n].row = "stored" =>
        \/ log[n].user_id = log[n].by
        \/ log[n].user_id = Nobody /\ account[log[n].by] = "gone"

\* Rows are never taken out of the audit log or changed, but for the user of a
\* row who is hard deleted in that very step (postgres.go:135).
AuditAppendOnly ==
    [][ \A n \in DOMAIN log : log[n].row = "stored" =>
          /\ n \in DOMAIN log' /\ log'[n].row = "stored"
          /\ log'[n].user_id # log[n].user_id =>
                account[log[n].by] # "gone" /\ account'[log[n].by] = "gone" ]_accountsVars

\* Nobody is hard deleted unless by a user who is or was an admin, also when
\* tokens outlive the role they were signed with (jwt.go:41-50).
OnlyAdminsDelete ==
    [][ \A u \in Users : account[u] # "gone" /\ account'[u] = "gone" =>
          log'[Len(log')].by \in promoted ]_accountsVars

\* A favorite belongs to a user who is there: a token that outlives its account
\* can add none, and the hard delete takes what there is (postgres.go:162).
FavoritesOwned == \A u \in favorites : Exists(u)

\* A playlist that the user who created it asked to delete is gone: DELETE
\* /v1/playlists/{id} deletes the caller's playlist (playlists.go:75, 182).
OwnersCanDelete == \A n \in DOMAIN playlists : ~playlists[n].asked
=============================================================================
