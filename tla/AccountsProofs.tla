--------------------------- MODULE AccountsProofs ---------------------------
(***************************************************************************)
(* Proofs about Accounts: the audit log names who acted and is not         *)
(* rewritten, only admins delete users, and favorites have owners, for any *)
(* numbers of users, requests and playlists.                               *)
(***************************************************************************)
EXTENDS Accounts, TLAPS

\* The part of the types that the arguments need.
LogTypeOK ==
    /\ account \in [Users -> {"none", "active", "erased", "gone"}]
    /\ admins \subseteq Users /\ promoted \subseteq Users
    /\ tokens \subseteq Claims
    /\ favorites \subseteq Users
    /\ log \in Seq(Entries)

\* A user_id that is stored refers to a user who is there.
RowsRefer ==
    \A n \in DOMAIN log : log[n].user_id # Nobody =>
        log[n].row = "stored" /\ Exists(log[n].user_id)

\* Whoever is an admin, and whoever a token calls one, was promoted.
AdminsPromoted ==
    /\ admins \subseteq promoted
    /\ \A token \in tokens : token.role = "admin" => token.user \in promoted

\* The inductive invariant.
AuditInv ==
    /\ LogTypeOK
    /\ AuditNames
    /\ RowsRefer
    /\ FavoritesOwned
    /\ AdminsPromoted

----------------------------------------------------------------------------

\* It holds before anybody has registered.
LEMMA AuditInit == AccountsInit => AuditInv
  BY AccountsAssumption
  DEF AccountsInit, AuditInv, LogTypeOK, AuditNames, RowsRefer, FavoritesOwned,
      AdminsPromoted, Exists

\* A row that is appended is pending and names nobody.
LEMMA AppendedRow ==
  ASSUME AuditInv, NEW by \in Users \cup {Nobody}, Audited(by)
  PROVE  /\ log' \in Seq(Entries)
         /\ DOMAIN log' = 1 .. Len(log) + 1 /\ Len(log') = Len(log) + 1
         /\ DOMAIN log = 1 .. Len(log)
         /\ \A n \in DOMAIN log : log'[n] = log[n]
         /\ log'[Len(log) + 1].by = by
         /\ log'[Len(log) + 1].row = "pending"
         /\ log'[Len(log) + 1].user_id = Nobody
<1>0. PICK fits \in BOOLEAN :
        log' = Append(log, [by |-> by, fits |-> fits, row |-> "pending", user_id |-> Nobody])
  BY DEF Audited
<1> DEFINE entry == [by |-> by, fits |-> fits, row |-> "pending", user_id |-> Nobody]
<1>1. entry \in Entries
  BY DEF Entries
<1>2. log' = Append(log, entry) /\ log \in Seq(Entries)
  BY <1>0 DEF AuditInv, LogTypeOK
<1> HIDE DEF entry
<1>3. /\ log' \in Seq(Entries) /\ Len(log') = Len(log) + 1
      /\ DOMAIN log' = 1 .. Len(log) + 1 /\ DOMAIN log = 1 .. Len(log)
      /\ \A n \in DOMAIN log : log'[n] = log[n]
      /\ log'[Len(log) + 1] = entry
  BY <1>1, <1>2
<1>4. QED
  BY <1>3 DEF entry

\* A request that removes no user and takes no row: what it appends disturbs
\* nothing that the invariant says of the log.
LEMMA QuietRequest ==
  ASSUME AuditInv, NEW by \in Users \cup {Nobody}, Audited(by),
         \A u \in Users : Exists(u) => Exists(u)',
         \A u \in Users : account[u] = "gone" => account'[u] = "gone"
  PROVE  AuditNames' /\ RowsRefer' /\ log' \in Seq(Entries)
<1>0. /\ log' \in Seq(Entries)
      /\ DOMAIN log' = 1 .. Len(log) + 1
      /\ DOMAIN log = 1 .. Len(log)
      /\ \A n \in DOMAIN log : log'[n] = log[n]
      /\ log'[Len(log) + 1].row = "pending"
      /\ log'[Len(log) + 1].user_id = Nobody
  BY AppendedRow
<1>a. \A n \in DOMAIN log' : n \in DOMAIN log \/ n = Len(log) + 1
  BY <1>0 DEF AuditInv, LogTypeOK
<1>b. \A n \in DOMAIN log : log[n] \in Entries
  BY DEF AuditInv, LogTypeOK
<1>1. AuditNames'
  <2> SUFFICES ASSUME NEW n \in DOMAIN log', log'[n].row = "stored"
               PROVE  \/ log'[n].user_id = log'[n].by
                      \/ log'[n].user_id = Nobody /\ account'[log'[n].by] = "gone"
    BY DEF AuditNames
  <2>1. n \in DOMAIN log /\ log'[n] = log[n]
    BY <1>0, <1>a
  <2>2. log[n].by \in Users \cup {Nobody}
    BY <2>1, <1>b DEF Entries
  <2>3. QED
    BY <2>1, <2>2 DEF AuditInv, AuditNames
<1>2. RowsRefer'
  <2> SUFFICES ASSUME NEW n \in DOMAIN log', log'[n].user_id # Nobody
               PROVE  log'[n].row = "stored" /\ Exists(log[n].user_id)'
    BY DEF RowsRefer, Exists
  <2>1. n \in DOMAIN log /\ log'[n] = log[n]
    BY <1>0, <1>a
  <2>2. log[n].user_id \in Users /\ Exists(log[n].user_id)
    BY <2>1, <1>b DEF AuditInv, RowsRefer, Entries, Exists
  <2>3. QED
    BY <2>1, <2>2 DEF AuditInv, RowsRefer, Exists
<1>3. QED
  BY <1>0, <1>1, <1>2


\* The hard delete: what refers to the user is unlinked or gone.
LEMMA HardDelete ==
  ASSUME AuditInv, NEW token \in tokens, NEW u \in Users, DeleteUser(token, u)
  PROVE  /\ AuditInv'
         /\ DOMAIN log' = 1 .. Len(log) + 1 /\ Len(log') = Len(log) + 1
         /\ DOMAIN log = 1 .. Len(log)
         /\ log'[Len(log')].by = token.user
         /\ \A n \in DOMAIN log :
              log'[n] = IF log[n].user_id = u THEN [log[n] EXCEPT !.user_id = Nobody]
                        ELSE log[n]
<1>0. PICK fits \in BOOLEAN :
        log' = Append(RowsUnlinked(log, u), [by |-> token.user, fits |-> fits,
                                             row |-> "pending", user_id |-> Nobody])
  BY DEF DeleteUser
<1> DEFINE entry == [by |-> token.user, fits |-> fits,
                     row |-> "pending", user_id |-> Nobody]
           rows == RowsUnlinked(log, u)
<1>1. log \in Seq(Entries) /\ token \in Claims /\ token.user \in Users
  BY DEF AuditInv, LogTypeOK, Claims
<1>2. entry \in Entries
  BY <1>1 DEF Entries
<1>3. /\ rows \in Seq(Entries) /\ Len(rows) = Len(log)
      /\ DOMAIN rows = 1 .. Len(log) /\ DOMAIN log = 1 .. Len(log)
      /\ \A n \in DOMAIN log :
           rows[n] = IF log[n].user_id = u THEN [log[n] EXCEPT !.user_id = Nobody]
                     ELSE log[n]
  <2>a. \A n \in DOMAIN log : log[n] \in Entries
    BY <1>1
  <2>1. \A n \in DOMAIN log : [log[n] EXCEPT !.user_id = Nobody] \in Entries
    BY <2>a DEF Entries
  <2>2. rows \in [1 .. Len(log) -> Entries]
    BY <1>1, <2>1 DEF RowsUnlinked
  <2>3. Len(log) \in Nat
    BY <1>1
  <2>4. rows \in Seq(Entries) /\ Len(rows) = Len(log)
    BY <2>2, <2>3
  <2>5. QED
    BY <1>1, <2>4 DEF RowsUnlinked
<1>4. log' = Append(rows, entry)
  BY <1>0
<1> HIDE DEF entry, rows
<1>5. /\ log' \in Seq(Entries) /\ Len(log') = Len(log) + 1
      /\ DOMAIN log' = 1 .. Len(log) + 1
      /\ \A n \in DOMAIN log : log'[n] = rows[n]
      /\ log'[Len(log) + 1] = entry
  BY <1>1, <1>2, <1>3, <1>4
<1>6. /\ log'[Len(log')].by = token.user
      /\ log'[Len(log) + 1].row = "pending" /\ log'[Len(log) + 1].user_id = Nobody
  BY <1>5 DEF entry
<1>7. \A n \in DOMAIN log :
        /\ log[n] \in Entries
        /\ log'[n] = IF log[n].user_id = u THEN [log[n] EXCEPT !.user_id = Nobody]
                     ELSE log[n]
  BY <1>1, <1>3, <1>5
<1>8. \A n \in DOMAIN log' : n \in DOMAIN log \/ n = Len(log) + 1
  BY <1>1, <1>3, <1>5
<1>9. /\ \A v \in Users : v # u => account'[v] = account[v]
      /\ Exists(u) => account'[u] = "gone"
      /\ ~Exists(u) => account' = account
      /\ account' \in [Users -> {"none", "active", "erased", "gone"}]
  BY DEF DeleteUser, AuditInv, LogTypeOK
<1>10. AuditNames'
  <2> SUFFICES ASSUME NEW n \in DOMAIN log', log'[n].row = "stored"
               PROVE  \/ log'[n].user_id = log'[n].by
                      \/ log'[n].user_id = Nobody /\ account'[log'[n].by] = "gone"
    BY DEF AuditNames
  <2>1. n \in DOMAIN log
    BY <1>6, <1>8
  <2>2. /\ log'[n].by = log[n].by /\ log[n].row = "stored"
        /\ log[n].by \in Users \cup {Nobody}
    BY <1>7, <2>1 DEF Entries
  <2>3. \/ log[n].user_id = log[n].by
        \/ log[n].user_id = Nobody /\ account[log[n].by] = "gone"
    BY <2>1, <2>2 DEF AuditInv, AuditNames
  <2>4. CASE log[n].user_id = u
    <3>1. log[n].by = u /\ Exists(u)
      BY <2>1, <2>3, <2>4, AccountsAssumption DEF AuditInv, RowsRefer
    <3>2. log'[n].user_id = Nobody
      BY <1>7, <2>1, <2>4 DEF Entries
    <3>3. QED
      BY <1>9, <2>2, <3>1, <3>2
  <2>5. CASE log[n].user_id # u
    <3>1. log'[n].user_id = log[n].user_id
      BY <1>7, <2>1, <2>5
    <3>2. CASE log[n].user_id = Nobody /\ account[log[n].by] = "gone" /\ log[n].by # Nobody
      BY <1>9, <2>2, <3>1, <3>2 DEF Exists
    <3>3. QED
      BY <2>2, <2>3, <3>1, <3>2
  <2>6. QED
    BY <2>4, <2>5
<1>11. RowsRefer'
  <2> SUFFICES ASSUME NEW n \in DOMAIN log', log'[n].user_id # Nobody
               PROVE  log'[n].row = "stored" /\ Exists(log[n].user_id)'
    BY DEF RowsRefer, Exists
  <2>1. n \in DOMAIN log
    BY <1>6, <1>8
  <2>2. log[n].user_id # u /\ log'[n] = log[n] /\ log[n].user_id \in Users
    BY <1>7, <2>1 DEF Entries
  <2>3. log[n].row = "stored" /\ Exists(log[n].user_id)
    BY <2>1, <2>2 DEF AuditInv, RowsRefer
  <2>4. QED
    BY <1>9, <2>2, <2>3 DEF Exists
<1>12. FavoritesOwned'
  BY <1>9 DEF DeleteUser, AuditInv, LogTypeOK, FavoritesOwned, Exists
<1>13. AdminsPromoted' /\ LogTypeOK'
  BY <1>5, <1>9 DEF DeleteUser, AuditInv, LogTypeOK, AdminsPromoted
<1>14. QED
  BY <1>3, <1>5, <1>6, <1>7, <1>10, <1>11, <1>12, <1>13 DEF AuditInv

----------------------------------------------------------------------------

\* What becomes of a row that was pending: it is stored for whoever made the
\* request, who is there, or it is not stored.
LEMMA RowInserted ==
  ASSUME AuditInv, NEW n \in DOMAIN log, NEW entry \in Entries,
         log' = [log EXCEPT ![n] = entry],
         log[n].row = "pending", entry.by = log[n].by,
         \/ entry.row = "stored" /\ entry.user_id = entry.by
            /\ (entry.by # Nobody => Exists(entry.by))
         \/ entry.row # "stored" /\ entry.user_id = Nobody,
         UNCHANGED account
  PROVE  AuditNames' /\ RowsRefer' /\ log' \in Seq(Entries)
<1>1. log' \in Seq(Entries) /\ DOMAIN log' = DOMAIN log
  BY DEF AuditInv, LogTypeOK
<1>2. \A k \in DOMAIN log : log'[k] = IF k = n THEN entry ELSE log[k]
  BY DEF AuditInv, LogTypeOK
<1>3. AuditNames'
  BY <1>1, <1>2 DEF AuditInv, AuditNames
<1>4. RowsRefer'
  BY <1>1, <1>2 DEF AuditInv, RowsRefer, Exists
<1>5. QED
  BY <1>1, <1>3, <1>4

LEMMA AuditStep == AuditInv /\ [AccountsNext]_accountsVars => AuditInv'
<1> SUFFICES ASSUME AuditInv, [AccountsNext]_accountsVars
             PROVE  AuditInv'
  OBVIOUS
<1> USE AccountsAssumption DEF AuditInv
<1>a. \A token \in tokens :
        token \in Claims /\ token.user \in Users
  BY DEF LogTypeOK, Claims
<1>1. ASSUME NEW u \in Users, NEW e \in Emails, Register(u, e)
      PROVE  AuditInv'
  <2>1. /\ \A v \in Users : Exists(v) => Exists(v)'
        /\ \A v \in Users : account[v] = "gone" => account'[v] = "gone"
    BY <1>1 DEF Register, Exists, LogTypeOK
  <2>2. AuditNames' /\ RowsRefer' /\ log' \in Seq(Entries)
    BY <1>1, <2>1, QuietRequest DEF Register
  <2>3. FavoritesOwned'
    BY <1>1, <2>1 DEF Register, FavoritesOwned, LogTypeOK
  <2>4. AdminsPromoted' /\ LogTypeOK'
    BY <1>1, <2>2 DEF Register, AdminsPromoted, LogTypeOK, Signed, Claims
  <2>5. QED
    BY <2>2, <2>3, <2>4
<1>2. ASSUME NEW u \in Users, Login(u)
      PROVE  AuditInv'
  <2>1. /\ \A v \in Users : Exists(v) => Exists(v)'
        /\ \A v \in Users : account[v] = "gone" => account'[v] = "gone"
    BY <1>2 DEF Login, Exists
  <2>2. AuditNames' /\ RowsRefer' /\ log' \in Seq(Entries)
    BY <1>2, <2>1, QuietRequest DEF Login
  <2>3. FavoritesOwned' /\ AdminsPromoted' /\ LogTypeOK'
    BY <1>2, <2>1, <2>2
    DEF Login, FavoritesOwned, AdminsPromoted, LogTypeOK, Signed, Claims
  <2>4. QED
    BY <2>2, <2>3
<1>3. ASSUME NEW by \in Users \cup {Nobody}, Refused(by)
      PROVE  AuditInv'
  <2>1. /\ \A v \in Users : Exists(v) => Exists(v)'
        /\ \A v \in Users : account[v] = "gone" => account'[v] = "gone"
    BY <1>3 DEF Refused, Exists
  <2>2. AuditNames' /\ RowsRefer' /\ log' \in Seq(Entries)
    BY <1>3, <2>1, QuietRequest DEF Refused
  <2>3. QED
    BY <1>3, <2>1, <2>2 DEF Refused, FavoritesOwned, AdminsPromoted, LogTypeOK
<1>4. ASSUME NEW token \in tokens, DeleteMe(token)
      PROVE  AuditInv'
  <2>1. /\ \A v \in Users : Exists(v) => Exists(v)'
        /\ \A v \in Users : account[v] = "gone" => account'[v] = "gone"
        /\ account' \in [Users -> {"none", "active", "erased", "gone"}]
    BY <1>4, <1>a DEF DeleteMe, Exists, LogTypeOK
  <2>2. AuditNames' /\ RowsRefer' /\ log' \in Seq(Entries)
    BY <1>4, <1>a, <2>1, QuietRequest DEF DeleteMe
  <2>3. QED
    BY <1>4, <2>1, <2>2 DEF DeleteMe, FavoritesOwned, AdminsPromoted, LogTypeOK
<1>5. ASSUME NEW token \in tokens, AddFavorite(token) \/ RemoveFavorite(token)
      PROVE  AuditInv'
  <2>1. /\ \A v \in Users : Exists(v) => Exists(v)'
        /\ \A v \in Users : account[v] = "gone" => account'[v] = "gone"
        /\ Audited(token.user)
    BY <1>5 DEF AddFavorite, RemoveFavorite, Exists
  <2>2. AuditNames' /\ RowsRefer' /\ log' \in Seq(Entries)
    BY <1>a, <2>1, QuietRequest
  <2>3. FavoritesOwned'
    BY <1>5
    DEF AddFavorite, RemoveFavorite, Refers, FavoritesOwned, Exists
  <2>4. QED
    BY <1>5, <1>a, <2>2, <2>3 DEF AddFavorite, RemoveFavorite, AdminsPromoted, LogTypeOK
<1>6. ASSUME NEW token \in tokens, CreatePlaylist(token)
      PROVE  AuditInv'
  <2>1. /\ \A v \in Users : Exists(v) => Exists(v)'
        /\ \A v \in Users : account[v] = "gone" => account'[v] = "gone"
    BY <1>6 DEF CreatePlaylist, Exists
  <2>2. AuditNames' /\ RowsRefer' /\ log' \in Seq(Entries)
    BY <1>6, <1>a, <2>1, QuietRequest DEF CreatePlaylist
  <2>3. QED
    BY <1>6, <2>1, <2>2 DEF CreatePlaylist, FavoritesOwned, AdminsPromoted, LogTypeOK
<1>7. ASSUME NEW token \in tokens, NEW n \in DOMAIN playlists, DeletePlaylist(token, n)
      PROVE  AuditInv'
  <2>1. /\ \A v \in Users : Exists(v) => Exists(v)'
        /\ \A v \in Users : account[v] = "gone" => account'[v] = "gone"
    BY <1>7 DEF DeletePlaylist, Exists
  <2>2. AuditNames' /\ RowsRefer' /\ log' \in Seq(Entries)
    BY <1>7, <1>a, <2>1, QuietRequest DEF DeletePlaylist
  <2>3. QED
    BY <1>7, <2>1, <2>2 DEF DeletePlaylist, FavoritesOwned, AdminsPromoted, LogTypeOK
<1>8. ASSUME NEW token \in tokens, NEW u \in Users, DeleteUser(token, u)
      PROVE  AuditInv'
  BY <1>8, HardDelete
<1>9. ASSUME NEW n \in DOMAIN log, Insert(n) \/ InsertFails(n)
      PROVE  AuditInv'
  <2>1. PICK entry : Becomes(n, entry) /\ log[n].row = "pending"
             /\ entry \in {Row(log[n]), [log[n] EXCEPT !.row = "refused"],
                           [log[n] EXCEPT !.row = "lost"]}
             /\ (entry = Row(log[n]) => (log[n].by # Nobody => Exists(log[n].by)))
    <3>1. log[n] \in Entries
      BY DEF LogTypeOK
    <3>2. Row(log[n]).row = "stored"
      BY <3>1 DEF Row, Entries
    <3>3. [log[n] EXCEPT !.row = "refused"].row = "refused"
      BY <3>1 DEF Entries
    <3>4. [log[n] EXCEPT !.row = "lost"].row = "lost"
      BY <3>1 DEF Entries
    <3>5. QED
      BY <1>9, <3>2, <3>3, <3>4 DEF Insert, InsertFails
  <2>2. log[n] \in Entries /\ log[n].user_id = Nobody
    BY <2>1 DEF LogTypeOK, RowsRefer
  <2>3. /\ entry \in Entries /\ entry.by = log[n].by
        /\ \/ entry.row = "stored" /\ entry.user_id = entry.by
              /\ (entry.by # Nobody => Exists(entry.by))
           \/ entry.row # "stored" /\ entry.user_id = Nobody
    BY <2>1, <2>2 DEF Row, Entries
  <2>4. AuditNames' /\ RowsRefer' /\ log' \in Seq(Entries)
    BY <2>1, <2>3, RowInserted DEF Becomes
  <2>5. QED
    BY <2>1, <2>4 DEF Becomes, FavoritesOwned, AdminsPromoted, LogTypeOK, Exists
<1>10. ASSUME ProcessEnds
       PROVE  AuditInv'
  <2>1. \A n \in DOMAIN log :
          /\ log[n] \in Entries /\ [log[n] EXCEPT !.row = "lost"] \in Entries
          /\ [log[n] EXCEPT !.row = "lost"].row = "lost"
          /\ [log[n] EXCEPT !.row = "lost"].user_id = log[n].user_id
    <3>1. \A n \in DOMAIN log : log[n] \in Entries
      BY DEF LogTypeOK
    <3>2. QED
      BY <3>1 DEF Entries
  <2>2. /\ DOMAIN log' = DOMAIN log
        /\ \A n \in DOMAIN log :
             log'[n] = IF log[n].row = "pending" THEN [log[n] EXCEPT !.row = "lost"]
                       ELSE log[n]
    BY <1>10 DEF ProcessEnds
  <2>3. log' \in Seq(Entries)
    <3>1. DOMAIN log = 1 .. Len(log) /\ Len(log) \in Nat
      BY DEF LogTypeOK
    <3>2. log' \in [1 .. Len(log) -> Entries]
      BY <1>10, <2>1, <3>1 DEF ProcessEnds
    <3>3. QED
      BY <3>1, <3>2
  <2>4. AuditNames'
    BY <1>10, <2>1, <2>2 DEF ProcessEnds, AuditNames
  <2>5. RowsRefer'
    BY <1>10, <2>1, <2>2 DEF ProcessEnds, RowsRefer, Exists
  <2>6. QED
    BY <1>10, <2>3, <2>4, <2>5 DEF ProcessEnds, FavoritesOwned, AdminsPromoted, LogTypeOK, Exists
<1>11. ASSUME NEW token \in tokens, Expire(token)
       PROVE  AuditInv'
  BY <1>11 DEF Expire, AuditNames, RowsRefer, FavoritesOwned, AdminsPromoted, LogTypeOK, Exists
<1>12. ASSUME NEW u \in Users, Promote(u) \/ Demote(u)
       PROVE  AuditInv'
  BY <1>12
  DEF Promote, Demote, AuditNames, RowsRefer, FavoritesOwned, AdminsPromoted, LogTypeOK, Exists
<1>13. CASE UNCHANGED accountsVars
  BY <1>13
  DEF accountsVars, AuditNames, RowsRefer, FavoritesOwned, AdminsPromoted, LogTypeOK, Exists
<1>14. QED
  BY <1>1, <1>2, <1>3, <1>4, <1>5, <1>6, <1>7, <1>8, <1>9, <1>10, <1>11, <1>12, <1>13
  DEF AccountsNext

LEMMA AuditInvariance == AccountsSpec => []AuditInv
<1>1. QED
  BY AuditInit, AuditStep, PTL DEF AccountsSpec

----------------------------------------------------------------------------

\* A stored audit row names the user who acted, or nobody if the request was
\* anonymous or that user has been hard deleted since, in whatever order the
\* goroutines of AuditLog run.
THEOREM AuditRowsNameTheActor == AccountsSpec => []AuditNames
<1>1. AuditInv => AuditNames
  BY DEF AuditInv
<1>2. QED
  BY <1>1, AuditInvariance, PTL

\* A favorite has an owner: a token that outlives its account adds none.
THEOREM FavoritesHaveOwners == AccountsSpec => []FavoritesOwned
<1>1. AuditInv => FavoritesOwned
  BY DEF AuditInv
<1>2. QED
  BY <1>1, AuditInvariance, PTL

\* Nobody is hard deleted unless by somebody who is or was an admin.
THEOREM DeletionNeedsAnAdmin == AccountsSpec => OnlyAdminsDelete
<1>1. AuditInv /\ [AccountsNext]_accountsVars
        => [\A u \in Users : account[u] # "gone" /\ account'[u] = "gone" =>
              log'[Len(log')].by \in promoted]_accountsVars
  <2> SUFFICES ASSUME AuditInv, AccountsNext,
                      NEW u \in Users, account[u] # "gone", account'[u] = "gone"
               PROVE  log'[Len(log')].by \in promoted
    OBVIOUS
  <2> USE DEF AuditInv
  <2>1. ASSUME NEW token \in tokens, NEW v \in Users, DeleteUser(token, v)
        PROVE  log'[Len(log')].by \in promoted
    <3>1. log'[Len(log')].by = token.user
      BY <2>1, HardDelete
    <3>2. QED
      BY <2>1, <3>1 DEF DeleteUser, RequireRole, AdminsPromoted
  <2>2. ASSUME NEW v \in Users, NEW e \in Emails, Register(v, e)
        PROVE  FALSE
    BY <2>2 DEF Register, LogTypeOK
  <2>3. ASSUME NEW token \in tokens, DeleteMe(token)
        PROVE  FALSE
    BY <2>3 DEF DeleteMe, LogTypeOK
  <2>4. ASSUME UNCHANGED account
        PROVE  FALSE
    BY <2>4
  <2>5. QED
    BY <2>1, <2>2, <2>3, <2>4
    DEF AccountsNext, Login, Promote, Demote, Refused, AddFavorite, RemoveFavorite,
        CreatePlaylist, Expire, DeletePlaylist, Insert, InsertFails, Becomes, ProcessEnds
<1>2. QED
  BY <1>1, AuditInvariance, PTL DEF AccountsSpec, OnlyAdminsDelete

\* A stored audit row stays as it is, but for the user of a row who is hard
\* deleted in that very step.
THEOREM AuditLogIsAppendOnly == AccountsSpec => AuditAppendOnly
<1>1. AuditInv /\ [AccountsNext]_accountsVars
        => [\A n \in DOMAIN log : log[n].row = "stored" =>
              /\ n \in DOMAIN log' /\ log'[n].row = "stored"
              /\ log'[n].user_id # log[n].user_id =>
                   account[log[n].by] # "gone" /\ account'[log[n].by] = "gone"]_accountsVars
  <2> SUFFICES ASSUME AuditInv, AccountsNext,
                      NEW n \in DOMAIN log, log[n].row = "stored"
               PROVE  /\ n \in DOMAIN log' /\ log'[n].row = "stored"
                      /\ log'[n].user_id # log[n].user_id =>
                           account[log[n].by] # "gone" /\ account'[log[n].by] = "gone"
    OBVIOUS
  <2> USE AccountsAssumption DEF AuditInv
  <2>a. log[n] \in Entries
    BY DEF LogTypeOK
  <2>b. ASSUME NEW by \in Users \cup {Nobody}, Audited(by)
        PROVE  n \in DOMAIN log' /\ log'[n] = log[n]
    BY <2>b, AppendedRow, n \in 1 .. Len(log) + 1 DEF LogTypeOK
  <2>c. \A token \in tokens : token.user \in Users
    BY DEF LogTypeOK, Claims
  <2>1. ASSUME NEW token \in tokens, NEW u \in Users, DeleteUser(token, u)
        PROVE  /\ n \in DOMAIN log' /\ log'[n].row = "stored"
               /\ log'[n].user_id # log[n].user_id =>
                    account[log[n].by] # "gone" /\ account'[log[n].by] = "gone"
    <3>1. /\ n \in DOMAIN log'
          /\ log'[n] = IF log[n].user_id = u THEN [log[n] EXCEPT !.user_id = Nobody]
                       ELSE log[n]
      <4>1. /\ DOMAIN log' = 1 .. Len(log) + 1 /\ DOMAIN log = 1 .. Len(log)
            /\ \A k \in DOMAIN log :
                 log'[k] = IF log[k].user_id = u THEN [log[k] EXCEPT !.user_id = Nobody]
                           ELSE log[k]
        BY <2>1, HardDelete
      <4>2. QED
        BY <4>1 DEF LogTypeOK
    <3>2. log'[n].row = "stored"
      BY <2>a, <3>1 DEF Entries
    <3>3. CASE log[n].user_id = u
      <4>1. log[n].by = u /\ Exists(u)
        BY <3>3 DEF AuditNames, RowsRefer
      <4>2. account[u] # "gone" /\ account'[u] = "gone"
        BY <2>1, <4>1 DEF DeleteUser, Exists, LogTypeOK
      <4>3. QED
        BY <3>1, <3>2, <4>1, <4>2
    <3>4. CASE log[n].user_id # u
      BY <3>1, <3>2, <3>4
    <3>5. QED
      BY <3>3, <3>4
  <2>2. ASSUME NEW k \in DOMAIN log, Insert(k) \/ InsertFails(k)
        PROVE  n \in DOMAIN log' /\ log'[n] = log[n]
    BY <2>2 DEF Insert, InsertFails, Becomes, LogTypeOK
  <2>3. ASSUME ProcessEnds
        PROVE  n \in DOMAIN log' /\ log'[n] = log[n]
    BY <2>3 DEF ProcessEnds
  <2>4. ASSUME NEW u \in Users, NEW e \in Emails, Register(u, e)
        PROVE  n \in DOMAIN log' /\ log'[n] = log[n]
    BY <2>4, <2>b DEF Register
  <2>5. ASSUME NEW u \in Users, Login(u)
        PROVE  n \in DOMAIN log' /\ log'[n] = log[n]
    BY <2>5, <2>b DEF Login
  <2>6. ASSUME NEW by \in Users \cup {Nobody}, Refused(by)
        PROVE  n \in DOMAIN log' /\ log'[n] = log[n]
    BY <2>6, <2>b DEF Refused
  <2>7. ASSUME NEW token \in tokens, Audited(token.user)
        PROVE  n \in DOMAIN log' /\ log'[n] = log[n]
    BY <2>7, <2>b, <2>c
  <2>8. ASSUME UNCHANGED log
        PROVE  n \in DOMAIN log' /\ log'[n] = log[n]
    BY <2>8
  <2>9. QED
    BY <2>1, <2>2, <2>3, <2>4, <2>5, <2>6, <2>7, <2>8
    DEF AccountsNext, DeleteMe, AddFavorite, RemoveFavorite, CreatePlaylist,
        DeletePlaylist, Expire, Promote, Demote
<1>2. QED
  BY <1>1, AuditInvariance, PTL DEF AccountsSpec, AuditAppendOnly
=============================================================================
