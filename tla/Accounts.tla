------------------------------ MODULE Accounts ------------------------------
(***************************************************************************)
(* Users of the controller, their sessions and second factors.             *)
(*                                                                         *)
(*   controller/guardian/api.py 320-1740, security.py, sessions.py,        *)
(*   identity.py, bootstrap.py                                             *)
(*                                                                         *)
(* Requests are handled by threads at READ COMMITTED.  A request reads the *)
(* row of its user when it is authenticated and the row of the user it is  *)
(* about a little later; it decides on these copies, and what it commits   *)
(* are the columns in which its copy was changed.  Only some handlers lock *)
(* or read again, and only some of what they decide on.  What a handler    *)
(* does from its first write to its commit is one step, because that write *)
(* locks the row for the others.                                           *)
(*                                                                         *)
(* Idle and absolute expiry end a session like logging out does.  A client *)
(* that makes a request knows the password of its user at that time.       *)
(***************************************************************************)
EXTENDS Naturals, FiniteSets

CONSTANTS
  Users,        \* identifiers of user rows
  Roles,        \* roles that are given
  Sessions,     \* identifiers of session rows
  Threads,      \* requests that may be under way at once
  Workloads,    \* bound: the kinds of requests there are, one set per behaviour
  MaxChanges,   \* bound: changes of the session version of a user
  MaxSecrets,   \* bound: secrets and batches of recovery codes issued to a user
  MaxTime,      \* bound: intervals of the one-time codes
  Absent,       \* no row yet
  Deleted,      \* the row was deleted
  Idle          \* no request

ROLE_ORDER == [viewer |-> 0, auditor |-> 0, operator |-> 1, admin |-> 2, owner |-> 3]

\* Requests about the user itself, and where forced_setup_required lets pass.
SelfOps  == {"logout", "step_up", "change_password", "setup_totp", "enable_totp", "confirm",
             "regenerate", "disable_totp", "revoke_others", "revoke_other"}
AdminOps == {"revoke_session", "revoke_sessions"}
OwnerOps == {"create", "update", "rotate_password", "delete"}
Ops      == SelfOps \cup AdminOps \cup OwnerOps
FORCED_PATHS == {"logout", "step_up", "change_password", "setup_totp", "enable_totp",
                 "confirm", "regenerate"}

VARIABLES
  user,       \* users rows
  session,    \* user_sessions rows
  codes,      \* batches of recovery codes with unused ones, by user
  issued,     \* secrets and batches issued to a user so far
  request,    \* what the threads are doing
  now,        \* the interval of the clock
  workload,   \* the kinds of requests there are
  epoch,      \* history: how often the authorization of a user was changed
  used,       \* history: one-time codes accepted
  twice,      \* history: users of whom a code was accepted twice
  overlapped, \* history: users whose factors changed under a request about them
  raced       \* history: the owner who went last was not one by the copy decided on

rowVars     == <<user, session, codes, issued>>
historyVars == <<epoch, used, twice, overlapped, raced>>
vars == <<rowVars, request, now, workload, historyVars>>

\* A row of users.  Zero stands for no secret, no counter and no confirmation;
\* "confirmed" is the batch that the confirmation was about.
Row == [role : Roles, active : BOOLEAN, password : {1, 2}, mustChange : BOOLEAN,
        enforced : BOOLEAN, version : Nat, totp : BOOLEAN, secret : Nat, pending : Nat,
        counter : Nat, confirmed : Nat]

\* A row of user_sessions; "over" is revoked, expired or deleted.
Session == [user : Users, kind : {"browser", "api"}, version : Nat, over : BOOLEAN,
            stepped : BOOLEAN, epoch : Nat]

ASSUME ConstantsAssumption ==
  /\ {"owner"} \subseteq Roles /\ Roles \subseteq DOMAIN ROLE_ORDER
  /\ Workloads \subseteq SUBSET Ops
  /\ MaxChanges \in Nat /\ MaxSecrets \in Nat /\ MaxTime \in Nat \ {0}
  /\ Absent \notin {Deleted} \cup Row \cup Session /\ Deleted \notin Row

\* A request: the copy of the row it is about, once that is read, and what it
\* remembers of the moment it was authenticated.
Request == [op : Ops, session : Sessions, target : Users, row : Row \cup {Absent},
            codes : SUBSET Nat, verified : BOOLEAN]

TypeOK ==
  /\ user \in [Users -> Row \cup {Absent, Deleted}]
  /\ session \in [Sessions -> Session \cup {Absent}]
  /\ codes \in [Users -> SUBSET Nat]
  /\ issued \in [Users -> Nat]
  /\ request \in [Threads -> Request \cup {Idle}]
  /\ now \in Nat \ {0}
  /\ workload \in Workloads
  /\ epoch \in [Users -> Nat]
  /\ used \subseteq Users \X Nat \X Nat
  /\ twice \subseteq Users /\ overlapped \subseteq Users
  /\ raced \in BOOLEAN

\* bootstrap.py ensure_user and create_user; users of the API start like the latter.
EnsuredUser(role) ==
  [role |-> role, active |-> TRUE, password |-> 1, mustChange |-> FALSE, enforced |-> FALSE,
   version |-> 1, totp |-> FALSE, secret |-> 0, pending |-> 0, counter |-> 0, confirmed |-> 0]
CreatedUser(role) == [EnsuredUser(role) EXCEPT !.mustChange = TRUE, !.enforced = TRUE]

Init ==
  /\ user \in [Users -> {Absent} \cup {EnsuredUser(role) : role \in Roles}]
       \cup {[u \in Users |-> IF u = first
                                THEN [CreatedUser("owner") EXCEPT !.pending = 1] ELSE Absent] :
               first \in Users}
  /\ \E u \in Users : user[u] # Absent /\ user[u].role = "owner"
  /\ session = [s \in Sessions |-> Absent]
  /\ codes = [u \in Users |-> {}]
  /\ issued = [u \in Users |-> 1]
  /\ request = [t \in Threads |-> Idle]
  /\ now = 1
  /\ workload \in Workloads
  /\ epoch = [u \in Users |-> 0]
  /\ used = {} /\ twice = {} /\ overlapped = {}
  /\ raced = FALSE

-----------------------------------------------------------------------------
(* Rows and sessions. *)

Exists(u) == user[u] \notin {Absent, Deleted}

ActiveOwners == {u \in Users : Exists(u) /\ user[u].role = "owner" /\ user[u].active}

\* _lock_active_owners waits for the rows and looks at their current values.
\* Variant: the one who goes counts.
SomeOwner(target) == ActiveOwners # {}
OtherOwner(target) == ActiveOwners \ {target} # {}

forced_setup_required(row) ==
  row.mustChange \/ (row.enforced /\ (~row.totp \/ row.confirmed = 0))

\* _other_verified_owner_exists
Verified(row) == ~row.mustChange /\ row.totp /\ row.confirmed # 0

\* What is written of a copy: the columns in which it was changed.
Merged(stored, copy, changed) ==
  [column \in DOMAIN stored |->
     IF changed[column] # copy[column] THEN changed[column] ELSE stored[column]]

\* get_current_user and browser_session_error
Valid(s) ==
  /\ session[s] # Absent /\ ~session[s].over
  /\ Exists(session[s].user)
  /\ user[session[s].user].active
  /\ session[s].version = user[session[s].user].version

NewSession(u, kind, version, e) ==
  [user |-> u, kind |-> kind, version |-> version, over |-> FALSE, stepped |-> FALSE,
   epoch |-> e]

End(S) == [s \in Sessions |-> IF s \in S THEN [session[s] EXCEPT !.over = TRUE] ELSE session[s]]

SessionsOf(u) == {s \in Sessions : session[s] # Absent /\ session[s].user = u}

\* revoke_sessions.  Variant: the version is left to do it.
VersionOnly(u) == session
RevokeSessions(u) == End(SessionsOf(u))

\* The authorization of u changes, and with it the session version.
Changes(u) ==
  /\ epoch[u] < MaxChanges
  /\ epoch' = [epoch EXCEPT ![u] = @ + 1]

-----------------------------------------------------------------------------
(* One-time codes and recovery codes. *)

\* totp_counter_for_code: a code is known by the interval it belongs to.
Window == (now - 1) .. (now + 1)

\* verify_totp.  Variant: the code of the last counter is good as well.
FreshOrLast(row, c) == row.totp /\ c >= row.counter
Fresh(row, c) == row.totp /\ c > row.counter

Use(u, secret, c) ==
  /\ used' = used \cup {<<u, secret, c>>}
  /\ twice' = IF <<u, secret, c>> \in used THEN twice \cup {u} ELSE twice

\* A code is verified and its counter recorded.  The counter is computed anew,
\* and if its interval ends in between there is none.
Accept(u, row, c, counter) ==
  /\ c \in Window /\ c # 0
  /\ Fresh(row, c)
  /\ \/ counter = c /\ UNCHANGED now
     \/ c < now /\ now < MaxTime /\ counter = 0 /\ now' = now + 1
  /\ Use(u, row.secret, c)

NoFactor == UNCHANGED <<now, used, twice>>

\* generate_recovery_code_batch, where the batches "old" are seen and revoked.
NewBatch(u, old) ==
  /\ issued[u] < MaxSecrets
  /\ issued' = [issued EXCEPT ![u] = @ + 1]
  /\ codes' = [codes EXCEPT ![u] = (@ \ old) \cup {issued[u] + 1}]

-----------------------------------------------------------------------------
(* Requests. *)

\* _authenticate_login, which locks the row of the user until the session is there:
\* a one-time code or a recovery code, if the user has a second factor.
PassFactor(u) ==
  \/ ~user[u].totp /\ UNCHANGED <<user, codes>> /\ NoFactor
  \/ \E c \in Window, counter \in Window \cup {0} :
       /\ Accept(u, user[u], c, counter)
       /\ user' = [user EXCEPT ![u].counter = counter]
       /\ UNCHANGED codes
  \/ \E b \in codes[u] :
       /\ codes' \in {codes, [codes EXCEPT ![u] = @ \ {b}]}
       /\ UNCHANGED user /\ NoFactor

\* login and browser_login
Login(u, kind, s) ==
  /\ session[s] = Absent
  /\ Exists(u) /\ user[u].active
  /\ PassFactor(u)
  /\ session' = [session EXCEPT ![s] = NewSession(u, kind, user[u].version, epoch[u])]
  /\ UNCHANGED <<issued, request, workload, epoch, overlapped, raced>>

NeedsStepUp(op) == op \notin {"logout", "step_up", "confirm"}
Required(op) == IF op \in OwnerOps THEN "owner" ELSE IF op \in AdminOps THEN "admin" ELSE "viewer"

\* get_current_user, require_role and _require_step_up
Authenticate(t, s, op, target) ==
  /\ request[t] = Idle
  /\ op \in workload
  /\ Valid(s)
  /\ LET u == session[s].user
         row == user[u] IN
       /\ ROLE_ORDER[row.role] >= ROLE_ORDER[Required(op)]
       /\ forced_setup_required(row) => op \in FORCED_PATHS
       /\ session[s].kind = "browser" => (NeedsStepUp(op) => session[s].stepped)
       /\ op = "step_up" => session[s].kind = "browser"
       /\ op \in SelfOps => target = u
       /\ request' = [request EXCEPT ![t] =
            [op |-> op, session |-> s, target |-> target,
             row |-> IF target = u THEN row ELSE Absent,
             codes |-> codes[u], verified |-> Verified(row)]]
  /\ UNCHANGED <<rowVars, now, workload, historyVars>>

\* db.get of another user
ReadTarget(t) ==
  /\ request[t] # Idle
  /\ request[t].row = Absent
  /\ Exists(request[t].target)
  /\ request' = [request EXCEPT ![t].row = user[request[t].target]]
  /\ UNCHANGED <<rowVars, now, workload, historyVars>>

Done(t) == request' = [request EXCEPT ![t] = Idle]

\* A request is refused, or fails because its row is gone.
Drop(t) ==
  /\ request[t] # Idle
  /\ Done(t)
  /\ UNCHANGED <<rowVars, now, workload, historyVars>>

\* Thread t is about to commit a request of this kind.
Commits(t, op) ==
  /\ request[t] # Idle
  /\ request[t].op = op
  /\ request[t].row # Absent
  /\ Exists(request[t].target)
  /\ Done(t)
  /\ UNCHANGED workload

Store(u, copy, changed) == user' = [user EXCEPT ![u] = Merged(@, copy, changed)]

Factors(row) == <<row.totp, row.secret, row.pending, row.counter, row.confirmed>>

\* A request about the factors of its user writes its copy.
StoreFactors(t, changed) ==
  LET r == request[t]
      u == r.target IN
    /\ Store(u, r.row, changed)
    /\ overlapped' = IF Factors(user[u]) # Factors(r.row) \/ codes[u] # r.codes
                       THEN overlapped \cup {u} ELSE overlapped

\* A bearer proves its factor with a code, a browser has stepped up.
Proof(t, counter) ==
  LET r == request[t] IN
    IF session[r.session].kind = "api"
      THEN \E c \in Window : Accept(r.target, r.row, c, counter)
      ELSE counter = r.row.counter /\ NoFactor

Bystanders == UNCHANGED <<epoch, raced>>

-----------------------------------------------------------------------------
(* What users do about themselves. *)

\* logout and revoke_current_session
Logout(t) ==
  /\ Commits(t, "logout")
  /\ session' = End({request[t].session})
  /\ UNCHANGED <<user, codes, issued, now, historyVars>>

\* create_step_up_window
StepUp(t) ==
  /\ Commits(t, "step_up")
  /\ LET r == request[t] IN
       /\ \/ ~r.row.totp /\ StoreFactors(t, r.row) /\ NoFactor
          \/ \E c \in Window, counter \in Window \cup {0} :
               /\ Accept(r.target, r.row, c, counter)
               /\ StoreFactors(t, [r.row EXCEPT !.counter = counter])
       /\ session' = [session EXCEPT ![r.session].stepped = TRUE]
  /\ UNCHANGED <<codes, issued>> /\ Bystanders

\* change_password reads its user again, locked.  The current session goes on,
\* that of a browser under a new identifier.
ChangePassword(t, s) ==
  /\ Commits(t, "change_password")
  /\ LET r == request[t]
         u == r.target
         current == r.session
         version == user[u].version + 1 IN
       /\ user[u].password = r.row.password
       /\ Changes(u)
       /\ user' = [user EXCEPT ![u] = [user[u] EXCEPT !.password = 3 - @, !.mustChange = FALSE,
                                                      !.version = version]]
       /\ IF session[current].kind = "browser"
            THEN /\ session[s] = Absent
                 /\ session' = [RevokeSessions(u) EXCEPT
                      ![s] = NewSession(u, "browser", version, epoch[u] + 1)]
            ELSE /\ s = current
                 /\ session' = [RevokeSessions(u) EXCEPT
                      ![s] = [session[s] EXCEPT !.version = version, !.epoch = epoch[u] + 1]]
  /\ UNCHANGED <<codes, issued, now, used, twice, overlapped, raced>>

\* setup_totp
SetupTotp(t) ==
  /\ Commits(t, "setup_totp")
  /\ LET r == request[t]
         u == r.target IN
       /\ ~r.row.totp
       /\ issued[u] < MaxSecrets
       /\ issued' = [issued EXCEPT ![u] = @ + 1]
       /\ StoreFactors(t, [r.row EXCEPT !.pending = issued[u] + 1])
  /\ UNCHANGED <<session, codes>> /\ NoFactor /\ Bystanders

\* enable_totp: the pending secret is confirmed, or it is too old.
EnableTotp(t) ==
  /\ Commits(t, "enable_totp")
  /\ LET r == request[t]
         u == r.target IN
       /\ r.row.pending # 0
       /\ \/ \E c \in Window \ {0} :
               /\ StoreFactors(t, [r.row EXCEPT !.secret = r.row.pending, !.pending = 0,
                                     !.totp = TRUE, !.counter = c, !.confirmed = 0])
               /\ Use(u, r.row.pending, c)
               /\ NewBatch(u, codes[u])
          \/ /\ StoreFactors(t, [r.row EXCEPT !.pending = 0])
             /\ UNCHANGED <<used, twice, codes, issued>>
  /\ UNCHANGED <<session, now>> /\ Bystanders

\* confirm_recovery_codes: the user has seen a batch, if there was one.
Confirm(t) ==
  /\ Commits(t, "confirm")
  /\ LET r == request[t]
         u == r.target IN
       /\ r.row.totp /\ codes[u] # {}
       /\ \E b \in IF r.codes = {} THEN {1} ELSE r.codes :
            user' = [user EXCEPT ![u].confirmed = b]
       /\ overlapped' = IF Factors(user[u]) # Factors(r.row) \/ codes[u] # r.codes
                          THEN overlapped \cup {u} ELSE overlapped
  /\ UNCHANGED <<session, codes, issued>> /\ NoFactor /\ Bystanders

\* regenerate_recovery_codes.  A bearer holds its row by then; the statement of a
\* browser may have begun before another request committed its batch.
Regenerate(t) ==
  /\ Commits(t, "regenerate")
  /\ LET r == request[t]
         u == r.target IN
       \E counter \in Window \cup {0, r.row.counter} :
         /\ Proof(t, counter)
         /\ StoreFactors(t, [r.row EXCEPT !.counter = counter, !.confirmed = 0])
         /\ \E old \in {codes[u]} \cup
                         (IF session[r.session].kind = "browser" THEN {r.codes} ELSE {}) :
              NewBatch(u, old)
  /\ UNCHANGED session /\ Bystanders

\* disable_totp
DisableTotp(t) ==
  /\ Commits(t, "disable_totp")
  /\ LET r == request[t]
         u == r.target IN
       /\ r.row.totp
       /\ \E counter \in Window \cup {0, r.row.counter} : Proof(t, counter)
       /\ Changes(u)
       /\ StoreFactors(t, [r.row EXCEPT !.totp = FALSE, !.secret = 0, !.counter = 0,
                             !.confirmed = 0, !.version = r.row.version + 1])
       /\ codes' = [codes EXCEPT ![u] = {}]
       /\ session' = RevokeSessions(u)
  /\ UNCHANGED <<issued, raced>>

\* revoke_own_other_sessions and revoke_own_other_session
RevokeOthers(t) ==
  /\ LET r == request[t] IN
       \/ /\ Commits(t, "revoke_others")
          /\ session' = End(SessionsOf(r.target) \ {r.session})
       \/ /\ Commits(t, "revoke_other")
          /\ \E s \in SessionsOf(r.target) \ {r.session} : session' = End({s})
  /\ UNCHANGED <<user, codes, issued, now, historyVars>>

-----------------------------------------------------------------------------
(* What administrators and owners do about others, or themselves. *)

\* The rows of owners are current, except that of the user who asks.
OtherVerifiedOwner(r) ==
  \E owner \in ActiveOwners \ {r.target} :
    IF owner = session[r.session].user THEN r.verified ELSE Verified(user[owner])

\* revoke_user_session
RevokeSession(t, s) ==
  /\ Commits(t, "revoke_session")
  /\ LET r == request[t]
         active == {x \in SessionsOf(r.target) : ~session[x].over} IN
       /\ s \in active
       /\ r.row.role = "owner" /\ r.row.active /\ Cardinality(active) <= 1 =>
            OtherVerifiedOwner(r)
  /\ session' = End({s})
  /\ UNCHANGED <<user, codes, issued, now, historyVars>>

\* The version goes on from that of the copy; the sessions there are, end.
Invalidate(t, changed) ==
  LET r == request[t]
      u == r.target IN
    /\ Changes(u)
    /\ Store(u, r.row, [changed EXCEPT !.version = r.row.version + 1])
    /\ session' = RevokeSessions(u)
    /\ UNCHANGED <<codes, issued, now, used, twice, overlapped>>

\* revoke_user_sessions
RevokeUserSessions(t) ==
  /\ Commits(t, "revoke_sessions")
  /\ LET r == request[t] IN
       /\ r.row.role = "owner" /\ r.row.active => OtherVerifiedOwner(r)
       /\ Invalidate(t, r.row)
  /\ UNCHANGED raced

\* rotate_user_password
RotatePassword(t) ==
  /\ Commits(t, "rotate_password")
  /\ LET row == request[t].row IN
       Invalidate(t, [row EXCEPT !.password = 3 - @, !.mustChange = TRUE])
  /\ UNCHANGED raced

\* If the stored row stops being that of an active owner, the handler has counted
\* the others, which it does when the copy is that of an owner, or it has not.
Race(t, counted) ==
  raced' = IF request[t].target \in ActiveOwners \ ActiveOwners' THEN ~counted ELSE raced

\* update_user with a role, an activity or scopes that differ.
UpdateUser(t) ==
  /\ Commits(t, "update")
  /\ LET r == request[t] IN
       \E role \in Roles, active \in BOOLEAN :
         /\ r.row.role = "owner" /\ (role # "owner" \/ ~active) => OtherOwner(r.target)
         /\ Invalidate(t, [r.row EXCEPT !.role = role, !.active = active])
  /\ Race(t, request[t].row.role = "owner")

\* create_user
CreateUser(t) ==
  /\ request[t] # Idle /\ request[t].op = "create"
  /\ user[request[t].target] = Absent
  /\ \E role \in Roles : user' = [user EXCEPT ![request[t].target] = CreatedUser(role)]
  /\ Done(t)
  /\ UNCHANGED <<session, codes, issued, now, workload, historyVars>>

\* delete_user; its sessions and recovery codes go with it.
DeleteUser(t) ==
  /\ Commits(t, "delete")
  /\ LET r == request[t]
         u == r.target IN
       /\ r.row.role = "owner" /\ r.row.active => ActiveOwners = {} \/ OtherOwner(u)
       /\ user' = [user EXCEPT ![u] = Deleted]
       /\ session' = RevokeSessions(u)
       /\ codes' = [codes EXCEPT ![u] = {}]
       /\ Race(t, r.row.role = "owner" /\ r.row.active)
  /\ UNCHANGED <<issued, now, epoch, used, twice, overlapped>>

\* Idle or absolute expiry.
Expire(s) ==
  /\ session[s] # Absent /\ ~session[s].over
  /\ session' = End({s})
  /\ UNCHANGED <<user, codes, issued, request, now, workload, historyVars>>

\* Time matters to one-time codes only.
Tick ==
  /\ now < MaxTime
  /\ \E u \in Users : Exists(u) /\ (user[u].totp \/ user[u].pending # 0)
  /\ now' = now + 1
  /\ UNCHANGED <<rowVars, request, workload, historyVars>>

-----------------------------------------------------------------------------

Next ==
  \/ \E u \in Users, kind \in {"browser", "api"}, s \in Sessions : Login(u, kind, s)
  \/ \E t \in Threads, s \in Sessions, op \in Ops, u \in Users : Authenticate(t, s, op, u)
  \/ \E t \in Threads :
       \/ ReadTarget(t) \/ Drop(t)
       \/ Logout(t) \/ StepUp(t) \/ SetupTotp(t) \/ EnableTotp(t) \/ Confirm(t)
       \/ Regenerate(t) \/ DisableTotp(t) \/ RevokeOthers(t)
       \/ RevokeUserSessions(t) \/ RotatePassword(t)
       \/ UpdateUser(t) \/ CreateUser(t) \/ DeleteUser(t)
       \/ \E s \in Sessions : ChangePassword(t, s) \/ RevokeSession(t, s)
  \/ \E s \in Sessions : Expire(s)
  \/ Tick

Spec == Init /\ [][Next]_vars

-----------------------------------------------------------------------------

\* "The last active Owner cannot be disabled or demoted" (SECURITY_MODEL.md): this
\* is what the documents say, and what the code does not keep up.
LastOwnerStays == ActiveOwners # {}

\* What the code keeps up: however owners demote, disable and delete each other at
\* the same time (update_user and delete_user lock all owners and count those that
\* are left), the last one only goes if he became an active owner after the handler
\* that demotes, disables or deletes him had read his row.
OwnerRemains == ActiveOwners = {} => raced

\* A session that is accepted was opened, or kept by a change of the password,
\* after the last time its user was given a role, scopes or a password, lost the
\* second factor or had all access revoked.  The version alone would not do: two
\* handlers that read it at the same time write the same one.
SessionsCurrent == \A s \in Sessions : Valid(s) => session[s].epoch = epoch[session[s].user]

\* While no two requests about the factors of a user overlap: no code is accepted
\* twice (last_totp_counter), the recovery codes are those of one batch, and what
\* the user confirmed to have saved is that batch.
FactorsSound ==
  \A u \in Users \ overlapped :
    /\ u \notin twice
    /\ Cardinality(codes[u]) <= 1
    /\ Exists(u) /\ user[u].confirmed # 0 => codes[u] \subseteq {user[u].confirmed}
=============================================================================
