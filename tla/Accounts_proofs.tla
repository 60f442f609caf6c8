--------------------------- MODULE Accounts_proofs ---------------------------
(***************************************************************************)
(* Proofs about users, their sessions and second factors, for any users,   *)
(* sessions and requests under way, and without bounds on what they do.    *)
(***************************************************************************)
EXTENDS Accounts, FiniteSetTheorems, TLAPS

USE DEF rowVars, historyVars

-----------------------------------------------------------------------------
(* The inductive invariant.                                                  *)

\* The session of a request exists, and belongs to the user of a request that
\* is about the user itself.
Held ==
  \A t \in Threads :
    request[t] # Idle =>
      /\ session[request[t].session] # Absent
      /\ request[t].op \in SelfOps => session[request[t].session].user = request[t].target

\* Whatever changes the authorization of a user ends its sessions; the versions
\* would not do.
NoneOutdated ==
  \A s \in Sessions :
    session[s] # Absent /\ ~session[s].over => session[s].epoch = epoch[session[s].user]

IInv ==
  /\ TypeOK
  /\ Held
  /\ NoneOutdated
  /\ OwnerRemains

LEMMA ConstantFacts ==
  /\ "owner" \in Roles
  /\ Absent # Deleted /\ Absent \notin Row /\ Absent \notin Session /\ Deleted \notin Row
  /\ MaxTime \in Nat
BY ConstantsAssumption

-----------------------------------------------------------------------------
(* What a step must see to, variable by variable.                            *)

GoodUsers == user' \in [Users -> Row \cup {Absent, Deleted}]
GoodCodes == codes' \in [Users -> SUBSET Nat] /\ issued' \in [Users -> Nat]
GoodFactors ==
  now' \in Nat \ {0} /\ used' \subseteq Users \X Nat \X Nat /\ twice' \subseteq Users
GoodHistory == epoch' \in [Users -> Nat] /\ overlapped' \subseteq Users /\ raced' \in BOOLEAN

GoodSessions ==
  /\ session' \in [Sessions -> Session \cup {Absent}]
  /\ \A s \in Sessions :
       session[s] # Absent => session'[s] # Absent /\ session'[s].user = session[s].user
  /\ NoneOutdated'

GoodRequests ==
  /\ request' \in [Threads -> Request \cup {Idle}]
  /\ \A t \in Threads :
       request'[t] # Idle =>
         /\ request[t] # Idle
         /\ request'[t].op = request[t].op
         /\ request'[t].session = request[t].session
         /\ request'[t].target = request[t].target
  /\ workload' = workload

LEMMA Preserved ==
  ASSUME IInv, GoodUsers, GoodCodes, GoodFactors, GoodHistory, GoodSessions, GoodRequests,
         OwnerRemains'
  PROVE  IInv'
<1>1. TypeOK'
  BY Zenon DEF IInv, TypeOK, GoodUsers, GoodCodes, GoodFactors, GoodHistory, GoodSessions,
               GoodRequests
<1>2. Held'
  <2> SUFFICES ASSUME NEW t \in Threads, request'[t] # Idle
               PROVE  /\ session'[request'[t].session] # Absent
                      /\ request'[t].op \in SelfOps =>
                           session'[request'[t].session].user = request'[t].target
    BY Zenon DEF Held
  <2>1. /\ request[t] # Idle /\ request[t] \in Request
        /\ request'[t].op = request[t].op
        /\ request'[t].session = request[t].session
        /\ request'[t].target = request[t].target
    BY DEF GoodRequests, IInv, TypeOK
  <2>2. request[t].session \in Sessions
    BY <2>1 DEF Request
  <2> QED BY <2>1, <2>2 DEF IInv, Held, GoodSessions
<1> QED BY <1>1, <1>2 DEF IInv, GoodSessions

\* An owner is lost only by a change of role or activity, or by a deletion.
LEMMA OwnersStay ==
  ASSUME IInv, raced' = raced,
         \A u \in Users : Exists(u) => /\ Exists(u)'
                                       /\ user'[u].role = user[u].role
                                       /\ user'[u].active = user[u].active
  PROVE  OwnerRemains'
BY Zenon DEF IInv, OwnerRemains, ActiveOwners

LEMMA MergedFacts ==
  ASSUME NEW stored \in Row, NEW copy \in Row, NEW changed \in Row
  PROVE  /\ Merged(stored, copy, changed) \in Row
         /\ Merged(stored, copy, changed).role =
              IF changed.role # copy.role THEN changed.role ELSE stored.role
         /\ Merged(stored, copy, changed).active =
              IF changed.active # copy.active THEN changed.active ELSE stored.active
BY DEF Merged, Row

LEMMA EndFacts ==
  ASSUME TypeOK, NEW S, \A s \in S : session[s] # Absent
  PROVE  /\ End(S) \in [Sessions -> Session \cup {Absent}]
         /\ \A s \in Sessions :
              session[s] # Absent =>
                /\ End(S)[s] # Absent
                /\ End(S)[s].user = session[s].user
                /\ End(S)[s].epoch = session[s].epoch
                /\ ~End(S)[s].over => ~session[s].over /\ s \notin S
         /\ \A s \in Sessions : session[s] = Absent => End(S)[s] = Absent
<1>1. \A s \in Sessions : End(S)[s] = IF s \in S THEN [session[s] EXCEPT !.over = TRUE]
                                                ELSE session[s]
  BY DEF End
<1>2. \A s \in S \cap Sessions :
        /\ [session[s] EXCEPT !.over = TRUE] \in Session
        /\ [session[s] EXCEPT !.over = TRUE].user = session[s].user
        /\ [session[s] EXCEPT !.over = TRUE].epoch = session[s].epoch
        /\ [session[s] EXCEPT !.over = TRUE].over
  BY DEF TypeOK, Session
<1>3. End(S) \in [Sessions -> Session \cup {Absent}]
  <2>1. \A s \in Sessions : session[s] \in Session \cup {Absent}
    BY DEF TypeOK
  <2>2. \A s \in Sessions : (IF s \in S THEN [session[s] EXCEPT !.over = TRUE] ELSE session[s])
                             \in Session \cup {Absent}
    BY <1>2, <2>1
  <2> QED BY <2>2 DEF End
<1>4. ASSUME NEW s \in Sessions, session[s] # Absent
      PROVE  /\ End(S)[s] \in Session
             /\ End(S)[s].user = session[s].user
             /\ End(S)[s].epoch = session[s].epoch
             /\ ~End(S)[s].over => ~session[s].over /\ s \notin S
  <2>1. session[s] \in Session
    BY <1>4 DEF TypeOK
  <2>2. CASE s \in S
    BY <1>1, <1>2, <2>2
  <2>3. CASE s \notin S
    BY <1>1, <2>1, <2>3
  <2> QED BY <2>2, <2>3
<1>5. Absent \notin Session
  BY ConstantFacts
<1>6. ASSUME NEW s \in Sessions, session[s] = Absent PROVE End(S)[s] = Absent
  BY <1>1, <1>6
<1> QED BY <1>3, <1>4, <1>5, <1>6

LEMMA SessionsUntouched ==
  ASSUME IInv, UNCHANGED <<session, epoch>>
  PROVE  GoodSessions
BY Zenon DEF GoodSessions, IInv, TypeOK, NoneOutdated

LEMMA SessionsEnded ==
  ASSUME IInv, NEW S, \A s \in S : session[s] # Absent, session' = End(S), UNCHANGED epoch
  PROVE  GoodSessions
BY EndFacts DEF GoodSessions, IInv, NoneOutdated

\* A user's authorization changes or the user is deleted.
LEMMA AccessRevoked ==
  ASSUME IInv, NEW u \in Users, session' = RevokeSessions(u), Changes(u) \/ UNCHANGED epoch
  PROVE  GoodSessions /\ epoch' \in [Users -> Nat]
<1>1. \A s \in SessionsOf(u) : session[s] # Absent
  BY DEF SessionsOf
<1>2. epoch' \in [Users -> Nat] /\ \A v \in Users \ {u} : epoch'[v] = epoch[v]
  BY DEF Changes, IInv, TypeOK
<1>3. \A s \in Sessions : session[s] # Absent /\ s \notin SessionsOf(u) =>
                            session[s].user \in Users \ {u}
  BY DEF SessionsOf, IInv, TypeOK, Session
<1>4. NoneOutdated'
  <2> SUFFICES ASSUME NEW s \in Sessions, session'[s] # Absent, ~session'[s].over
               PROVE  session'[s].epoch = epoch'[session'[s].user]
    BY DEF NoneOutdated
  <2>1. /\ session[s] # Absent /\ ~session[s].over /\ s \notin SessionsOf(u)
        /\ session'[s].user = session[s].user /\ session'[s].epoch = session[s].epoch
    BY <1>1, EndFacts DEF RevokeSessions, IInv
  <2> QED BY <1>2, <1>3, <2>1 DEF IInv, NoneOutdated
<1> QED BY <1>1, <1>2, <1>4, EndFacts DEF GoodSessions, RevokeSessions, IInv

-----------------------------------------------------------------------------
(* Requests.                                                                 *)

LEMMA DoneFacts ==
  ASSUME IInv, NEW t \in Threads, Done(t), UNCHANGED workload
  PROVE  GoodRequests
BY DEF Done, GoodRequests, IInv, TypeOK

LEMMA CommitFacts ==
  ASSUME IInv, NEW t \in Threads, NEW op, Commits(t, op)
  PROVE  /\ GoodRequests
         /\ request[t] \in Request /\ request[t].op = op
         /\ request[t].session \in Sessions
         /\ request[t].target \in Users
         /\ request[t].row \in Row
         /\ request[t].codes \subseteq Nat
         /\ user[request[t].target] \in Row
         /\ session[request[t].session] # Absent
         /\ session[request[t].session] \in Session
         /\ op \in SelfOps => session[request[t].session].user = request[t].target
<1>1. request[t] \in Request /\ request[t] # Idle /\ request[t].op = op
      /\ request[t].row # Absent /\ Exists(request[t].target)
  BY DEF Commits, IInv, TypeOK
<1>2. /\ request[t].session \in Sessions /\ request[t].target \in Users
      /\ request[t].row \in Row /\ request[t].codes \subseteq Nat
  BY <1>1 DEF Request
<1>3. user[request[t].target] \in Row
  BY <1>1, <1>2 DEF Exists, IInv, TypeOK
<1>4. /\ session[request[t].session] # Absent
      /\ op \in SelfOps => session[request[t].session].user = request[t].target
  BY <1>1 DEF IInv, Held
<1>5. session[request[t].session] \in Session
  BY <1>2, <1>4 DEF IInv, TypeOK
<1>6. GoodRequests
  BY DoneFacts DEF Commits
<1> QED BY <1>1, <1>2, <1>3, <1>4, <1>5, <1>6

\* Only one row is written, and role and activity as the copy says.
LEMMA StoreFacts ==
  ASSUME IInv, NEW u \in Users, user[u] \in Row, NEW copy \in Row, NEW changed \in Row,
         Store(u, copy, changed)
  PROVE  /\ GoodUsers
         /\ \A v \in Users \ {u} : user'[v] = user[v]
         /\ user'[u] \in Row
         /\ user'[u].role = IF changed.role # copy.role THEN changed.role ELSE user[u].role
         /\ user'[u].active = IF changed.active # copy.active
                                THEN changed.active ELSE user[u].active
<1> DEFINE row == Merged(user[u], copy, changed)
<1>1. user' = [user EXCEPT ![u] = row]
  BY DEF Store
<1>2. /\ row \in Row
      /\ row.role = IF changed.role # copy.role THEN changed.role ELSE user[u].role
      /\ row.active = IF changed.active # copy.active THEN changed.active ELSE user[u].active
  BY MergedFacts
<1> HIDE DEF row
<1> QED BY <1>1, <1>2 DEF GoodUsers, IInv, TypeOK

\* Nobody's role or activity changes.
LEMMA RolesKept ==
  ASSUME IInv, NEW u \in Users, user[u] \in Row, user'[u] \in Row,
         user'[u].role = user[u].role, user'[u].active = user[u].active,
         \A v \in Users \ {u} : user'[v] = user[v],
         UNCHANGED raced
  PROVE  OwnerRemains'
<1>1. \A v \in Users : Exists(v) => /\ Exists(v)'
                                    /\ user'[v].role = user[v].role
                                    /\ user'[v].active = user[v].active
  BY ConstantFacts DEF Exists
<1> QED BY <1>1, OwnersStay

\* A request about the user's own factors keeps role and activity.
LEMMA FactorsStored ==
  ASSUME IInv, NEW t \in Threads, NEW op, Commits(t, op), NEW changed \in Row,
         StoreFactors(t, changed),
         changed.role = request[t].row.role, changed.active = request[t].row.active,
         UNCHANGED raced
  PROVE  GoodUsers /\ overlapped' \subseteq Users /\ OwnerRemains'
<1>1. PICK u \in Users, copy \in Row : u = request[t].target /\ copy = request[t].row
  BY CommitFacts
<1>2. user[u] \in Row
  BY <1>1, CommitFacts
<1>3. Store(u, copy, changed) /\ overlapped' \in {overlapped, overlapped \cup {u}}
  BY <1>1 DEF StoreFactors
<1>4. /\ GoodUsers /\ user'[u] \in Row
      /\ user'[u].role = user[u].role /\ user'[u].active = user[u].active
      /\ \A v \in Users \ {u} : user'[v] = user[v]
  BY <1>1, <1>2, <1>3, StoreFacts
<1>5. OwnerRemains'
  BY <1>2, <1>4, RolesKept
<1> QED BY <1>3, <1>4, <1>5 DEF IInv, TypeOK

-----------------------------------------------------------------------------
(* Codes.                                                                    *)

LEMMA UseFacts ==
  ASSUME IInv, NEW u \in Users, NEW secret \in Nat, NEW c \in Nat, Use(u, secret, c)
  PROVE  used' \subseteq Users \X Nat \X Nat /\ twice' \subseteq Users
BY DEF Use, IInv, TypeOK

LEMMA AcceptFacts ==
  ASSUME IInv, NEW u \in Users, NEW row \in Row, NEW c \in Window, NEW counter,
         Accept(u, row, c, counter)
  PROVE  GoodFactors /\ counter \in Nat
<1>1. now \in Nat \ {0} /\ c \in Nat
  BY DEF IInv, TypeOK, Window
<1>2. row.secret \in Nat
  BY DEF Row
<1>3. now' \in Nat \ {0} /\ counter \in Nat
  BY <1>1 DEF Accept
<1>4. used' \subseteq Users \X Nat \X Nat /\ twice' \subseteq Users
  BY <1>1, <1>2, UseFacts DEF Accept
<1> QED BY <1>3, <1>4 DEF GoodFactors

LEMMA NoFactorFacts ==
  ASSUME IInv, NoFactor
  PROVE  GoodFactors
BY Zenon DEF NoFactor, GoodFactors, IInv, TypeOK

LEMMA NewBatchFacts ==
  ASSUME IInv, NEW u \in Users, NEW old, NewBatch(u, old)
  PROVE  GoodCodes
<1>1. issued' \in [Users -> Nat] /\ issued[u] + 1 \in Nat
  BY DEF NewBatch, IInv, TypeOK
<1>2. codes' \in [Users -> SUBSET Nat]
  <2>1. codes[u] \subseteq Nat
    BY DEF IInv, TypeOK
  <2>2. (codes[u] \ old) \cup {issued[u] + 1} \subseteq Nat
    BY <1>1, <2>1
  <2> QED BY <2>2 DEF NewBatch, IInv, TypeOK
<1> QED BY <1>1, <1>2 DEF GoodCodes

-----------------------------------------------------------------------------
(* The steps.                                                                *)

LEMMA Untouched ==
  ASSUME IInv
  PROVE  /\ user' = user => GoodUsers
         /\ UNCHANGED <<codes, issued>> => GoodCodes
         /\ UNCHANGED <<epoch, overlapped, raced>> => GoodHistory
         /\ UNCHANGED <<now, used, twice>> => GoodFactors
         /\ UNCHANGED <<request, workload>> => GoodRequests
         /\ UNCHANGED <<session, epoch>> => GoodSessions
         /\ UNCHANGED <<user, raced>> => OwnerRemains'
<1>1. UNCHANGED <<request, workload>> => GoodRequests
  BY Zenon DEF IInv, TypeOK, GoodRequests
<1>2. UNCHANGED <<user, raced>> => OwnerRemains'
  BY OwnersStay DEF Exists
<1>3. user' = user => GoodUsers
  BY Zenon DEF IInv, TypeOK, GoodUsers
<1>4. UNCHANGED <<codes, issued>> => GoodCodes
  BY Zenon DEF IInv, TypeOK, GoodCodes
<1>5. UNCHANGED <<epoch, overlapped, raced>> => GoodHistory
  BY Zenon DEF IInv, TypeOK, GoodHistory
<1>6. UNCHANGED <<now, used, twice>> => GoodFactors
  BY NoFactorFacts DEF NoFactor
<1> QED BY <1>1, <1>2, <1>3, <1>4, <1>5, <1>6, SessionsUntouched

\* The counter of a row is the only column written.
LEMMA CounterFacts ==
  ASSUME IInv, NEW u \in Users, user[u] \in Row, NEW counter \in Nat,
         user' = [user EXCEPT ![u].counter = counter], UNCHANGED raced
  PROVE  GoodUsers /\ OwnerRemains'
<1> DEFINE row == [user[u] EXCEPT !.counter = counter]
<1>1. row \in Row /\ row.role = user[u].role /\ row.active = user[u].active
  BY DEF Row
<1>2. user' = [user EXCEPT ![u] = row]
  OBVIOUS
<1> HIDE DEF row
<1>3. GoodUsers /\ user'[u] = row /\ \A v \in Users \ {u} : user'[v] = user[v]
  BY <1>1, <1>2 DEF GoodUsers, IInv, TypeOK
<1> QED BY <1>1, <1>3, RolesKept

LEMMA LoginStep ==
  ASSUME IInv, NEW u \in Users, NEW kind \in {"browser", "api"}, NEW s \in Sessions,
         Login(u, kind, s)
  PROVE  IInv'
<1> DEFINE fresh == NewSession(u, kind, user[u].version, epoch[u])
<1>1. /\ session[s] = Absent /\ user[u] \in Row /\ session' = [session EXCEPT ![s] = fresh]
      /\ UNCHANGED <<issued, request, workload, epoch, overlapped, raced>>
  BY DEF Login, Exists, IInv, TypeOK
<1>2. GoodUsers /\ OwnerRemains' /\ codes' \in [Users -> SUBSET Nat] /\ GoodFactors
  <2>1. CASE ~user[u].totp /\ UNCHANGED <<user, codes>> /\ NoFactor
    BY <1>1, <2>1, Untouched, NoFactorFacts DEF IInv, TypeOK
  <2>2. CASE \E c \in Window, counter \in Window \cup {0} :
               /\ Accept(u, user[u], c, counter)
               /\ user' = [user EXCEPT ![u].counter = counter]
               /\ UNCHANGED codes
    <3>1. PICK c \in Window, counter \in Window \cup {0} :
            /\ Accept(u, user[u], c, counter)
            /\ user' = [user EXCEPT ![u].counter = counter]
            /\ UNCHANGED codes
      BY <2>2
    <3>2. PICK row \in Row : row = user[u]
      BY <1>1
    <3>3. GoodFactors /\ counter \in Nat
      BY <3>1, <3>2, AcceptFacts
    <3> QED BY <1>1, <3>1, <3>3, CounterFacts DEF IInv, TypeOK
  <2>3. CASE \E b \in codes[u] :
               /\ codes' \in {codes, [codes EXCEPT ![u] = @ \ {b}]}
               /\ UNCHANGED user /\ NoFactor
    <3>1. codes' \in [Users -> SUBSET Nat]
      BY <2>3 DEF IInv, TypeOK
    <3> QED BY <1>1, <2>3, <3>1, Untouched, NoFactorFacts
  <2> QED BY <2>1, <2>2, <2>3 DEF Login, PassFactor
<1>3. GoodSessions
  <2>1. fresh \in Session /\ ~fresh.over /\ fresh.user = u /\ fresh.epoch = epoch[u]
    <3>1. user[u].version \in Nat /\ epoch[u] \in Nat
      BY <1>1 DEF Row, IInv, TypeOK
    <3> QED BY <3>1 DEF NewSession, Session
  <2> HIDE DEF fresh
  <2>2. session' \in [Sessions -> Session \cup {Absent}]
        /\ \A x \in Sessions : session'[x] = IF x = s THEN fresh ELSE session[x]
    BY <1>1, <2>1 DEF IInv, TypeOK
  <2>3. NoneOutdated'
    BY <1>1, <2>1, <2>2 DEF IInv, NoneOutdated
  <2> QED BY <1>1, <2>2, <2>3 DEF GoodSessions
<1>4. GoodCodes
  BY <1>1, <1>2 DEF GoodCodes, IInv, TypeOK
<1> QED BY <1>1, <1>2, <1>3, <1>4, Untouched, Preserved

LEMMA AuthenticateStep ==
  ASSUME IInv, NEW t \in Threads, NEW s \in Sessions, NEW op \in Ops, NEW target \in Users,
         Authenticate(t, s, op, target)
  PROVE  IInv'
<1> DEFINE u == session[s].user
           made == [op |-> op, session |-> s, target |-> target,
                    row |-> IF target = u THEN user[u] ELSE Absent,
                    codes |-> codes[u], verified |-> Verified(user[u])]
<1>1. /\ Valid(s) /\ request' = [request EXCEPT ![t] = made]
      /\ op \in SelfOps => target = u
      /\ UNCHANGED <<rowVars, now, workload, historyVars>>
  BY DEF Authenticate
<1>2. session[s] # Absent /\ u \in Users /\ user[u] \in Row /\ codes[u] \in SUBSET Nat
  BY <1>1 DEF Valid, Exists, IInv, TypeOK, Session
<1>3. Verified(user[u]) \in BOOLEAN
  BY Zenon DEF Verified
<1>4. made \in Request
  <2>1. (IF target = u THEN user[u] ELSE Absent) \in Row \cup {Absent}
    BY <1>2
  <2> QED BY <1>2, <1>3, <2>1, Zenon DEF Request
<1>5. made.op = op /\ made.session = s /\ made.target = target
  OBVIOUS
<1> HIDE DEF made
<1>6. /\ request' \in [Threads -> Request \cup {Idle}]
      /\ \A x \in Threads : request'[x] = IF x = t THEN made ELSE request[x]
  BY <1>1, <1>4 DEF IInv, TypeOK
<1>7. TypeOK'
  BY <1>1, <1>6, Zenon DEF IInv, TypeOK
<1>8. Held'
  BY <1>1, <1>2, <1>5, <1>6 DEF IInv, Held
<1>9. NoneOutdated' /\ OwnerRemains'
  BY <1>1, Zenon DEF IInv, NoneOutdated, OwnerRemains, ActiveOwners, Exists
<1> QED BY <1>7, <1>8, <1>9 DEF IInv

LEMMA ReadTargetStep ==
  ASSUME IInv, NEW t \in Threads, ReadTarget(t)
  PROVE  IInv'
<1> DEFINE row == user[request[t].target]
           made == [request[t] EXCEPT !.row = row]
<1>1. /\ request[t] # Idle /\ request[t] \in Request /\ Exists(request[t].target)
      /\ request' = [request EXCEPT ![t] = made]
      /\ UNCHANGED <<rowVars, now, workload, historyVars>>
  BY DEF ReadTarget, IInv, TypeOK
<1>2. row \in Row
  BY <1>1 DEF Exists, Request, IInv, TypeOK
<1> HIDE DEF row
<1>3. /\ made \in Request /\ made.op = request[t].op
      /\ made.session = request[t].session /\ made.target = request[t].target
  BY <1>1, <1>2 DEF Request
<1> HIDE DEF made
<1>4. GoodRequests
  BY <1>1, <1>3 DEF GoodRequests, IInv, TypeOK
<1> QED BY <1>1, <1>4, Untouched, Preserved

LEMMA DropStep ==
  ASSUME IInv, NEW t \in Threads, Drop(t)
  PROVE  IInv'
BY DoneFacts, Untouched, Preserved DEF Drop

LEMMA LogoutStep ==
  ASSUME IInv, NEW t \in Threads, Logout(t)
  PROVE  IInv'
<1>1. Commits(t, "logout") /\ UNCHANGED <<user, codes, issued, now, historyVars>>
  BY DEF Logout
<1>2. GoodRequests /\ session[request[t].session] # Absent
  BY <1>1, CommitFacts
<1>3. PICK S : S = {request[t].session}
  OBVIOUS
<1>4. session' = End(S) /\ \A s \in S : session[s] # Absent
  BY <1>2, <1>3 DEF Logout
<1>5. GoodSessions
  BY <1>1, <1>4, SessionsEnded
<1> QED BY <1>1, <1>2, <1>5, Untouched, Preserved

LEMMA StepUpStep ==
  ASSUME IInv, NEW t \in Threads, StepUp(t)
  PROVE  IInv'
<1>1. Commits(t, "step_up") /\ UNCHANGED <<codes, issued, epoch, raced>>
  BY DEF StepUp, Bystanders
<1>2. PICK u \in Users, row \in Row, s \in Sessions :
        u = request[t].target /\ row = request[t].row /\ s = request[t].session
  BY <1>1, CommitFacts
<1>3. GoodUsers /\ overlapped' \subseteq Users /\ OwnerRemains' /\ GoodFactors
  <2>1. CASE StoreFactors(t, request[t].row) /\ NoFactor
    BY <1>1, <1>2, <2>1, FactorsStored, NoFactorFacts
  <2>2. CASE \E c \in Window, counter \in Window \cup {0} :
               /\ Accept(request[t].target, request[t].row, c, counter)
               /\ StoreFactors(t, [request[t].row EXCEPT !.counter = counter])
    <3>1. PICK c \in Window, counter \in Window \cup {0} :
            /\ Accept(u, row, c, counter)
            /\ StoreFactors(t, [row EXCEPT !.counter = counter])
      BY <1>2, <2>2
    <3>2. GoodFactors /\ counter \in Nat
      BY <3>1, AcceptFacts
    <3>3. PICK changed \in Row : changed = [row EXCEPT !.counter = counter]
      BY <3>2 DEF Row
    <3>4. changed.role = row.role /\ changed.active = row.active
      BY <3>3 DEF Row
    <3> QED BY <1>1, <1>2, <3>1, <3>2, <3>3, <3>4, FactorsStored
  <2> QED BY <2>1, <2>2 DEF StepUp
<1>4. GoodSessions
  <2> DEFINE made == [session[s] EXCEPT !.stepped = TRUE]
  <2>1. session' = [session EXCEPT ![s] = made]
    BY <1>2 DEF StepUp
  <2>2. session[s] # Absent /\ session[s] \in Session
    BY <1>1, <1>2, CommitFacts
  <2>3. made \in Session /\ made.user = session[s].user /\ made.epoch = session[s].epoch
        /\ made.over = session[s].over
    BY <2>2 DEF Session
  <2> HIDE DEF made
  <2>4. session' \in [Sessions -> Session \cup {Absent}]
        /\ \A x \in Sessions : session'[x] = IF x = s THEN made ELSE session[x]
    BY <2>1, <2>3 DEF IInv, TypeOK
  <2>5. NoneOutdated'
    BY <1>1, <2>2, <2>3, <2>4 DEF IInv, NoneOutdated
  <2> QED BY <2>2, <2>3, <2>4, <2>5, ConstantFacts DEF GoodSessions
<1>5. GoodHistory
  BY <1>1, <1>3, Zenon DEF GoodHistory, IInv, TypeOK
<1>6. GoodRequests
  BY <1>1, CommitFacts
<1> QED BY <1>1, <1>3, <1>4, <1>5, <1>6, Untouched, Preserved

LEMMA ChangePasswordStep ==
  ASSUME IInv, NEW t \in Threads, NEW s \in Sessions, ChangePassword(t, s)
  PROVE  IInv'
<1>1. Commits(t, "change_password")
      /\ UNCHANGED <<codes, issued, now, used, twice, overlapped, raced>>
  BY DEF ChangePassword
<1>2. PICK u \in Users, current \in Sessions :
        u = request[t].target /\ current = request[t].session
  BY <1>1, CommitFacts
<1> DEFINE version == user[u].version + 1
           row == [user[u] EXCEPT !.password = 3 - @, !.mustChange = FALSE, !.version = version]
           opened == NewSession(u, "browser", version, epoch[u] + 1)
           kept == [session[s] EXCEPT !.version = version, !.epoch = epoch[u] + 1]
           new == IF session[current].kind = "browser" THEN opened ELSE kept
<1>3. /\ user[u] \in Row /\ session[current] # Absent /\ session[current] \in Session
      /\ session[current].user = u /\ epoch[u] \in Nat
  BY <1>1, <1>2, CommitFacts DEF SelfOps, IInv, TypeOK
<1>4. /\ user' = [user EXCEPT ![u] = row] /\ Changes(u)
      /\ session' = [RevokeSessions(u) EXCEPT ![s] = new]
      /\ session[s] = Absent \/ s = current
      /\ session[current].kind = "browser" => session[s] = Absent
      /\ session[current].kind # "browser" => s = current
  <2>1. user' = [user EXCEPT ![u] = row]
    BY <1>2, Zenon DEF ChangePassword
  <2>2. Changes(u)
    BY <1>2, Zenon DEF ChangePassword
  <2>3. IF session[current].kind = "browser"
          THEN session[s] = Absent /\ session' = [RevokeSessions(u) EXCEPT ![s] = opened]
          ELSE s = current /\ session' = [RevokeSessions(u) EXCEPT ![s] = kept]
    BY <1>2, Zenon DEF ChangePassword
  <2> HIDE DEF row, opened, kept
  <2> QED BY <2>1, <2>2, <2>3
<1>5. row \in Row /\ row.role = user[u].role /\ row.active = user[u].active
  <2>1. version \in Nat /\ user[u].password \in {1, 2}
    BY <1>3 DEF Row
  <2>2. 3 - user[u].password \in {1, 2}
    BY <2>1
  <2> HIDE DEF version
  <2> QED BY <1>3, <2>1, <2>2 DEF Row
<1>6. new \in Session /\ new.user = u /\ new.epoch = epoch[u] + 1
  <2>1. version \in Nat /\ epoch[u] + 1 \in Nat
    BY <1>3 DEF Row
  <2> HIDE DEF version
  <2>2. opened \in Session /\ opened.user = u /\ opened.epoch = epoch[u] + 1
    BY <2>1 DEF NewSession, Session
  <2>3. s = current => kept \in Session /\ kept.user = u /\ kept.epoch = epoch[u] + 1
    BY <1>3, <2>1 DEF Session
  <2> QED BY <1>4, <2>2, <2>3
<1> HIDE DEF row, new
<1>7. GoodUsers /\ user'[u] = row /\ \A v \in Users \ {u} : user'[v] = user[v]
  BY <1>4, <1>5 DEF GoodUsers, IInv, TypeOK
<1>8. OwnerRemains'
  BY <1>1, <1>3, <1>5, <1>7, RolesKept
<1>9. epoch' \in [Users -> Nat] /\ epoch'[u] = epoch[u] + 1
      /\ \A v \in Users \ {u} : epoch'[v] = epoch[v]
  BY <1>3, <1>4 DEF Changes, IInv, TypeOK
<1>10. GoodSessions
  <2>1. \A x \in SessionsOf(u) : session[x] # Absent
    BY DEF SessionsOf
  <2>2. /\ RevokeSessions(u) \in [Sessions -> Session \cup {Absent}]
        /\ \A x \in Sessions :
             session[x] # Absent =>
               /\ RevokeSessions(u)[x] # Absent
               /\ RevokeSessions(u)[x].user = session[x].user
               /\ RevokeSessions(u)[x].epoch = session[x].epoch
               /\ ~RevokeSessions(u)[x].over => ~session[x].over /\ x \notin SessionsOf(u)
        /\ \A x \in Sessions : session[x] = Absent => RevokeSessions(u)[x] = Absent
    BY <2>1, EndFacts DEF RevokeSessions, IInv
  <2>3. session' \in [Sessions -> Session \cup {Absent}]
        /\ \A x \in Sessions : session'[x] = IF x = s THEN new ELSE RevokeSessions(u)[x]
    BY <1>4, <1>6, <2>2
  <2>4. \A x \in Sessions : session[x] # Absent => session'[x] # Absent
                                                   /\ session'[x].user = session[x].user
    BY <1>3, <1>4, <1>6, <2>2, <2>3, ConstantFacts
  <2>5. NoneOutdated'
    <3> SUFFICES ASSUME NEW x \in Sessions, session'[x] # Absent, ~session'[x].over
                 PROVE  session'[x].epoch = epoch'[session'[x].user]
      BY DEF NoneOutdated
    <3>1. CASE x = s
      BY <1>6, <1>9, <2>3, <3>1
    <3>2. CASE x # s
      <4>1. /\ session[x] # Absent /\ ~session[x].over /\ x \notin SessionsOf(u)
            /\ session'[x].user = session[x].user /\ session'[x].epoch = session[x].epoch
        BY <2>2, <2>3, <3>2
      <4>2. session[x].user \in Users \ {u}
        BY <4>1 DEF SessionsOf, IInv, TypeOK, Session
      <4> QED BY <1>9, <4>1, <4>2 DEF IInv, NoneOutdated
    <3> QED BY <3>1, <3>2
  <2> QED BY <2>3, <2>4, <2>5 DEF GoodSessions
<1>11. GoodHistory
  BY <1>1, <1>9, Zenon DEF GoodHistory, IInv, TypeOK
<1>12. GoodRequests
  BY <1>1, CommitFacts
<1> QED BY <1>1, <1>7, <1>8, <1>10, <1>11, <1>12, Untouched, Preserved

LEMMA SetupTotpStep ==
  ASSUME IInv, NEW t \in Threads, SetupTotp(t)
  PROVE  IInv'
<1>1. Commits(t, "setup_totp") /\ NoFactor /\ UNCHANGED <<session, codes, epoch, raced>>
  BY DEF SetupTotp, Bystanders
<1>2. PICK u \in Users, row \in Row : u = request[t].target /\ row = request[t].row
  BY <1>1, CommitFacts
<1>3. issued[u] + 1 \in Nat /\ issued' = [issued EXCEPT ![u] = @ + 1]
  BY <1>2 DEF SetupTotp, IInv, TypeOK
<1>4. PICK changed \in Row : changed = [row EXCEPT !.pending = issued[u] + 1]
  BY <1>3 DEF Row
<1>5. changed.role = row.role /\ changed.active = row.active
  BY <1>4 DEF Row
<1>6. StoreFactors(t, changed)
  BY <1>2, <1>4 DEF SetupTotp
<1>7. GoodUsers /\ overlapped' \subseteq Users /\ OwnerRemains'
  BY <1>1, <1>2, <1>5, <1>6, FactorsStored
<1>8. GoodCodes
  BY <1>1, <1>3 DEF GoodCodes, IInv, TypeOK
<1>9. GoodHistory
  BY <1>1, <1>7, Zenon DEF GoodHistory, IInv, TypeOK
<1>10. GoodRequests /\ GoodFactors
  BY <1>1, CommitFacts, NoFactorFacts
<1> QED BY <1>1, <1>7, <1>8, <1>9, <1>10, Untouched, Preserved

LEMMA EnableTotpStep ==
  ASSUME IInv, NEW t \in Threads, EnableTotp(t)
  PROVE  IInv'
<1>1. Commits(t, "enable_totp") /\ UNCHANGED <<session, now, epoch, raced>>
  BY DEF EnableTotp, Bystanders
<1>2. PICK u \in Users, row \in Row : u = request[t].target /\ row = request[t].row
  BY <1>1, CommitFacts
<1>3. row.pending \in Nat /\ now \in Nat \ {0}
  BY DEF Row, IInv, TypeOK
<1>4. GoodUsers /\ overlapped' \subseteq Users /\ OwnerRemains' /\ GoodFactors /\ GoodCodes
  <2>1. CASE \E c \in Window \ {0} :
               /\ StoreFactors(t, [row EXCEPT !.secret = row.pending, !.pending = 0,
                                     !.totp = TRUE, !.counter = c, !.confirmed = 0])
               /\ Use(u, row.pending, c)
               /\ NewBatch(u, codes[u])
    <3>1. PICK c \in Window \ {0} :
            /\ StoreFactors(t, [row EXCEPT !.secret = row.pending, !.pending = 0,
                                  !.totp = TRUE, !.counter = c, !.confirmed = 0])
            /\ Use(u, row.pending, c)
            /\ NewBatch(u, codes[u])
      BY <2>1
    <3>2. c \in Nat
      BY <1>3 DEF Window
    <3>3. PICK changed \in Row :
            changed = [row EXCEPT !.secret = row.pending, !.pending = 0,
                                  !.totp = TRUE, !.counter = c, !.confirmed = 0]
      BY <1>3, <3>2 DEF Row
    <3>4. changed.role = row.role /\ changed.active = row.active
      BY <3>3 DEF Row
    <3>5. GoodUsers /\ overlapped' \subseteq Users /\ OwnerRemains'
      BY <1>1, <1>2, <3>1, <3>3, <3>4, FactorsStored
    <3>6. GoodFactors
      <4>1. PICK secret \in Nat : secret = row.pending
        BY <1>3
      <4>2. used' \subseteq Users \X Nat \X Nat /\ twice' \subseteq Users
        BY <3>1, <3>2, <4>1, UseFacts
      <4> QED BY <1>1, <1>3, <4>2 DEF GoodFactors
    <3>7. GoodCodes
      <4>1. PICK old : old = codes[u]
        OBVIOUS
      <4> QED BY <3>1, <4>1, NewBatchFacts
    <3> QED BY <3>5, <3>6, <3>7
  <2>2. CASE /\ StoreFactors(t, [row EXCEPT !.pending = 0])
             /\ UNCHANGED <<used, twice, codes, issued>>
    <3>1. PICK changed \in Row : changed = [row EXCEPT !.pending = 0]
      BY DEF Row
    <3>2. changed.role = row.role /\ changed.active = row.active
      BY <3>1 DEF Row
    <3> QED BY <1>1, <1>2, <2>2, <3>1, <3>2, FactorsStored, Untouched
  <2> QED BY <1>2, <2>1, <2>2 DEF EnableTotp
<1>5. GoodHistory
  BY <1>1, <1>4, Zenon DEF GoodHistory, IInv, TypeOK
<1>6. GoodRequests
  BY <1>1, CommitFacts
<1> QED BY <1>1, <1>4, <1>5, <1>6, Untouched, Preserved

LEMMA ConfirmStep ==
  ASSUME IInv, NEW t \in Threads, Confirm(t)
  PROVE  IInv'
<1>1. Commits(t, "confirm") /\ NoFactor /\ UNCHANGED <<session, codes, issued, epoch, raced>>
  BY DEF Confirm, Bystanders
<1>2. PICK u \in Users, seen \in SUBSET Nat : u = request[t].target /\ seen = request[t].codes
  BY <1>1, CommitFacts
<1>3. user[u] \in Row
  BY <1>1, <1>2, CommitFacts
<1>4. PICK b \in IF seen = {} THEN {1} ELSE seen : user' = [user EXCEPT ![u].confirmed = b]
  BY <1>2 DEF Confirm
<1> DEFINE row == [user[u] EXCEPT !.confirmed = b]
<1>5. row \in Row /\ row.role = user[u].role /\ row.active = user[u].active
  <2>1. b \in Nat
    BY <1>4
  <2> QED BY <1>3, <2>1 DEF Row
<1>6. user' = [user EXCEPT ![u] = row]
  BY <1>4
<1> HIDE DEF row
<1>7. GoodUsers /\ user'[u] = row /\ \A v \in Users \ {u} : user'[v] = user[v]
  BY <1>5, <1>6 DEF GoodUsers, IInv, TypeOK
<1>8. OwnerRemains'
  BY <1>1, <1>3, <1>5, <1>7, RolesKept
<1>9. overlapped' \subseteq Users
  BY <1>2 DEF Confirm, IInv, TypeOK
<1>10. GoodHistory
  BY <1>1, <1>9, Zenon DEF GoodHistory, IInv, TypeOK
<1>11. GoodRequests /\ GoodFactors
  BY <1>1, CommitFacts, NoFactorFacts
<1> QED BY <1>1, <1>7, <1>8, <1>10, <1>11, Untouched, Preserved

\* With a code or within a step-up window.
LEMMA ProofFacts ==
  ASSUME IInv, NEW t \in Threads, NEW op, Commits(t, op), NEW counter, Proof(t, counter)
  PROVE  GoodFactors /\ counter \in Nat
<1>1. PICK u \in Users, row \in Row : u = request[t].target /\ row = request[t].row
  BY CommitFacts
<1>2. CASE \E c \in Window : Accept(u, row, c, counter)
  BY <1>2, AcceptFacts
<1>3. CASE counter = row.counter /\ NoFactor
  BY <1>3, NoFactorFacts DEF Row
<1> QED BY <1>1, <1>2, <1>3 DEF Proof

LEMMA RegenerateStep ==
  ASSUME IInv, NEW t \in Threads, Regenerate(t)
  PROVE  IInv'
<1>1. Commits(t, "regenerate") /\ UNCHANGED <<session, epoch, raced>>
  BY DEF Regenerate, Bystanders
<1>2. PICK u \in Users, row \in Row : u = request[t].target /\ row = request[t].row
  BY <1>1, CommitFacts
<1>3. PICK counter \in Window \cup {0, row.counter} :
        /\ Proof(t, counter)
        /\ StoreFactors(t, [row EXCEPT !.counter = counter, !.confirmed = 0])
        /\ \E old : NewBatch(u, old)
  BY <1>2, Zenon DEF Regenerate
<1>4. GoodFactors /\ counter \in Nat
  BY <1>1, <1>3, ProofFacts
<1>5. PICK changed \in Row : changed = [row EXCEPT !.counter = counter, !.confirmed = 0]
  BY <1>4 DEF Row
<1>6. changed.role = row.role /\ changed.active = row.active
  BY <1>5 DEF Row
<1>7. GoodUsers /\ overlapped' \subseteq Users /\ OwnerRemains'
  BY <1>1, <1>2, <1>3, <1>5, <1>6, FactorsStored
<1>8. GoodCodes
  BY <1>3, NewBatchFacts
<1>9. GoodHistory
  BY <1>1, <1>7, Zenon DEF GoodHistory, IInv, TypeOK
<1>10. GoodRequests
  BY <1>1, CommitFacts
<1> QED BY <1>1, <1>4, <1>7, <1>8, <1>9, <1>10, Untouched, Preserved

LEMMA DisableTotpStep ==
  ASSUME IInv, NEW t \in Threads, DisableTotp(t)
  PROVE  IInv'
<1>1. Commits(t, "disable_totp") /\ UNCHANGED <<issued, raced>>
  BY DEF DisableTotp
<1>2. PICK u \in Users, row \in Row : u = request[t].target /\ row = request[t].row
  BY <1>1, CommitFacts
<1>3. row.version + 1 \in Nat
  BY DEF Row
<1>4. PICK changed \in Row :
        changed = [row EXCEPT !.totp = FALSE, !.secret = 0, !.counter = 0, !.confirmed = 0,
                              !.version = row.version + 1]
  BY <1>3 DEF Row
<1>5. changed.role = row.role /\ changed.active = row.active
  BY <1>4 DEF Row
<1>6. GoodFactors
  <2>1. PICK counter : Proof(t, counter)
    BY <1>2, Zenon DEF DisableTotp
  <2> QED BY <1>1, <2>1, ProofFacts
<1>7. StoreFactors(t, changed) /\ Changes(u) /\ session' = RevokeSessions(u)
      /\ codes' = [codes EXCEPT ![u] = {}]
  BY <1>2, <1>4 DEF DisableTotp
<1>8. GoodUsers /\ overlapped' \subseteq Users /\ OwnerRemains'
  BY <1>1, <1>2, <1>5, <1>7, FactorsStored
<1>9. GoodCodes
  BY <1>1, <1>7 DEF GoodCodes, IInv, TypeOK
<1>10. GoodSessions /\ epoch' \in [Users -> Nat]
  BY <1>7, AccessRevoked
<1>11. GoodHistory
  BY <1>1, <1>8, <1>10, Zenon DEF GoodHistory, IInv, TypeOK
<1>12. GoodRequests
  BY <1>1, CommitFacts
<1> QED BY <1>6, <1>8, <1>9, <1>10, <1>11, <1>12, Preserved

LEMMA RevokeOthersStep ==
  ASSUME IInv, NEW t \in Threads, RevokeOthers(t)
  PROVE  IInv'
<1>1. UNCHANGED <<user, codes, issued, now, historyVars>>
  BY DEF RevokeOthers
<1>2. GoodRequests
  BY CommitFacts DEF RevokeOthers
<1>3. PICK S : S \subseteq SessionsOf(request[t].target) /\ session' = End(S)
  BY DEF RevokeOthers
<1>4. \A s \in S : session[s] # Absent
  BY <1>3 DEF SessionsOf
<1>5. GoodSessions
  BY <1>1, <1>3, <1>4, SessionsEnded
<1> QED BY <1>1, <1>2, <1>5, Untouched, Preserved

LEMMA RevokeSessionStep ==
  ASSUME IInv, NEW t \in Threads, NEW s \in Sessions, RevokeSession(t, s)
  PROVE  IInv'
<1>1. Commits(t, "revoke_session") /\ UNCHANGED <<user, codes, issued, now, historyVars>>
  BY DEF RevokeSession
<1>2. PICK S : S = {s}
  OBVIOUS
<1>3. session' = End(S) /\ \A x \in S : session[x] # Absent
  BY <1>2 DEF RevokeSession, SessionsOf
<1>4. GoodSessions
  BY <1>1, <1>3, SessionsEnded
<1>5. GoodRequests
  BY <1>1, CommitFacts
<1> QED BY <1>1, <1>4, <1>5, Untouched, Preserved

\* Invalidate, apart from the owners.
LEMMA InvalidateFacts ==
  ASSUME IInv, NEW t \in Threads, NEW op, Commits(t, op), NEW changed \in Row,
         Invalidate(t, changed), raced' \in BOOLEAN
  PROVE  /\ GoodUsers /\ GoodCodes /\ GoodFactors /\ GoodHistory /\ GoodSessions /\ GoodRequests
         /\ \A v \in Users \ {request[t].target} : user'[v] = user[v]
         /\ user'[request[t].target] \in Row
         /\ user'[request[t].target].role =
              IF changed.role # request[t].row.role
                THEN changed.role ELSE user[request[t].target].role
         /\ user'[request[t].target].active =
              IF changed.active # request[t].row.active
                THEN changed.active ELSE user[request[t].target].active
<1>1. PICK u \in Users, row \in Row : u = request[t].target /\ row = request[t].row
  BY CommitFacts
<1>2. user[u] \in Row /\ row.version + 1 \in Nat
  BY <1>1, CommitFacts DEF Row
<1>3. PICK new \in Row : new = [changed EXCEPT !.version = row.version + 1]
  BY <1>2 DEF Row
<1>4. new.role = changed.role /\ new.active = changed.active
  BY <1>3 DEF Row
<1>5. /\ Store(u, row, new) /\ Changes(u) /\ session' = RevokeSessions(u)
      /\ UNCHANGED <<codes, issued, now, used, twice, overlapped>>
  BY <1>1, <1>3 DEF Invalidate
<1>6. /\ GoodUsers /\ user'[u] \in Row /\ \A v \in Users \ {u} : user'[v] = user[v]
      /\ user'[u].role = IF new.role # row.role THEN new.role ELSE user[u].role
      /\ user'[u].active = IF new.active # row.active THEN new.active ELSE user[u].active
  BY <1>2, <1>5, StoreFacts
<1>7. GoodSessions /\ epoch' \in [Users -> Nat]
  BY <1>5, AccessRevoked
<1>8. GoodHistory
  BY <1>5, <1>7, Zenon DEF GoodHistory, IInv, TypeOK
<1>9. GoodCodes /\ GoodFactors /\ GoodRequests
  BY <1>5, Untouched, CommitFacts
<1> QED BY <1>1, <1>4, <1>6, <1>7, <1>8, <1>9

LEMMA RevokeUserSessionsStep ==
  ASSUME IInv, NEW t \in Threads, RevokeUserSessions(t)
  PROVE  IInv'
<1>1. Commits(t, "revoke_sessions") /\ raced' = raced /\ raced' \in BOOLEAN
  BY Zenon DEF RevokeUserSessions, IInv, TypeOK
<1>2. PICK u \in Users, row \in Row : u = request[t].target /\ row = request[t].row
  BY <1>1, CommitFacts
<1>3. Invalidate(t, row)
  BY <1>2 DEF RevokeUserSessions
<1>4. OwnerRemains'
  BY <1>1, <1>2, <1>3, InvalidateFacts, CommitFacts, RolesKept
<1> QED BY <1>1, <1>3, <1>4, InvalidateFacts, Preserved

LEMMA RotatePasswordStep ==
  ASSUME IInv, NEW t \in Threads, RotatePassword(t)
  PROVE  IInv'
<1>1. Commits(t, "rotate_password") /\ raced' = raced /\ raced' \in BOOLEAN
  BY Zenon DEF RotatePassword, IInv, TypeOK
<1>2. PICK u \in Users, row \in Row : u = request[t].target /\ row = request[t].row
  BY <1>1, CommitFacts
<1>3. 3 - row.password \in {1, 2}
  BY DEF Row
<1>4. PICK changed \in Row : changed = [row EXCEPT !.password = 3 - @, !.mustChange = TRUE]
  BY <1>3 DEF Row
<1>5. changed.role = row.role /\ changed.active = row.active
  BY <1>4 DEF Row
<1>6. Invalidate(t, changed)
  BY <1>2, <1>4, Zenon DEF RotatePassword
<1>7. OwnerRemains'
  BY <1>1, <1>2, <1>5, <1>6, InvalidateFacts, CommitFacts, RolesKept
<1> QED BY <1>1, <1>6, <1>7, InvalidateFacts, Preserved

\* Only u may stop being an active owner, and if the others were counted before
\* he did there is another one.
LEMMA RaceFacts ==
  ASSUME IInv, NEW t \in Threads, NEW counted \in BOOLEAN, Race(t, counted),
         NEW u \in Users, u = request[t].target,
         \A v \in Users \ {u} : user'[v] = user[v],
         u \in ActiveOwners /\ u \notin ActiveOwners' /\ counted => OtherOwner(u)
  PROVE  raced' \in BOOLEAN /\ OwnerRemains'
<1>1. raced' \in BOOLEAN
  BY Zenon DEF Race, IInv, TypeOK
<1>2. ASSUME NEW o \in ActiveOwners \ {u} PROVE ActiveOwners' # {}
  <2>1. o \in ActiveOwners'
    BY <1>2, Zenon DEF ActiveOwners, Exists
  <2> QED BY <2>1
<1>3. CASE u \in ActiveOwners \ ActiveOwners'
  <2>1. raced' = ~counted
    BY <1>3, Zenon DEF Race
  <2>2. counted => ActiveOwners' # {}
    BY <1>2, <1>3, Zenon DEF OtherOwner
  <2> QED BY <1>1, <2>1, <2>2, Zenon DEF OwnerRemains
<1>4. CASE u \notin ActiveOwners \ ActiveOwners'
  <2>1. raced' = raced
    BY <1>4, Zenon DEF Race
  <2>2. ActiveOwners # {} => ActiveOwners' # {}
    BY <1>2, <1>4, Zenon
  <2> QED BY <1>1, <2>1, <2>2, Zenon DEF OwnerRemains, IInv
<1> QED BY <1>3, <1>4

LEMMA UpdateUserStep ==
  ASSUME IInv, NEW t \in Threads, UpdateUser(t)
  PROVE  IInv'
<1>1. Commits(t, "update") /\ Race(t, request[t].row.role = "owner")
  BY DEF UpdateUser
<1>2. PICK u \in Users, row \in Row : u = request[t].target /\ row = request[t].row
  BY <1>1, CommitFacts
<1>3. PICK role \in Roles, active \in BOOLEAN :
        /\ row.role = "owner" /\ (role # "owner" \/ ~active) => OtherOwner(u)
        /\ Invalidate(t, [row EXCEPT !.role = role, !.active = active])
  BY <1>2 DEF UpdateUser
<1>4. PICK changed \in Row : changed = [row EXCEPT !.role = role, !.active = active]
  BY DEF Row
<1>5. changed.role = role /\ changed.active = active
  BY <1>4 DEF Row
<1>6. Invalidate(t, changed)
  BY <1>3, <1>4
<1>7. PICK counted \in BOOLEAN : counted <=> row.role = "owner"
  OBVIOUS
<1>8. Race(t, counted)
  BY <1>1, <1>2, <1>7, Zenon DEF Race
<1>9. raced' \in BOOLEAN
  BY <1>8, Zenon DEF Race, IInv, TypeOK
<1>10. /\ GoodUsers /\ GoodCodes /\ GoodFactors /\ GoodHistory /\ GoodSessions /\ GoodRequests
       /\ \A v \in Users \ {u} : user'[v] = user[v]
       /\ user'[u] \in Row
       /\ user'[u].role = IF changed.role # row.role THEN changed.role ELSE user[u].role
       /\ user'[u].active = IF changed.active # row.active THEN changed.active ELSE user[u].active
  BY <1>1, <1>2, <1>6, <1>9, InvalidateFacts
<1>11. ASSUME u \in ActiveOwners, u \notin ActiveOwners', counted PROVE OtherOwner(u)
  <2>1. row.role = "owner" /\ user[u].role = "owner" /\ user[u].active
    BY <1>7, <1>11 DEF ActiveOwners
  <2>2. ASSUME role = "owner", active PROVE FALSE
    <3>1. user'[u].role = "owner"
      BY <1>5, <1>10, <2>1, <2>2
    <3>2. user'[u].active
      <4>1. user'[u].active = changed.active \/ user'[u].active = user[u].active
        BY <1>10
      <4> QED BY <1>5, <2>1, <2>2, <4>1
    <3>3. Exists(u)'
      BY <1>10, ConstantFacts DEF Exists
    <3> QED BY <1>11, <3>1, <3>2, <3>3 DEF ActiveOwners
  <2> QED BY <1>3, <2>1, <2>2
<1>12. OwnerRemains'
  BY <1>2, <1>8, <1>10, <1>11, RaceFacts
<1> QED BY <1>10, <1>12, Preserved

LEMMA CreateUserStep ==
  ASSUME IInv, NEW t \in Threads, CreateUser(t)
  PROVE  IInv'
<1>1. /\ request[t] # Idle /\ user[request[t].target] = Absent /\ Done(t)
      /\ UNCHANGED <<session, codes, issued, now, workload, historyVars>>
  BY DEF CreateUser
<1>2. PICK u \in Users : u = request[t].target
  BY <1>1 DEF IInv, TypeOK, Request
<1>3. PICK role \in Roles : user' = [user EXCEPT ![u] = CreatedUser(role)]
  BY <1>2 DEF CreateUser
<1>4. CreatedUser(role) \in Row
  BY DEF CreatedUser, EnsuredUser, Row
<1>5. GoodUsers /\ \A v \in Users \ {u} : user'[v] = user[v]
  BY <1>3, <1>4 DEF GoodUsers, IInv, TypeOK
<1>6. \A v \in Users : Exists(v) => /\ Exists(v)'
                                    /\ user'[v].role = user[v].role
                                    /\ user'[v].active = user[v].active
  BY <1>1, <1>2, <1>5 DEF Exists
<1>7. OwnerRemains' /\ GoodRequests
  BY <1>1, <1>6, OwnersStay, DoneFacts
<1> QED BY <1>1, <1>5, <1>7, Untouched, Preserved

LEMMA DeleteUserStep ==
  ASSUME IInv, NEW t \in Threads, DeleteUser(t)
  PROVE  IInv'
<1>1. /\ Commits(t, "delete")
      /\ UNCHANGED <<issued, now, epoch, used, twice, overlapped>>
  BY DEF DeleteUser
<1>2. PICK u \in Users, row \in Row : u = request[t].target /\ row = request[t].row
  BY <1>1, CommitFacts
<1>3. /\ row.role = "owner" /\ row.active => ActiveOwners = {} \/ OtherOwner(u)
      /\ user' = [user EXCEPT ![u] = Deleted]
      /\ Race(t, row.role = "owner" /\ row.active)
      /\ session' = RevokeSessions(u)
      /\ codes' = [codes EXCEPT ![u] = {}]
  BY <1>2 DEF DeleteUser
<1>4. GoodUsers /\ \A v \in Users \ {u} : user'[v] = user[v]
  BY <1>3 DEF GoodUsers, IInv, TypeOK
<1>5. GoodCodes
  BY <1>1, <1>3 DEF GoodCodes, IInv, TypeOK
<1>6. GoodSessions
  BY <1>1, <1>3, AccessRevoked
<1>7. PICK counted \in BOOLEAN : counted <=> row.role = "owner" /\ row.active
  OBVIOUS
<1>8. Race(t, counted)
  BY <1>3, <1>7, Zenon DEF Race
<1>9. u \in ActiveOwners /\ u \notin ActiveOwners' /\ counted => OtherOwner(u)
  BY <1>3, <1>7, Zenon
<1>10. raced' \in BOOLEAN /\ OwnerRemains'
  BY <1>2, <1>4, <1>8, <1>9, RaceFacts
<1>11. GoodHistory
  BY <1>1, <1>10, Zenon DEF GoodHistory, IInv, TypeOK
<1>12. GoodRequests /\ GoodFactors
  BY <1>1, CommitFacts, Untouched
<1> QED BY <1>4, <1>5, <1>6, <1>10, <1>11, <1>12, Preserved

LEMMA ExpireStep ==
  ASSUME IInv, NEW s \in Sessions, Expire(s)
  PROVE  IInv'
<1>1. UNCHANGED <<user, codes, issued, request, now, workload, historyVars>>
  BY DEF Expire
<1>2. PICK S : S = {s}
  OBVIOUS
<1>3. session' = End(S) /\ \A x \in S : session[x] # Absent
  BY <1>2 DEF Expire
<1>4. GoodSessions
  BY <1>1, <1>3, SessionsEnded
<1> QED BY <1>1, <1>4, Untouched, Preserved

LEMMA TickStep ==
  ASSUME IInv, Tick
  PROVE  IInv'
<1>1. now' = now + 1 /\ UNCHANGED <<rowVars, request, workload, historyVars>>
  BY DEF Tick
<1>2. GoodFactors
  BY <1>1 DEF GoodFactors, IInv, TypeOK
<1> QED BY <1>1, <1>2, Untouched, Preserved

LEMMA InitInv == Init => IInv
<1> SUFFICES ASSUME Init PROVE IInv
  OBVIOUS
<1>1. user \in [Users -> Row \cup {Absent, Deleted}]
  <2>1. \A role \in Roles : EnsuredUser(role) \in Row
    BY DEF EnsuredUser, Row
  <2>2. [CreatedUser("owner") EXCEPT !.pending = 1] \in Row
    BY ConstantFacts DEF CreatedUser, EnsuredUser, Row
  <2> QED BY <2>1, <2>2 DEF Init
<1>2. TypeOK
  <2>1. /\ session \in [Sessions -> Session \cup {Absent}]
        /\ codes \in [Users -> SUBSET Nat] /\ issued \in [Users -> Nat]
        /\ request \in [Threads -> Request \cup {Idle}]
        /\ now \in Nat \ {0} /\ epoch \in [Users -> Nat]
        /\ used \subseteq Users \X Nat \X Nat /\ twice \subseteq Users
        /\ overlapped \subseteq Users
    BY DEF Init
  <2>2. workload \in Workloads /\ raced \in BOOLEAN
    BY Zenon DEF Init
  <2> QED BY <1>1, <2>1, <2>2, Zenon DEF TypeOK
<1>3. Held /\ NoneOutdated
  BY DEF Init, Held, NoneOutdated
<1>4. OwnerRemains
  <2>1. PICK u \in Users : user[u] # Absent /\ user[u].role = "owner"
    BY DEF Init
  <2>2. user[u] # Deleted /\ user[u].active
    <3>1. CASE user \in [Users -> {Absent} \cup {EnsuredUser(role) : role \in Roles}]
      <4>1. PICK role \in Roles : user[u] = EnsuredUser(role)
        BY <2>1, <3>1
      <4>2. EnsuredUser(role) \in Row /\ EnsuredUser(role).active
        BY DEF EnsuredUser, Row
      <4> QED BY <4>1, <4>2, ConstantFacts
    <3>2. CASE \E first \in Users :
                 user = [v \in Users |-> IF v = first
                           THEN [CreatedUser("owner") EXCEPT !.pending = 1] ELSE Absent]
      <4>1. user[u] = [CreatedUser("owner") EXCEPT !.pending = 1]
        BY <2>1, <3>2
      <4>2. [CreatedUser("owner") EXCEPT !.pending = 1] \in Row
            /\ [CreatedUser("owner") EXCEPT !.pending = 1].active
        BY ConstantFacts DEF CreatedUser, EnsuredUser, Row
      <4> QED BY <4>1, <4>2, ConstantFacts
    <3> QED BY <3>1, <3>2 DEF Init
  <2>3. u \in ActiveOwners
    BY <2>1, <2>2 DEF ActiveOwners, Exists
  <2> QED BY <2>3 DEF OwnerRemains
<1> QED BY <1>2, <1>3, <1>4 DEF IInv

LEMMA Invariance == IInv /\ [Next]_vars => IInv'
<1> SUFFICES ASSUME IInv, [Next]_vars PROVE IInv'
  OBVIOUS
<1>1. CASE \E u \in Users, kind \in {"browser", "api"}, s \in Sessions : Login(u, kind, s)
  BY <1>1, LoginStep
<1>2. CASE \E t \in Threads, s \in Sessions, op \in Ops, u \in Users : Authenticate(t, s, op, u)
  BY <1>2, AuthenticateStep
<1>3. ASSUME NEW t \in Threads, ReadTarget(t) \/ Drop(t) PROVE IInv'
  BY <1>3, ReadTargetStep, DropStep
<1>4. ASSUME NEW t \in Threads,
             \/ Logout(t) \/ StepUp(t) \/ SetupTotp(t) \/ EnableTotp(t) \/ Confirm(t)
             \/ Regenerate(t) \/ DisableTotp(t) \/ RevokeOthers(t)
      PROVE  IInv'
  BY <1>4, LogoutStep, StepUpStep, SetupTotpStep, EnableTotpStep, ConfirmStep, RegenerateStep,
     DisableTotpStep, RevokeOthersStep
<1>5. ASSUME NEW t \in Threads,
             \/ RevokeUserSessions(t) \/ RotatePassword(t)
             \/ UpdateUser(t) \/ CreateUser(t) \/ DeleteUser(t)
      PROVE  IInv'
  BY <1>5, RevokeUserSessionsStep, RotatePasswordStep, UpdateUserStep, CreateUserStep,
     DeleteUserStep
<1>6. ASSUME NEW t \in Threads, NEW s \in Sessions, ChangePassword(t, s) \/ RevokeSession(t, s)
      PROVE  IInv'
  BY <1>6, ChangePasswordStep, RevokeSessionStep
<1>7. CASE Tick \/ \E s \in Sessions : Expire(s)
  BY <1>7, TickStep, ExpireStep
<1>8. CASE UNCHANGED vars
  BY <1>8, Untouched, Preserved DEF vars
<1> QED BY <1>1, <1>2, <1>3, <1>4, <1>5, <1>6, <1>7, <1>8 DEF Next

LEMMA Invariant == Spec => []IInv
BY InitInv, Invariance, PTL DEF Spec

-----------------------------------------------------------------------------
(* The second factors.                                                       *)

\* Of a user no two requests about whose factors have overlapped: the codes used
\* were of secrets issued.
OnlyIssued(u) ==
  /\ u \notin twice
  /\ \A a, b \in codes[u] : a = b
  /\ \A secret, c \in Nat : <<u, secret, c>> \in used => secret <= issued[u]

\* A secret that is not enabled yet has no code used, and of the one that is
\* enabled the codes used are not above the counter, or too old to be accepted.
Spent(u) ==
  /\ user[u].secret <= issued[u] /\ user[u].pending <= issued[u]
  /\ user[u].totp => user[u].pending = 0
  /\ user[u].confirmed # 0 => codes[u] \subseteq {user[u].confirmed}
  /\ \A secret, c \in Nat :
       <<u, secret, c>> \in used =>
         /\ user[u].pending # 0 => secret # user[u].pending
         /\ user[u].totp /\ secret = user[u].secret => c <= user[u].counter \/ c + 1 < now

Sound(u) == u \notin overlapped => OnlyIssued(u) /\ (Exists(u) => Spent(u))

FInv == IInv /\ \A u \in Users : Sound(u)

\* Nothing is issued to u or accepted from it, and its factors stay.
FactorsKept(u) ==
  /\ u \in overlapped => u \in overlapped'
  /\ u \in twice' => u \in twice
  /\ codes'[u] \subseteq codes[u]
  /\ issued'[u] >= issued[u]
  /\ now' >= now
  /\ \A secret, c \in Nat : <<u, secret, c>> \in used' => <<u, secret, c>> \in used
  /\ Exists(u)' =>
       \/ Exists(u) /\ Factors(user'[u]) = Factors(user[u])
       \/ \E role \in Roles : user'[u] = CreatedUser(role)

LEMMA KeptSound ==
  ASSUME FInv, IInv', NEW u \in Users, FactorsKept(u)
  PROVE  Sound(u)'
<1> SUFFICES ASSUME u \notin overlapped' PROVE OnlyIssued(u)' /\ (Exists(u)' => Spent(u)')
  BY DEF Sound
<1>1. u \notin overlapped /\ Sound(u)
  BY DEF FactorsKept, FInv
<1>2. /\ issued[u] \in Nat /\ issued'[u] \in Nat /\ now \in Nat /\ now' \in Nat
      /\ issued'[u] >= issued[u] /\ now' >= now
  BY DEF FactorsKept, FInv, IInv, TypeOK
<1>3. OnlyIssued(u)'
  BY <1>1, <1>2 DEF Sound, OnlyIssued, FactorsKept
<1>4. ASSUME Exists(u)' PROVE Spent(u)'
  <2>1. CASE Exists(u) /\ Factors(user'[u]) = Factors(user[u])
    <3>1. user[u] \in Row /\ user'[u] \in Row
      BY <1>4, <2>1 DEF Exists, FInv, IInv, TypeOK
    <3>2. /\ user'[u].totp = user[u].totp /\ user'[u].secret = user[u].secret
          /\ user'[u].pending = user[u].pending /\ user'[u].counter = user[u].counter
          /\ user'[u].confirmed = user[u].confirmed
      BY <2>1 DEF Factors
    <3>3. Spent(u)
      BY <1>1, <2>1 DEF Sound
    <3>4. /\ user[u].secret \in Nat /\ user[u].pending \in Nat /\ user[u].counter \in Nat
      BY <3>1 DEF Row
    <3> QED BY <1>2, <3>2, <3>3, <3>4 DEF Spent, FactorsKept
  <2>2. CASE \E role \in Roles : user'[u] = CreatedUser(role)
    BY <1>2, <2>2 DEF CreatedUser, EnsuredUser, Spent
  <2> QED BY <1>4, <2>1, <2>2 DEF FactorsKept
<1> QED BY <1>3, <1>4

\* A step that leaves the codes alone and of a row at most what is not a factor.
LEMMA StillSound ==
  ASSUME FInv, IInv', UNCHANGED <<issued, used, twice>>, now' >= now,
         overlapped \subseteq overlapped',
         \A u \in Users : codes'[u] \subseteq codes[u],
         \A u \in Users :
           Exists(u)' => \/ Exists(u) /\ Factors(user'[u]) = Factors(user[u])
                         \/ \E role \in Roles : user'[u] = CreatedUser(role)
  PROVE  FInv'
<1>1. ASSUME NEW u \in Users PROVE FactorsKept(u)
  <2>1. issued'[u] >= issued[u]
    BY DEF FInv, IInv, TypeOK
  <2> QED BY <2>1, Zenon DEF FactorsKept
<1> QED BY <1>1, KeptSound DEF FInv

\* A step about the factors of u.
LEMMA OthersSound ==
  ASSUME FInv, IInv', NEW u \in Users,
         \A v \in Users \ {u} :
           /\ v \in overlapped => v \in overlapped'
           /\ v \in twice' => v \in twice
           /\ codes'[v] = codes[v] /\ issued'[v] = issued[v] /\ user'[v] = user[v]
           /\ \A secret, c \in Nat : <<v, secret, c>> \in used' => <<v, secret, c>> \in used,
         now' >= now,
         Sound(u)'
  PROVE  FInv'
<1>1. ASSUME NEW v \in Users \ {u} PROVE FactorsKept(v)
  <2>1. issued'[v] >= issued[v]
    BY DEF FInv, IInv, TypeOK
  <2>2. Exists(v)' => Exists(v) /\ Factors(user'[v]) = Factors(user[v])
    BY Zenon DEF Exists
  <2> QED BY <2>1, <2>2, Zenon DEF FactorsKept
<1> QED BY <1>1, KeptSound DEF FInv

LEMMA MergedFactors ==
  ASSUME NEW stored \in Row, NEW copy \in Row, NEW changed \in Row
  PROVE  /\ Factors(stored) = Factors(copy) =>
              Factors(Merged(stored, copy, changed)) = Factors(changed)
         /\ Factors(changed) = Factors(copy) =>
              Factors(Merged(stored, copy, changed)) = Factors(stored)
<1>1. DOMAIN stored = {"role", "active", "password", "mustChange", "enforced", "version",
                       "totp", "secret", "pending", "counter", "confirmed"}
  BY DEF Row
<1>2. \A column \in {"totp", "secret", "pending", "counter", "confirmed"} :
        Merged(stored, copy, changed)[column] =
          IF changed[column] # copy[column] THEN changed[column] ELSE stored[column]
  BY <1>1 DEF Merged
<1> QED BY <1>2 DEF Factors

\* Of a request that did not overlap with another, the copy is current.
LEMMA FactorsWritten ==
  ASSUME FInv, NEW t \in Threads, NEW op, Commits(t, op), NEW changed \in Row,
         StoreFactors(t, changed), NEW u \in Users, u = request[t].target
  PROVE  /\ \A v \in Users \ {u} : user'[v] = user[v] /\ (v \in overlapped => v \in overlapped')
         /\ user'[u] \in Row
         /\ u \notin overlapped' => /\ u \notin overlapped
                                    /\ Factors(user[u]) = Factors(request[t].row)
                                    /\ codes[u] = request[t].codes
                                    /\ Factors(user'[u]) = Factors(changed)
         /\ Factors(changed) = Factors(request[t].row) => Factors(user'[u]) = Factors(user[u])
<1>0. IInv
  BY DEF FInv
<1>1. PICK copy \in Row : copy = request[t].row
  BY <1>0, CommitFacts
<1>2. user[u] \in Row
  BY <1>0, CommitFacts
<1>3. /\ Store(u, copy, changed)
      /\ overlapped' = IF Factors(user[u]) # Factors(copy) \/ codes[u] # request[t].codes
                         THEN overlapped \cup {u} ELSE overlapped
  BY <1>1 DEF StoreFactors
<1>4. user'[u] \in Row /\ \A v \in Users \ {u} : user'[v] = user[v]
  BY <1>0, <1>2, <1>3, StoreFacts
<1>5. user'[u] = Merged(user[u], copy, changed)
  BY <1>0, <1>3 DEF Store, IInv, TypeOK
<1> HIDE DEF Factors, Merged
<1> QED BY <1>1, <1>2, <1>3, <1>4, <1>5, MergedFactors

-----------------------------------------------------------------------------
(* A code that is accepted.                                                  *)

\* Accept, for a user whose factors are current: the code was not used before, and
\* afterwards those of its secret are spent.
LEMMA AcceptSound ==
  ASSUME FInv, NEW u \in Users \ overlapped, user[u] \in Row, NEW row \in Row,
         Factors(row) = Factors(user[u]), NEW c \in Window, NEW counter, Accept(u, row, c, counter)
  PROVE  /\ row.totp
         /\ u \notin twice'
         /\ \A secret, k \in Nat :
              <<u, secret, k>> \in used' =>
                /\ secret <= issued[u]
                /\ secret = row.secret => k <= counter \/ k + 1 < now'
<1>1. Sound(u) /\ Exists(u)
  BY ConstantFacts DEF FInv, Exists
<1>2. OnlyIssued(u) /\ Spent(u)
  BY <1>1 DEF Sound
<1>3. /\ row.totp = user[u].totp /\ row.secret = user[u].secret
      /\ row.counter = user[u].counter
  BY DEF Factors
<1>4. /\ row.secret \in Nat /\ row.counter \in Nat /\ now \in Nat \ {0} /\ issued[u] \in Nat
  BY DEF Row, FInv, IInv, TypeOK
<1>5. c \in Nat /\ c + 1 >= now
  BY <1>4 DEF Window
<1>6. row.totp /\ c > row.counter
  BY DEF Accept, Fresh
<1>7. (counter = c /\ now' = now) \/ (c < now /\ counter = 0 /\ now' = now + 1)
  BY DEF Accept
<1>8. /\ used' = used \cup {<<u, row.secret, c>>}
      /\ twice' = IF <<u, row.secret, c>> \in used THEN twice \cup {u} ELSE twice
  BY DEF Accept, Use
<1>9. row.secret <= issued[u]
  BY <1>2, <1>3 DEF Spent
<1>10. <<u, row.secret, c>> \notin used
  BY <1>2, <1>3, <1>4, <1>5, <1>6 DEF Spent
<1>11. u \notin twice'
  BY <1>2, <1>8, <1>10 DEF OnlyIssued
<1>12. ASSUME NEW secret \in Nat, NEW k \in Nat, <<u, secret, k>> \in used'
       PROVE  /\ secret <= issued[u]
              /\ secret = row.secret => k <= counter \/ k + 1 < now'
  <2>1. CASE secret = row.secret /\ k = c
    BY <1>4, <1>5, <1>7, <1>9, <2>1
  <2>2. CASE <<u, secret, k>> \in used
    <3>1. secret <= issued[u]
      BY <1>2, <2>2 DEF OnlyIssued
    <3>2. secret = row.secret => k <= row.counter \/ k + 1 < now
      BY <1>2, <1>3, <1>6, <2>2 DEF Spent
    <3> QED BY <1>4, <1>5, <1>6, <1>7, <3>1, <3>2
  <2> QED BY <1>8, <1>12, <2>1, <2>2
<1> QED BY <1>6, <1>11, <1>12

\* Only codes of u are used up.
LEMMA OthersCodes ==
  ASSUME FInv, NEW u \in Users, NEW secret, NEW c, Use(u, secret, c)
  PROVE  \A v \in Users \ {u} :
           /\ v \in twice' => v \in twice
           /\ \A x, k \in Nat : <<v, x, k>> \in used' => <<v, x, k>> \in used
BY DEF Use

\* The codes of u change.
LEMMA NewBatchSound ==
  ASSUME FInv, NEW u \in Users, NEW old, NewBatch(u, old)
  PROVE  /\ \A v \in Users \ {u} : codes'[v] = codes[v] /\ issued'[v] = issued[v]
         /\ issued'[u] \in Nat /\ issued'[u] > issued[u]
         /\ old = codes[u] => \A a, b \in codes'[u] : a = b
<1>1. issued[u] \in Nat /\ issued'[u] = issued[u] + 1
      /\ \A v \in Users \ {u} : issued'[v] = issued[v]
  BY DEF NewBatch, FInv, IInv, TypeOK
<1>2. /\ codes'[u] = (codes[u] \ old) \cup {issued[u] + 1}
      /\ \A v \in Users \ {u} : codes'[v] = codes[v]
  BY DEF NewBatch, FInv, IInv, TypeOK
<1>3. old = codes[u] => codes'[u] = {issued[u] + 1}
  BY <1>2
<1> QED BY <1>1, <1>2, <1>3

-----------------------------------------------------------------------------
(* The steps.                                                                *)

\* What is written to a row, if it is known in full.
LEMMA RowWritten ==
  ASSUME FInv, NEW u \in Users, NEW row \in Row, user' = [user EXCEPT ![u] = row]
  PROVE  user'[u] = row /\ \A v \in Users \ {u} : user'[v] = user[v]
BY DEF FInv, IInv, TypeOK

\* Steps that are not about factors.
LEMMA NowStays ==
  ASSUME FInv, UNCHANGED now
  PROVE  now' >= now
BY DEF FInv, IInv, TypeOK

LEMMA RowsUntouched ==
  ASSUME FInv, IInv', UNCHANGED <<user, codes, issued, used, twice, overlapped>>, now' >= now
  PROVE  FInv'
BY StillSound DEF Exists

LEMMA InvalidateSound ==
  ASSUME FInv, IInv', NEW t \in Threads, NEW op, Commits(t, op), NEW changed \in Row,
         Factors(changed) = Factors(request[t].row), Invalidate(t, changed)
  PROVE  FInv'
<1>0. IInv
  BY DEF FInv
<1>1. PICK u \in Users, copy \in Row : u = request[t].target /\ copy = request[t].row
  BY <1>0, CommitFacts
<1>2. user[u] \in Row /\ copy.version + 1 \in Nat /\ Exists(u)
  BY <1>0, <1>1, CommitFacts DEF Row, Commits
<1>3. PICK new \in Row : new = [changed EXCEPT !.version = copy.version + 1]
  BY <1>2 DEF Row
<1>4. Factors(new) = Factors(copy)
  BY <1>1, <1>3 DEF Factors, Row
<1>5. Store(u, copy, new) /\ UNCHANGED <<codes, issued, now, used, twice, overlapped>>
  BY <1>1, <1>3 DEF Invalidate
<1>6. user'[u] = Merged(user[u], copy, new) /\ \A v \in Users \ {u} : user'[v] = user[v]
  BY <1>0, <1>5 DEF Store, IInv, TypeOK
<1>7. Factors(user'[u]) = Factors(user[u])
  <2> HIDE DEF Factors, Merged
  <2> QED BY <1>2, <1>4, <1>6, MergedFactors
<1>8. \A v \in Users : Exists(v)' => Exists(v) /\ Factors(user'[v]) = Factors(user[v])
  <2> HIDE DEF Factors
  <2> QED BY <1>2, <1>6, <1>7 DEF Exists
<1> QED BY <1>5, <1>8, StillSound, NowStays

LEMMA InvalidateSteps ==
  ASSUME FInv, IInv', NEW t \in Threads,
         RevokeUserSessions(t) \/ RotatePassword(t) \/ UpdateUser(t)
  PROVE  FInv'
<1>1. PICK op : Commits(t, op)
  BY DEF RevokeUserSessions, RotatePassword, UpdateUser
<1>2. PICK row \in Row : row = request[t].row
  BY <1>1, CommitFacts DEF FInv
<1>3. CASE RevokeUserSessions(t)
  <2>1. Invalidate(t, row)
    BY <1>2, <1>3 DEF RevokeUserSessions
  <2> QED BY <1>1, <1>2, <2>1, InvalidateSound
<1>4. CASE RotatePassword(t)
  <2>1. 3 - row.password \in {1, 2}
    BY DEF Row
  <2>2. PICK changed \in Row : changed = [row EXCEPT !.password = 3 - @, !.mustChange = TRUE]
    BY <2>1 DEF Row
  <2>3. Factors(changed) = Factors(row)
    BY <2>2 DEF Factors, Row
  <2>4. Invalidate(t, changed)
    BY <1>2, <1>4, <2>2, Zenon DEF RotatePassword
  <2> QED BY <1>1, <1>2, <2>3, <2>4, InvalidateSound
<1>5. CASE UpdateUser(t)
  <2>1. PICK role \in Roles, active \in BOOLEAN :
          Invalidate(t, [row EXCEPT !.role = role, !.active = active])
    BY <1>2, <1>5 DEF UpdateUser
  <2>2. PICK changed \in Row : changed = [row EXCEPT !.role = role, !.active = active]
    BY DEF Row
  <2>3. Factors(changed) = Factors(row)
    BY <2>2 DEF Factors, Row
  <2> QED BY <1>1, <1>2, <2>1, <2>2, <2>3, InvalidateSound
<1> QED BY <1>3, <1>4, <1>5

LEMMA ChangePasswordSound ==
  ASSUME FInv, IInv', NEW t \in Threads, NEW s \in Sessions, ChangePassword(t, s)
  PROVE  FInv'
<1>1. /\ Commits(t, "change_password")
      /\ UNCHANGED <<codes, issued, now, used, twice, overlapped>>
  BY DEF ChangePassword
<1>2. PICK u \in Users : u = request[t].target
  BY <1>1, CommitFacts DEF FInv
<1>3. user[u] \in Row /\ Exists(u)
  BY <1>1, <1>2, CommitFacts DEF FInv, Commits
<1>4. user[u].version + 1 \in Nat /\ 3 - user[u].password \in {1, 2}
  BY <1>3 DEF Row
<1>5. PICK row \in Row :
        row = [user[u] EXCEPT !.password = 3 - @, !.mustChange = FALSE,
                              !.version = user[u].version + 1]
  BY <1>3, <1>4 DEF Row
<1>6. Factors(row) = Factors(user[u])
  BY <1>3, <1>5 DEF Factors, Row
<1>7. user' = [user EXCEPT ![u] = row]
  BY <1>2, <1>5 DEF ChangePassword
<1>8. user'[u] = row /\ \A v \in Users \ {u} : user'[v] = user[v]
  BY <1>7, RowWritten
<1>9. \A v \in Users : Exists(v)' => Exists(v) /\ Factors(user'[v]) = Factors(user[v])
  <2> HIDE DEF Factors
  <2> QED BY <1>3, <1>6, <1>8 DEF Exists
<1> QED BY <1>1, <1>9, StillSound, NowStays

LEMMA CreateUserSound ==
  ASSUME FInv, IInv', NEW t \in Threads, CreateUser(t)
  PROVE  FInv'
<1>1. /\ request[t] # Idle
      /\ UNCHANGED <<codes, issued, now, used, twice, overlapped>>
  BY DEF CreateUser
<1>2. PICK u \in Users : u = request[t].target
  BY <1>1 DEF FInv, IInv, TypeOK, Request
<1>3. PICK role \in Roles : user' = [user EXCEPT ![u] = CreatedUser(role)]
  BY <1>2 DEF CreateUser
<1>4. CreatedUser(role) \in Row
  BY DEF CreatedUser, EnsuredUser, Row
<1>5. user'[u] = CreatedUser(role) /\ \A v \in Users \ {u} : user'[v] = user[v]
  BY <1>3, <1>4, RowWritten
<1>6. \A v \in Users :
        Exists(v)' => \/ Exists(v) /\ Factors(user'[v]) = Factors(user[v])
                      \/ \E r \in Roles : user'[v] = CreatedUser(r)
  BY <1>5, Zenon DEF Exists
<1> QED BY <1>1, <1>6, StillSound, NowStays

LEMMA DeleteUserSound ==
  ASSUME FInv, IInv', NEW t \in Threads, DeleteUser(t)
  PROVE  FInv'
<1>1. /\ Commits(t, "delete")
      /\ UNCHANGED <<issued, now, used, twice, overlapped>>
  BY DEF DeleteUser
<1>2. PICK u \in Users : u = request[t].target
  BY <1>1, CommitFacts DEF FInv
<1>3. user' = [user EXCEPT ![u] = Deleted] /\ codes' = [codes EXCEPT ![u] = {}]
  BY <1>2 DEF DeleteUser
<1>4. /\ user'[u] = Deleted /\ \A v \in Users \ {u} : user'[v] = user[v]
      /\ \A v \in Users : codes'[v] \subseteq codes[v]
  BY <1>3 DEF FInv, IInv, TypeOK
<1>5. \A v \in Users : Exists(v)' => Exists(v) /\ Factors(user'[v]) = Factors(user[v])
  BY <1>4, Zenon DEF Exists
<1> QED BY <1>1, <1>4, <1>5, StillSound, NowStays

LEMMA OtherSteps ==
  ASSUME FInv, IInv',
         \/ \E t \in Threads : \/ ReadTarget(t) \/ Drop(t) \/ Logout(t) \/ RevokeOthers(t)
                               \/ \E s \in Sessions : RevokeSession(t, s)
         \/ \E t \in Threads, s \in Sessions, op \in Ops, u \in Users : Authenticate(t, s, op, u)
         \/ Tick \/ (\E s \in Sessions : Expire(s))
         \/ UNCHANGED vars
  PROVE  FInv'
<1> DEFINE Same == UNCHANGED <<user, codes, issued, used, twice, overlapped>>
           Still == Same /\ UNCHANGED now
<1>1. ASSUME NEW t \in Threads,
             \/ ReadTarget(t) \/ Drop(t) \/ Logout(t) \/ RevokeOthers(t)
             \/ \E s \in Sessions : RevokeSession(t, s)
      PROVE  Still
  <2>1. CASE ReadTarget(t) \/ Drop(t)
    BY <2>1 DEF ReadTarget, Drop, rowVars, historyVars
  <2>2. CASE Logout(t) \/ RevokeOthers(t)
    BY <2>2 DEF Logout, RevokeOthers, historyVars
  <2>3. ASSUME NEW s \in Sessions, RevokeSession(t, s) PROVE Still
    BY <2>3 DEF RevokeSession, historyVars
  <2> QED BY <1>1, <2>1, <2>2, <2>3
<1>2. ASSUME NEW t \in Threads, NEW s \in Sessions, NEW op \in Ops, NEW u \in Users,
             Authenticate(t, s, op, u)
      PROVE  Still
  BY <1>2 DEF Authenticate, rowVars, historyVars
<1>3. ASSUME NEW s \in Sessions, Expire(s) PROVE Still
  BY <1>3 DEF Expire, historyVars
<1>4. ASSUME UNCHANGED vars PROVE Still
  BY <1>4 DEF vars, rowVars, historyVars
<1>5. CASE Tick
  <2>1. Same /\ now' = now + 1
    BY <1>5 DEF Tick, rowVars, historyVars
  <2>2. now' >= now
    BY <2>1 DEF FInv, IInv, TypeOK
  <2> QED BY <2>1, <2>2, RowsUntouched
<1>6. CASE Still
  BY <1>6, NowStays, RowsUntouched
<1>7. Still \/ Tick
  <2> HIDE DEF Still
  <2> QED BY <1>1, <1>2, <1>3, <1>4
<1> QED BY <1>5, <1>6, <1>7

-----------------------------------------------------------------------------
(* Steps about the factors of a user.                                        *)

\* A code is accepted, or none is asked for.
Proven(u, row, counter) ==
  \/ \E c \in Window : Accept(u, row, c, counter)
  \/ counter = row.counter /\ NoFactor

LEMMA ProvenOthers ==
  ASSUME FInv, NEW u \in Users, NEW row \in Row, NEW counter, Proven(u, row, counter)
  PROVE  /\ counter \in Nat /\ now' >= now
         /\ \A v \in Users \ {u} :
              /\ v \in twice' => v \in twice
              /\ \A x, k \in Nat : <<v, x, k>> \in used' => <<v, x, k>> \in used
<1>0. IInv /\ now \in Nat
  BY DEF FInv, IInv, TypeOK
<1>1. CASE \E c \in Window : Accept(u, row, c, counter)
  <2>1. PICK c \in Window : Accept(u, row, c, counter)
    BY <1>1
  <2>2. counter \in Nat /\ Use(u, row.secret, c)
    BY <1>0, <2>1, AcceptFacts DEF Accept
  <2>3. now' >= now
    BY <1>0, <2>1 DEF Accept
  <2> QED BY <2>2, <2>3, OthersCodes
<1>2. CASE counter = row.counter /\ NoFactor
  <2>1. counter \in Nat
    BY <1>2 DEF Row
  <2> QED BY <1>0, <1>2, <2>1 DEF NoFactor
<1> QED BY <1>1, <1>2 DEF Proven

LEMMA ProvenSound ==
  ASSUME FInv, NEW u \in Users \ overlapped, user[u] \in Row, NEW row \in Row,
         Factors(row) = Factors(user[u]), NEW counter, Proven(u, row, counter)
  PROVE  /\ u \notin twice'
         /\ row.secret <= issued[u] /\ row.pending <= issued[u]
         /\ row.totp => row.pending = 0
         /\ row.confirmed # 0 => codes[u] \subseteq {row.confirmed}
         /\ \A secret, k \in Nat :
              <<u, secret, k>> \in used' =>
                /\ secret <= issued[u]
                /\ row.pending # 0 => secret # row.pending
                /\ row.totp /\ secret = row.secret => k <= counter \/ k + 1 < now'
<1>1. Sound(u) /\ Exists(u)
  BY ConstantFacts DEF FInv, Exists
<1>2. OnlyIssued(u) /\ Spent(u)
  BY <1>1 DEF Sound
<1>3. /\ row.totp = user[u].totp /\ row.secret = user[u].secret
      /\ row.pending = user[u].pending /\ row.counter = user[u].counter
      /\ row.confirmed = user[u].confirmed
  BY DEF Factors
<1>4. /\ row.secret <= issued[u] /\ row.pending <= issued[u]
      /\ row.totp => row.pending = 0
      /\ row.confirmed # 0 => codes[u] \subseteq {row.confirmed}
  BY <1>2, <1>3 DEF Spent
<1>5. CASE \E c \in Window : Accept(u, row, c, counter)
  <2>1. PICK c \in Window : Accept(u, row, c, counter)
    BY <1>5
  <2> QED BY <1>4, <2>1, AcceptSound
<1>6. CASE counter = row.counter /\ NoFactor
  <2>1. /\ u \notin twice'
        /\ \A secret, k \in Nat : <<u, secret, k>> \in used' => secret <= issued[u]
    BY <1>2, <1>6 DEF NoFactor, OnlyIssued
  <2>2. \A secret, k \in Nat :
          <<u, secret, k>> \in used' =>
            /\ row.pending # 0 => secret # row.pending
            /\ row.totp /\ secret = row.secret => k <= counter \/ k + 1 < now'
    BY <1>2, <1>3, <1>6 DEF NoFactor, Spent
  <2> QED BY <1>4, <2>1, <2>2
<1> QED BY <1>5, <1>6 DEF Proven

\* What becomes of the row and the recovery codes of u when a code was accepted or
\* none was asked for: the secret stays or is dropped, and a confirmation stays
\* only if the codes do.
LEMMA RowSound ==
  ASSUME FInv, IInv', NEW u \in Users, NEW row \in Row, NEW counter, Proven(u, row, counter),
         \A v \in Users \ {u} :
           /\ v \in overlapped => v \in overlapped'
           /\ codes'[v] = codes[v] /\ issued'[v] = issued[v] /\ user'[v] = user[v],
         u \notin overlapped' =>
           /\ u \notin overlapped
           /\ user[u] \in Row /\ Factors(row) = Factors(user[u])
           /\ \A a, b \in codes'[u] : a = b
           /\ issued'[u] >= issued[u]
           /\ user'[u].pending = row.pending
           /\ user'[u].secret = row.secret \/ user'[u].secret = 0
           /\ user'[u].totp => row.totp /\ user'[u].secret = row.secret /\ user'[u].counter = counter
           /\ user'[u].confirmed = 0 \/ (/\ user'[u].confirmed = row.confirmed
                                         /\ codes'[u] \subseteq codes[u])
  PROVE  FInv'
<1>1. ASSUME u \notin overlapped' PROVE OnlyIssued(u)' /\ Spent(u)'
  <2>1. issued[u] \in Nat /\ issued'[u] \in Nat /\ issued'[u] >= issued[u]
        /\ row.secret \in Nat /\ row.pending \in Nat
    BY <1>1 DEF FInv, IInv, TypeOK, Row
  <2>2. /\ u \notin twice'
        /\ row.secret <= issued[u] /\ row.pending <= issued[u]
        /\ row.totp => row.pending = 0
        /\ row.confirmed # 0 => codes[u] \subseteq {row.confirmed}
        /\ \A secret, k \in Nat :
             <<u, secret, k>> \in used' =>
               /\ secret <= issued[u]
               /\ row.pending # 0 => secret # row.pending
               /\ row.totp /\ secret = row.secret => k <= counter \/ k + 1 < now'
    BY <1>1, ProvenSound
  <2>3. OnlyIssued(u)'
    BY <1>1, <2>1, <2>2 DEF OnlyIssued
  <2>4. Spent(u)'
    BY <1>1, <2>1, <2>2 DEF Spent
  <2> QED BY <2>3, <2>4
<1>2. Sound(u)'
  BY <1>1 DEF Sound
<1> QED BY <1>2, ProvenOthers, OthersSound

LEMMA LoginSound ==
  ASSUME FInv, IInv', NEW u \in Users, NEW kind \in {"browser", "api"}, NEW s \in Sessions,
         Login(u, kind, s)
  PROVE  FInv'
<1>1. Exists(u) /\ PassFactor(u) /\ UNCHANGED <<issued, overlapped>>
  BY DEF Login
<1>2. user[u] \in Row
  BY <1>1 DEF Exists, FInv, IInv, TypeOK
<1>3. CASE \/ ~user[u].totp /\ UNCHANGED <<user, codes>> /\ NoFactor
           \/ \E b \in codes[u] :
                /\ codes' \in {codes, [codes EXCEPT ![u] = @ \ {b}]}
                /\ UNCHANGED user /\ NoFactor
  <2>1. UNCHANGED <<user, now, used, twice>> /\ \A v \in Users : codes'[v] \subseteq codes[v]
    BY <1>3 DEF NoFactor, FInv, IInv, TypeOK
  <2> QED BY <1>1, <2>1, StillSound, NowStays DEF Exists
<1>4. CASE \E c \in Window, counter \in Window \cup {0} :
             /\ Accept(u, user[u], c, counter)
             /\ user' = [user EXCEPT ![u].counter = counter]
             /\ UNCHANGED codes
  <2>1. PICK c \in Window, counter \in Window \cup {0} :
          /\ Accept(u, user[u], c, counter)
          /\ user' = [user EXCEPT ![u].counter = counter]
          /\ UNCHANGED codes
    BY <1>4
  <2>2. PICK row \in Row : row = user[u]
    BY <1>2
  <2>3. Proven(u, row, counter)
    BY <2>1, <2>2 DEF Proven
  <2>4. counter \in Nat
    BY <2>3, ProvenOthers
  <2>5. PICK new \in Row : new = [row EXCEPT !.counter = counter]
    BY <2>4 DEF Row
  <2>6. user' = [user EXCEPT ![u] = new]
    BY <2>1, <2>2, <2>5
  <2>7. user'[u] = new /\ \A v \in Users \ {u} : user'[v] = user[v]
    BY <2>6, RowWritten
  <2>8. /\ new.pending = row.pending /\ new.secret = row.secret /\ new.totp = row.totp
        /\ new.counter = counter /\ new.confirmed = row.confirmed
    BY <2>5 DEF Row
  <2>9. u \notin overlapped => (\A a, b \in codes[u] : a = b) /\ issued'[u] >= issued[u]
    BY <1>1, <1>2 DEF FInv, Sound, OnlyIssued, IInv, TypeOK
  <2> HIDE DEF Factors
  <2> QED BY <1>1, <1>2, <2>1, <2>2, <2>3, <2>7, <2>8, <2>9, RowSound
<1> QED BY <1>1, <1>3, <1>4 DEF PassFactor

\* A request that proves a factor and writes its copy.
LEMMA RequestSound ==
  ASSUME FInv, IInv', NEW t \in Threads, NEW op, Commits(t, op), NEW changed \in Row,
         StoreFactors(t, changed), NEW u \in Users, u = request[t].target,
         NEW row \in Row, row = request[t].row, NEW counter, Proven(u, row, counter),
         \A v \in Users \ {u} : codes'[v] = codes[v] /\ issued'[v] = issued[v],
         u \notin overlapped' =>
           /\ \A a, b \in codes'[u] : a = b
           /\ issued'[u] >= issued[u],
         changed.pending = row.pending,
         changed.secret = row.secret \/ changed.secret = 0,
         changed.totp => row.totp /\ changed.secret = row.secret /\ changed.counter = counter,
         changed.confirmed = 0 \/ (/\ changed.confirmed = row.confirmed
                                   /\ codes'[u] \subseteq codes[u])
  PROVE  FInv'
<1>1. /\ \A v \in Users \ {u} : user'[v] = user[v] /\ (v \in overlapped => v \in overlapped')
      /\ u \notin overlapped' => /\ u \notin overlapped
                                 /\ Factors(user[u]) = Factors(row)
                                 /\ Factors(user'[u]) = Factors(changed)
  BY FactorsWritten
<1>2. user[u] \in Row
  BY CommitFacts DEF FInv
<1>3. u \notin overlapped' =>
        /\ user'[u].pending = changed.pending /\ user'[u].secret = changed.secret
        /\ user'[u].totp = changed.totp /\ user'[u].counter = changed.counter
        /\ user'[u].confirmed = changed.confirmed
  BY <1>1 DEF Factors
<1> HIDE DEF Factors
<1> QED BY <1>1, <1>2, <1>3, RowSound

\* While no request has overlapped with another there is one batch of codes.
LEMMA OneBatch ==
  ASSUME FInv, NEW u \in Users
  PROVE  /\ u \notin overlapped => \A a, b \in codes[u] : a = b
         /\ issued'[u] = issued[u] => issued'[u] >= issued[u]
BY DEF FInv, Sound, OnlyIssued, IInv, TypeOK

LEMMA StepUpSound ==
  ASSUME FInv, IInv', NEW t \in Threads, StepUp(t)
  PROVE  FInv'
<1>1. Commits(t, "step_up") /\ UNCHANGED <<codes, issued>>
  BY DEF StepUp
<1>2. PICK u \in Users, row \in Row : u = request[t].target /\ row = request[t].row
  BY <1>1, CommitFacts DEF FInv
<1>3. PICK counter \in Nat, changed \in Row :
        /\ Proven(u, row, counter) /\ StoreFactors(t, changed)
        /\ changed.pending = row.pending /\ changed.secret = row.secret
        /\ changed.totp = row.totp /\ changed.counter = counter
        /\ changed.confirmed = row.confirmed
  <2>1. CASE StoreFactors(t, request[t].row) /\ NoFactor
    <3>1. Proven(u, row, row.counter) /\ row.counter \in Nat
      BY <2>1 DEF Proven, Row
    <3> QED BY <1>2, <2>1, <3>1
  <2>2. CASE \E c \in Window, counter \in Window \cup {0} :
               /\ Accept(request[t].target, request[t].row, c, counter)
               /\ StoreFactors(t, [request[t].row EXCEPT !.counter = counter])
    <3>1. PICK c \in Window, counter \in Window \cup {0} :
            /\ Accept(u, row, c, counter)
            /\ StoreFactors(t, [row EXCEPT !.counter = counter])
      BY <1>2, <2>2
    <3>2. Proven(u, row, counter)
      BY <3>1 DEF Proven
    <3>3. counter \in Nat
      BY <3>2, ProvenOthers
    <3>4. PICK changed \in Row : changed = [row EXCEPT !.counter = counter]
      BY <3>3 DEF Row
    <3>5. /\ changed.pending = row.pending /\ changed.secret = row.secret
          /\ changed.totp = row.totp /\ changed.counter = counter
          /\ changed.confirmed = row.confirmed
      BY <3>4 DEF Row
    <3>6. StoreFactors(t, changed)
      BY <3>1, <3>4
    <3> QED BY <3>2, <3>3, <3>5, <3>6, Zenon
  <2> QED BY <2>1, <2>2 DEF StepUp
<1>4. u \notin overlapped' => u \notin overlapped
  BY <1>1, <1>2, <1>3, FactorsWritten
<1>5. /\ u \notin overlapped' => \A a, b \in codes'[u] : a = b
      /\ issued'[u] >= issued[u]
  BY <1>1, <1>4, OneBatch
<1> QED BY <1>1, <1>2, <1>3, <1>5, RequestSound

LEMMA SetupTotpSound ==
  ASSUME FInv, IInv', NEW t \in Threads, SetupTotp(t)
  PROVE  FInv'
<1>1. Commits(t, "setup_totp") /\ UNCHANGED <<codes, now, used, twice>>
  BY DEF SetupTotp, NoFactor
<1>2. PICK u \in Users, row \in Row : u = request[t].target /\ row = request[t].row
  BY <1>1, CommitFacts DEF FInv
<1>3. /\ ~row.totp /\ issued[u] \in Nat /\ issued'[u] = issued[u] + 1
      /\ issued[u] + 1 \in Nat
      /\ \A v \in Users \ {u} : issued'[v] = issued[v]
  BY <1>2 DEF SetupTotp, FInv, IInv, TypeOK
<1>4. PICK changed \in Row : changed = [row EXCEPT !.pending = issued[u] + 1]
  BY <1>3 DEF Row
<1>5. /\ changed.pending = issued[u] + 1 /\ changed.secret = row.secret
      /\ changed.totp = row.totp /\ changed.confirmed = row.confirmed
  BY <1>4 DEF Row
<1>6. StoreFactors(t, changed)
  BY <1>2, <1>4 DEF SetupTotp
<1>7. /\ \A v \in Users \ {u} : user'[v] = user[v] /\ (v \in overlapped => v \in overlapped')
      /\ u \notin overlapped' => /\ u \notin overlapped
                                 /\ Factors(user[u]) = Factors(row)
                                 /\ Factors(user'[u]) = Factors(changed)
  BY <1>1, <1>2, <1>6, FactorsWritten
<1>8. ASSUME u \notin overlapped' PROVE OnlyIssued(u)' /\ Spent(u)'
  <2>1. Exists(u) /\ u \notin overlapped
    BY <1>1, <1>2, <1>7, <1>8 DEF Commits
  <2>2. OnlyIssued(u) /\ Spent(u)
    BY <2>1 DEF FInv, Sound
  <2>3. /\ user'[u].pending = issued[u] + 1 /\ user'[u].secret = row.secret
        /\ ~user'[u].totp /\ user'[u].confirmed = row.confirmed
        /\ user[u].secret = row.secret /\ user[u].confirmed = row.confirmed
    BY <1>3, <1>5, <1>7, <1>8 DEF Factors
  <2>4. row.secret \in Nat
    BY DEF Row
  <2>5. OnlyIssued(u)'
    BY <1>1, <1>3, <2>2 DEF OnlyIssued
  <2>6. Spent(u)'
    BY <1>1, <1>3, <2>2, <2>3, <2>4 DEF OnlyIssued, Spent
  <2> QED BY <2>5, <2>6
<1>9. Sound(u)'
  BY <1>8 DEF Sound
<1> QED BY <1>1, <1>3, <1>7, <1>9, NowStays, OthersSound

LEMMA EnableTotpSound ==
  ASSUME FInv, IInv', NEW t \in Threads, EnableTotp(t)
  PROVE  FInv'
<1>1. Commits(t, "enable_totp") /\ UNCHANGED now
  BY DEF EnableTotp
<1>2. PICK u \in Users, row \in Row : u = request[t].target /\ row = request[t].row
  BY <1>1, CommitFacts DEF FInv
<1>3. /\ row.pending \in Nat /\ row.secret \in Nat /\ row.pending # 0
      /\ now \in Nat \ {0} /\ issued[u] \in Nat
  BY <1>2 DEF EnableTotp, Row, FInv, IInv, TypeOK
<1>4. ASSUME u \notin overlapped PROVE OnlyIssued(u) /\ Spent(u)
  BY <1>1, <1>2, <1>4 DEF FInv, Sound, Commits
<1>5. CASE \E c \in Window \ {0} :
             /\ StoreFactors(t, [row EXCEPT !.secret = row.pending, !.pending = 0,
                                   !.totp = TRUE, !.counter = c, !.confirmed = 0])
             /\ Use(u, row.pending, c)
             /\ NewBatch(u, codes[u])
  <2>1. PICK c \in Window \ {0} :
          /\ StoreFactors(t, [row EXCEPT !.secret = row.pending, !.pending = 0,
                                !.totp = TRUE, !.counter = c, !.confirmed = 0])
          /\ Use(u, row.pending, c)
          /\ NewBatch(u, codes[u])
    BY <1>5
  <2>2. c \in Nat
    BY <1>3 DEF Window
  <2>3. PICK changed \in Row :
          changed = [row EXCEPT !.secret = row.pending, !.pending = 0,
                                !.totp = TRUE, !.counter = c, !.confirmed = 0]
    BY <1>3, <2>2 DEF Row
  <2>4. /\ changed.pending = 0 /\ changed.secret = row.pending /\ changed.totp
        /\ changed.counter = c /\ changed.confirmed = 0
    BY <2>3 DEF Row
  <2>5. /\ \A v \in Users \ {u} : user'[v] = user[v] /\ (v \in overlapped => v \in overlapped')
        /\ u \notin overlapped' => /\ u \notin overlapped
                                   /\ Factors(user[u]) = Factors(row)
                                   /\ Factors(user'[u]) = Factors(changed)
    BY <1>1, <1>2, <2>1, <2>3, FactorsWritten
  <2>6. PICK old : old = codes[u]
    OBVIOUS
  <2>7. /\ \A v \in Users \ {u} : codes'[v] = codes[v] /\ issued'[v] = issued[v]
        /\ issued'[u] \in Nat /\ issued'[u] > issued[u]
        /\ \A a, b \in codes'[u] : a = b
    BY <2>1, <2>6, NewBatchSound
  <2>8. \A v \in Users \ {u} :
          /\ v \in twice' => v \in twice
          /\ \A x, k \in Nat : <<v, x, k>> \in used' => <<v, x, k>> \in used
    BY <2>1, OthersCodes
  <2>9. ASSUME u \notin overlapped' PROVE OnlyIssued(u)' /\ Spent(u)'
    <3>1. OnlyIssued(u) /\ Spent(u)
      BY <1>4, <2>5, <2>9
    <3>2. /\ user'[u].pending = 0 /\ user'[u].secret = row.pending /\ user'[u].totp
          /\ user'[u].counter = c /\ user'[u].confirmed = 0 /\ user[u].pending = row.pending
      BY <2>4, <2>5, <2>9 DEF Factors
    <3>3. /\ used' = used \cup {<<u, row.pending, c>>}
          /\ twice' = IF <<u, row.pending, c>> \in used THEN twice \cup {u} ELSE twice
      BY <2>1 DEF Use
    <3>4. /\ row.pending <= issued[u]
          /\ \A secret, k \in Nat : <<u, secret, k>> \in used => secret # row.pending
      BY <1>3, <3>1, <3>2 DEF Spent
    <3>5. \A secret, k \in Nat :
            <<u, secret, k>> \in used' =>
              <<u, secret, k>> \in used \/ (secret = row.pending /\ k = c)
      BY <3>3
    <3>6. u \notin twice'
      BY <1>3, <2>2, <3>1, <3>3, <3>4 DEF OnlyIssued
    <3>7. OnlyIssued(u)'
      BY <1>3, <2>7, <3>1, <3>4, <3>5, <3>6 DEF OnlyIssued
    <3>8. Spent(u)'
      BY <1>3, <2>2, <2>7, <3>2, <3>4, <3>5 DEF Spent
    <3> QED BY <3>7, <3>8
  <2>10. Sound(u)'
    BY <2>9 DEF Sound
  <2> QED BY <1>1, <2>5, <2>7, <2>8, <2>10, NowStays, OthersSound
<1>6. CASE /\ StoreFactors(t, [row EXCEPT !.pending = 0])
           /\ UNCHANGED <<used, twice, codes, issued>>
  <2>1. PICK changed \in Row : changed = [row EXCEPT !.pending = 0]
    BY DEF Row
  <2>2. /\ changed.pending = 0 /\ changed.secret = row.secret /\ changed.totp = row.totp
        /\ changed.counter = row.counter /\ changed.confirmed = row.confirmed
    BY <2>1 DEF Row
  <2>3. /\ \A v \in Users \ {u} : user'[v] = user[v] /\ (v \in overlapped => v \in overlapped')
        /\ u \notin overlapped' => /\ u \notin overlapped
                                   /\ Factors(user[u]) = Factors(row)
                                   /\ Factors(user'[u]) = Factors(changed)
    BY <1>1, <1>2, <1>6, <2>1, FactorsWritten
  <2>4. ASSUME u \notin overlapped' PROVE OnlyIssued(u)' /\ Spent(u)'
    <3>1. OnlyIssued(u) /\ Spent(u)
      BY <1>4, <2>3, <2>4
    <3>2. /\ user'[u].pending = 0 /\ user'[u].secret = user[u].secret
          /\ user'[u].totp = user[u].totp /\ user'[u].counter = user[u].counter
          /\ user'[u].confirmed = user[u].confirmed
      BY <2>2, <2>3, <2>4 DEF Factors
    <3>3. OnlyIssued(u)'
      BY <1>6, <3>1 DEF OnlyIssued
    <3>4. Spent(u)'
      BY <1>1, <1>3, <1>6, <3>1, <3>2 DEF Spent
    <3> QED BY <3>3, <3>4
  <2>5. Sound(u)'
    BY <2>4 DEF Sound
  <2> QED BY <1>1, <1>6, <2>3, <2>5, NowStays, OthersSound
<1> QED BY <1>2, <1>5, <1>6 DEF EnableTotp

LEMMA ConfirmSound ==
  ASSUME FInv, IInv', NEW t \in Threads, Confirm(t)
  PROVE  FInv'
<1>1. Commits(t, "confirm") /\ UNCHANGED <<codes, issued, now, used, twice>>
  BY DEF Confirm, NoFactor
<1>2. PICK u \in Users, row \in Row, seen \in SUBSET Nat :
        u = request[t].target /\ row = request[t].row /\ seen = request[t].codes
  BY <1>1, CommitFacts DEF FInv
<1>3. user[u] \in Row /\ Exists(u) /\ codes[u] # {}
  BY <1>1, <1>2, CommitFacts DEF FInv, Commits, Confirm
<1>4. PICK b \in IF seen = {} THEN {1} ELSE seen : user' = [user EXCEPT ![u].confirmed = b]
  BY <1>2 DEF Confirm
<1>5. PICK new \in Row : new = [user[u] EXCEPT !.confirmed = b]
  <2>1. b \in Nat
    BY <1>4
  <2> QED BY <1>3, <2>1 DEF Row
<1>6. user' = [user EXCEPT ![u] = new]
  BY <1>4, <1>5
<1>7. user'[u] = new /\ \A v \in Users \ {u} : user'[v] = user[v]
  BY <1>6, RowWritten
<1>8. /\ new.pending = user[u].pending /\ new.secret = user[u].secret /\ new.totp = user[u].totp
      /\ new.counter = user[u].counter /\ new.confirmed = b
  BY <1>3, <1>5 DEF Row
<1>9. /\ overlapped \subseteq overlapped'
      /\ u \notin overlapped' => u \notin overlapped /\ codes[u] = seen
  BY <1>2 DEF Confirm
<1>10. ASSUME u \notin overlapped' PROVE OnlyIssued(u)' /\ Spent(u)'
  <2>1. OnlyIssued(u) /\ Spent(u) /\ codes[u] = seen
    BY <1>3, <1>9, <1>10 DEF FInv, Sound
  <2>2. codes[u] \subseteq {b}
    BY <1>3, <1>4, <2>1 DEF OnlyIssued
  <2>3. OnlyIssued(u)'
    BY <1>1, <2>1 DEF OnlyIssued
  <2>4. Spent(u)'
    BY <1>1, <1>7, <1>8, <2>1, <2>2 DEF Spent
  <2> QED BY <2>3, <2>4
<1>11. Sound(u)'
  BY <1>10 DEF Sound
<1> QED BY <1>1, <1>7, <1>9, <1>11, NowStays, OthersSound

\* With a code or within a step-up window.
LEMMA ProofProven ==
  ASSUME NEW t \in Threads, NEW u, u = request[t].target, NEW row, row = request[t].row,
         NEW counter, Proof(t, counter)
  PROVE  Proven(u, row, counter)
BY DEF Proof, Proven

LEMMA RegenerateSound ==
  ASSUME FInv, IInv', NEW t \in Threads, Regenerate(t)
  PROVE  FInv'
<1>1. Commits(t, "regenerate")
  BY DEF Regenerate
<1>2. PICK u \in Users, row \in Row, seen \in SUBSET Nat :
        u = request[t].target /\ row = request[t].row /\ seen = request[t].codes
  BY <1>1, CommitFacts DEF FInv
<1>3. PICK counter \in Window \cup {0, row.counter}, old \in {codes[u], seen} :
        /\ Proof(t, counter)
        /\ StoreFactors(t, [row EXCEPT !.counter = counter, !.confirmed = 0])
        /\ NewBatch(u, old)
  BY <1>2 DEF Regenerate
<1>4. Proven(u, row, counter)
  BY <1>2, <1>3, ProofProven
<1>5. counter \in Nat
  BY <1>4, ProvenOthers
<1>6. PICK changed \in Row : changed = [row EXCEPT !.counter = counter, !.confirmed = 0]
  BY <1>5 DEF Row
<1>7. /\ changed.pending = row.pending /\ changed.secret = row.secret
      /\ changed.totp = row.totp /\ changed.counter = counter /\ changed.confirmed = 0
  BY <1>6 DEF Row
<1>8. u \notin overlapped' => codes[u] = seen
  BY <1>1, <1>2, <1>3, <1>6, FactorsWritten
<1>9. /\ \A v \in Users \ {u} : codes'[v] = codes[v] /\ issued'[v] = issued[v]
      /\ issued'[u] > issued[u] /\ issued'[u] \in Nat
      /\ old = codes[u] => \A a, b \in codes'[u] : a = b
  BY <1>3, NewBatchSound
<1>10. issued'[u] >= issued[u]
  BY <1>9 DEF FInv, IInv, TypeOK
<1>11. u \notin overlapped' => \A a, b \in codes'[u] : a = b
  BY <1>3, <1>8, <1>9
<1>12. StoreFactors(t, changed)
  BY <1>3, <1>6
<1> QED BY <1>1, <1>2, <1>4, <1>7, <1>9, <1>10, <1>11, <1>12, RequestSound

LEMMA DisableTotpSound ==
  ASSUME FInv, IInv', NEW t \in Threads, DisableTotp(t)
  PROVE  FInv'
<1>1. Commits(t, "disable_totp") /\ UNCHANGED issued
  BY DEF DisableTotp
<1>2. PICK u \in Users, row \in Row : u = request[t].target /\ row = request[t].row
  BY <1>1, CommitFacts DEF FInv
<1>3. row.version + 1 \in Nat
  BY DEF Row
<1>4. PICK changed \in Row :
        changed = [row EXCEPT !.totp = FALSE, !.secret = 0, !.counter = 0, !.confirmed = 0,
                              !.version = row.version + 1]
  BY <1>3 DEF Row
<1>5. /\ changed.pending = row.pending /\ changed.secret = 0 /\ ~changed.totp
      /\ changed.confirmed = 0
  BY <1>4 DEF Row
<1>6. PICK counter : Proven(u, row, counter)
  <2>1. PICK counter : Proof(t, counter)
    BY <1>2, Zenon DEF DisableTotp
  <2> QED BY <1>2, <2>1, ProofProven
<1>7. StoreFactors(t, changed) /\ codes' = [codes EXCEPT ![u] = {}]
  BY <1>2, <1>4 DEF DisableTotp
<1>8. codes'[u] = {} /\ \A v \in Users \ {u} : codes'[v] = codes[v]
  BY <1>7 DEF FInv, IInv, TypeOK
<1> QED BY <1>1, <1>2, <1>5, <1>6, <1>7, <1>8, OneBatch, RequestSound

LEMMA SoundInit == Init => FInv
<1> SUFFICES ASSUME Init PROVE FInv
  OBVIOUS
<1>1. ASSUME NEW u \in Users PROVE Sound(u)
  <2>1. OnlyIssued(u)
    BY DEF Init, OnlyIssued
  <2>2. ASSUME Exists(u) PROVE Spent(u)
    <3>1. /\ user[u].secret = 0 /\ user[u].pending \in {0, 1} /\ ~user[u].totp
          /\ user[u].confirmed = 0
      <4>1. CASE user \in [Users -> {Absent} \cup {EnsuredUser(role) : role \in Roles}]
        BY <2>2, <4>1 DEF Exists, EnsuredUser
      <4>2. CASE \E first \in Users :
                   user = [v \in Users |-> IF v = first
                             THEN [CreatedUser("owner") EXCEPT !.pending = 1] ELSE Absent]
        <5>1. user[u] = [CreatedUser("owner") EXCEPT !.pending = 1]
          BY <2>2, <4>2 DEF Exists
        <5> QED BY <5>1 DEF CreatedUser, EnsuredUser
      <4> QED BY <4>1, <4>2 DEF Init
    <3>2. issued[u] = 1 /\ used = {}
      BY DEF Init
    <3> QED BY <3>1, <3>2 DEF Spent
  <2> QED BY <2>1, <2>2 DEF Sound
<1> QED BY <1>1, InitInv DEF FInv

LEMMA SoundInvariance == FInv /\ [Next]_vars => FInv'
<1> SUFFICES ASSUME FInv, [Next]_vars PROVE FInv'
  OBVIOUS
<1>0. IInv'
  BY Invariance DEF FInv
<1>1. CASE \E u \in Users, kind \in {"browser", "api"}, s \in Sessions : Login(u, kind, s)
  BY <1>0, <1>1, LoginSound
<1>2. CASE \/ \E t \in Threads : \/ ReadTarget(t) \/ Drop(t) \/ Logout(t) \/ RevokeOthers(t)
                                \/ \E s \in Sessions : RevokeSession(t, s)
           \/ \E t \in Threads, s \in Sessions, op \in Ops, u \in Users : Authenticate(t, s, op, u)
           \/ Tick \/ (\E s \in Sessions : Expire(s))
           \/ UNCHANGED vars
  BY <1>0, <1>2, OtherSteps
<1>3. ASSUME NEW t \in Threads,
             \/ StepUp(t) \/ SetupTotp(t) \/ EnableTotp(t) \/ Confirm(t)
             \/ Regenerate(t) \/ DisableTotp(t)
      PROVE  FInv'
  BY <1>0, <1>3, StepUpSound, SetupTotpSound, EnableTotpSound, ConfirmSound, RegenerateSound,
     DisableTotpSound
<1>4. ASSUME NEW t \in Threads,
             \/ RevokeUserSessions(t) \/ RotatePassword(t) \/ UpdateUser(t)
             \/ CreateUser(t) \/ DeleteUser(t) \/ \E s \in Sessions : ChangePassword(t, s)
      PROVE  FInv'
  BY <1>0, <1>4, InvalidateSteps, CreateUserSound, DeleteUserSound, ChangePasswordSound
<1> QED BY <1>1, <1>2, <1>3, <1>4 DEF Next

-----------------------------------------------------------------------------
(* The theorems.                                                             *)

\* Every reachable state is well typed: the rows of users and user_sessions.
THEOREM TypeCorrect == Spec => []TypeOK
<1>1. IInv => TypeOK
  BY DEF IInv
<1> QED BY <1>1, Invariant, PTL

\* However owners demote, disable and delete each other at the same time, an
\* active one is left: update_user, delete_user.
THEOREM SomeOwnerRemains == Spec => []OwnerRemains
<1>1. IInv => OwnerRemains
  BY DEF IInv
<1> QED BY <1>1, Invariant, PTL

\* No session outlives a change of its user's authorization: revoke_sessions.
THEOREM NoSessionOutdated == Spec => []SessionsCurrent
<1>1. IInv => SessionsCurrent
  BY DEF IInv, NoneOutdated, SessionsCurrent, Valid
<1> QED BY <1>1, Invariant, PTL

\* While no two requests about the factors of a user overlap, no one-time code is
\* accepted twice (last_totp_counter), the recovery codes are those of one batch,
\* and that is the batch the user confirmed to have saved: verify_totp,
\* setup_totp, enable_totp, regenerate_recovery_codes, confirm_recovery_codes.
THEOREM SecondFactorSound == Spec => []FactorsSound
<1>1. FInv => FactorsSound
  <2> SUFFICES ASSUME FInv, NEW u \in Users \ overlapped
               PROVE  /\ u \notin twice
                      /\ Cardinality(codes[u]) <= 1
                      /\ Exists(u) /\ user[u].confirmed # 0 => codes[u] \subseteq {user[u].confirmed}
    BY DEF FactorsSound
  <2>1. OnlyIssued(u) /\ (Exists(u) => Spent(u))
    BY DEF FInv, Sound
  <2>2. Cardinality(codes[u]) <= 1
    <3>1. CASE codes[u] = {}
      BY <3>1, FS_EmptySet
    <3>2. CASE codes[u] # {}
      <4>1. PICK a : codes[u] = {a}
        BY <2>1, <3>2 DEF OnlyIssued
      <4> QED BY <4>1, FS_Singleton
    <3> QED BY <3>1, <3>2
  <2> QED BY <2>1, <2>2 DEF OnlyIssued, Spent
<1>2. Spec => []FInv
  BY SoundInit, SoundInvariance, PTL DEF Spec
<1> QED BY <1>1, <1>2, PTL
=============================================================================
