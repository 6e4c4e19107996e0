------------------------------ MODULE Sessions ------------------------------
(***************************************************************************)
(* Sessions and what they may do: a sign-in issues an access token and a   *)
(* refresh token, a refresh token is traded once for the next pair, a      *)
(* logout ends them all; every request of a member of staff looks up its   *)
(* account and its stores again, and an administrator may change both      *)
(* meanwhile (authsvc, TokenRepo, the middleware authenticate, adminsvc).  *)
(*                                                                         *)
(* Each statement is a step; requests interleave between them and may end  *)
(* after any of them.  SignIn models how a customer comes to sign in.      *)
(***************************************************************************)
EXTENDS Naturals, FiniteSets, Access

CONSTANTS
  Requests,      \* requests in flight; a slot is used again when it is done
  Staff,         \* the primary keys that rows of users may get
  Customers,     \* customers, who exist already
  Stores,
  NoOne,
  FirstStaff,    \* the rows of users at the start, and ...
  FirstStores,   \* ... whose stores they are assigned
  StaffInputs,   \* the rows an administrator may save
  StoreInputs,   \* the sets of stores an administrator may assign
  RoutesAsked,   \* the routes that requests name
  MaxTokens,     \* refresh tokens ever issued
  MaxChanges,    \* changes of staff
  MaxLogouts     \* of each subject

Account == [role : StaffRoles \cup {NoRole}, group : BOOLEAN, active : BOOLEAN]

NoAccount == [role |-> NoRole, group |-> FALSE, active |-> FALSE]

ASSUME SessionsAssumption ==
  /\ FirstStaff \in [Staff -> Account] /\ FirstStores \in [Staff -> SUBSET Stores]
  /\ StaffInputs \subseteq Account /\ StoreInputs \subseteq SUBSET Stores
  /\ RoutesAsked \subseteq Routes
  /\ Staff \cap Customers = {} /\ NoOne \notin Staff \cup Customers
  /\ {MaxTokens, MaxChanges, MaxLogouts} \subseteq Nat
  /\ IsFiniteSet(Requests) /\ Requests # {}

VARIABLES
  accounts,   \* table users
  assigned,   \* table staff_store_assignments
  tokens,     \* table refresh_tokens
  passes,     \* the access tokens issued: whose and for which role; they never
              \* expire here, which only lets more requests in
  at,         \* where each request stands and what it has read
  seen,       \* what each request's subject has been and had since it began
  logouts,    \* how often each subject has signed out
  changes     \* how often staff have been changed

people == <<accounts, assigned, changes, seen>>
sessions == <<tokens, passes, logouts>>

vars == <<people, sessions, at>>

Subjects == Staff \cup Customers

TokenIds == 1 .. MaxTokens

\* A row of refresh_tokens.  era: the logouts before the sign-in it goes back to.
\* late: it was stored by a request that a logout overtook, or goes back to one.
Token == [subject : Subjects \cup {NoOne}, parent : Nat, revoked : BOOLEAN,
          expired : BOOLEAN, era : Nat, late : BOOLEAN]

NoToken == [subject |-> NoOne, parent |-> 0, revoked |-> FALSE, expired |-> FALSE,
            era |-> 0, late |-> FALSE]

Steps == {"IDLE", "ROTATE", "RELOAD", "ISSUE", "REFUSED", "READ_STORES", "ROUTE",
          "ACT", "ASSIGN"}

\* What a request holds between two statements: its subject and how often that had
\* signed out when it began, the token it trades, the account and the stores it has
\* read, what its route needed and the store it acts on, whom it changes and the
\* stores it grants.
Idle == [step |-> "IDLE", subject |-> NoOne, began |-> 0, parent |-> 0,
         role |-> NoRole, group |-> FALSE, stores |-> {}, needs |-> {}, scope |-> "ANY",
         store |-> NoOne, who |-> NoOne, grant |-> {}]

Init == /\ accounts = FirstStaff
        /\ assigned = FirstStores
        /\ tokens = [t \in TokenIds |-> NoToken]
        /\ passes = {}
        /\ at = [q \in Requests |-> Idle]
        /\ seen = [q \in Requests |-> [accounts |-> {}, stores |-> {}]]
        /\ logouts = [s \in Subjects |-> 0]
        /\ changes = 0

In(q, step) == at[q].step = step

Goto(q, step) == at' = [at EXCEPT ![q].step = step]

\* The request is over; what it saw no longer matters.
End(q) == /\ at' = [at EXCEPT ![q] = Idle]
          /\ seen' = [seen EXCEPT ![q] = [accounts |-> {}, stores |-> {}]]

Issued == {t \in TokenIds : tokens[t].subject # NoOne}

LiveTokens == {t \in Issued : ~tokens[t].revoked /\ ~tokens[t].expired}

\* The steps after a request's account was read, for which seen is kept.
Acting == {"READ_STORES", "ROUTE", "ACT", "ASSIGN"}

Watch(s, account, stores) ==
  seen' = [q \in Requests |->
             IF at[q].subject # s \/ at[q].step \notin Acting THEN seen[q]
             ELSE [accounts |-> seen[q].accounts \cup {account},
                   stores |-> seen[q].stores \cup stores]]

-----------------------------------------------------------------------------
(* Signing in, refreshing, signing out.                                    *)

\* StaffLogin of an account that is active, and any of SignIn's ways for a
\* customer; the password and its lock are modelled there.
Login(q, s) ==
  /\ In(q, "IDLE")
  /\ s \in Staff => accounts[s].active
  /\ at' = [at EXCEPT ![q] =
       [Idle EXCEPT !.step = "ISSUE", !.subject = s, !.began = logouts[s],
                    !.role = IF s \in Staff THEN accounts[s].role ELSE "customer"]]
  /\ UNCHANGED <<people, sessions>>

\* issueWithParent: the access token is signed and the refresh token stored.
Issue(q) ==
  LET s == at[q].subject
      parent == at[q].parent IN
  /\ In(q, "ISSUE")
  /\ \E t \in TokenIds :
       /\ tokens[t] = NoToken
       /\ \A older \in TokenIds : older < t => tokens[older] # NoToken
       /\ tokens' = [tokens EXCEPT ![t] =
            [NoToken EXCEPT
               !.subject = s, !.parent = parent,
               !.era = IF parent = 0 THEN at[q].began ELSE tokens[parent].era,
               !.late = logouts[s] # at[q].began \/ (parent # 0 /\ tokens[parent].late)]]
  /\ passes' = passes \cup {[subject |-> s, role |-> at[q].role]}
  /\ End(q)
  /\ UNCHANGED <<accounts, assigned, changes, logouts>>

\* Mutant: a token that was traded is taken again.
PresentableRevoked(t) == t \in Issued /\ ~tokens[t].expired

Presentable(t) == t \in Issued /\ ~tokens[t].revoked /\ ~tokens[t].expired

\* ConsumeRefresh reads the row, and takes no lock.
ReadToken(q, t) ==
  /\ In(q, "IDLE")
  /\ Presentable(t)
  /\ at' = [at EXCEPT ![q] =
       [Idle EXCEPT !.step = "ROTATE", !.subject = tokens[t].subject, !.parent = t,
                    !.began = logouts[tokens[t].subject]]]
  /\ UNCHANGED <<people, sessions>>

\* A token that is presented again: the transaction revokes every token of its
\* subject and returns an error, so gorm rolls it back.
Replay(q, t) ==
  /\ In(q, "IDLE")
  /\ t \in Issued /\ tokens[t].revoked
  /\ at' = [at EXCEPT ![q] = [Idle EXCEPT !.step = "REFUSED",
                                          !.subject = tokens[t].subject]]
  /\ UNCHANGED <<people, sessions>>

\* Mutant: the token that was traded stays.
RotatedKept(t) == tokens

Rotated(t) == [tokens EXCEPT ![t].revoked = TRUE]

\* The UPDATE by id; it does not ask again whether the token is still live.
Rotate(q) ==
  /\ In(q, "ROTATE")
  /\ tokens' = Rotated(at[q].parent)
  /\ Goto(q, "RELOAD")
  /\ UNCHANGED <<people, passes, logouts>>

\* The subject's row; is_active is not asked.
Reload(q) ==
  LET s == at[q].subject IN
  /\ In(q, "RELOAD")
  /\ at' = [at EXCEPT ![q].step = "ISSUE",
                      ![q].role = IF s \in Staff THEN accounts[s].role ELSE "customer"]
  /\ UNCHANGED <<people, sessions>>

\* Mutant: only the tokens that a sign-in issued are ended.
RevokedFirst(s) == [t \in TokenIds |->
  IF tokens[t].subject = s /\ tokens[t].parent = 0
  THEN [tokens[t] EXCEPT !.revoked = TRUE] ELSE tokens[t]]

\* RevokeAllRefresh.
Revoked(s) == [t \in TokenIds |->
  IF tokens[t].subject = s THEN [tokens[t] EXCEPT !.revoked = TRUE] ELSE tokens[t]]

\* The route asks for a signed-in caller and no permission.
Logout(q) ==
  LET s == at[q].subject IN
  /\ In(q, "ROUTE")
  /\ logouts[s] < MaxLogouts
  /\ tokens' = Revoked(s)
  /\ logouts' = [logouts EXCEPT ![s] = @ + 1]
  /\ End(q)
  /\ UNCHANGED <<accounts, assigned, changes, passes>>

-----------------------------------------------------------------------------
(* A request with an access token.                                         *)

\* Mutant: the role is the one the token was issued for.
RoleFromToken(pass) == pass.role

RoleOf(pass) == IF pass.subject \in Staff THEN accounts[pass.subject].role ELSE pass.role

\* authenticate: a customer is what the token says, a member of staff what the row
\* says; StaffPort.Get reads the stores in a second statement.
Authenticate(q, pass) ==
  LET s == pass.subject IN
  /\ In(q, "IDLE")
  /\ pass \in passes
  /\ s \in Staff => accounts[s].active
  /\ at' = [at EXCEPT ![q] =
       [Idle EXCEPT !.step = IF s \in Staff THEN "READ_STORES" ELSE "ROUTE",
                    !.subject = s, !.role = RoleOf(pass),
                    !.group = s \in Staff /\ accounts[s].group]]
  /\ seen' = [seen EXCEPT ![q] =
       IF s \in Staff THEN [accounts |-> {accounts[s]}, stores |-> assigned[s]] ELSE @]
  /\ UNCHANGED <<accounts, assigned, changes, sessions>>

\* AssignedStores.
ReadStores(q) ==
  /\ In(q, "READ_STORES")
  /\ at' = [at EXCEPT ![q].step = "ROUTE", ![q].stores = assigned[at[q].subject]]
  /\ UNCHANGED <<people, sessions>>

\* requirePermission and the service's own question, from what was read; store is
\* the one the request names or whose row it names.
Admit(q, route, store) ==
  /\ In(q, "ROUTE")
  /\ \A permission \in route.needs : Can(at[q].role, permission)
  /\ route.scope \in {"STORE", "ROWS"} =>
       CanAccessStore(at[q].role, at[q].group, at[q].stores, store)
  /\ at' = [at EXCEPT ![q].step = "ACT", ![q].needs = route.needs,
                      ![q].scope = route.scope,
                      ![q].store = IF route.scope = "OWN" THEN NoOne ELSE store]
  /\ UNCHANGED <<people, sessions>>

\* What the request does: one of the other modules' operations, or below.
Act(q) == In(q, "ACT") /\ End(q) /\ UNCHANGED <<accounts, assigned, changes, sessions>>

-----------------------------------------------------------------------------
(* What an administrator does to staff.                                    *)

ManagesStaff(q) == In(q, "ACT") /\ "staff.manage" \in at[q].needs

\* A request that says nothing of stores leaves them.
Keep == {NoOne}

\* The row is saved; the stores are another transaction.
SaveStaff(q, u, account, grant) ==
  /\ changes < MaxChanges
  /\ accounts' = [accounts EXCEPT ![u] = account]
  /\ changes' = changes + 1
  /\ IF grant = Keep THEN at' = [at EXCEPT ![q] = Idle]
     ELSE at' = [at EXCEPT ![q].step = "ASSIGN", ![q].who = u, ![q].grant = grant]
  /\ Watch(u, account, {})
  /\ UNCHANGED <<assigned, sessions>>

\* CreateStaff: an empty list of stores is as good as none.
CreateStaff(q, u, account, grant) ==
  /\ ManagesStaff(q)
  /\ accounts[u] = NoAccount
  /\ SaveStaff(q, u, [account EXCEPT !.active = TRUE], IF grant = {} THEN Keep ELSE grant)

\* UpdateStaff: role, scope and is_active are the request's.
UpdateStaff(q, u, account, grant) ==
  /\ ManagesStaff(q)
  /\ accounts[u] # NoAccount
  /\ SaveStaff(q, u, account, grant)

\* ReplaceAssignments.
Assign(q) ==
  LET u == at[q].who IN
  /\ In(q, "ASSIGN")
  /\ assigned' = [assigned EXCEPT ![u] = at[q].grant]
  /\ at' = [at EXCEPT ![q] = Idle]
  /\ Watch(u, accounts[u], at[q].grant)
  /\ UNCHANGED <<accounts, changes, sessions>>

DeactivateStaff(q, u) ==
  /\ ManagesStaff(q)
  /\ accounts[u].active /\ changes < MaxChanges
  /\ accounts' = [accounts EXCEPT ![u].active = FALSE]
  /\ changes' = changes + 1
  /\ at' = [at EXCEPT ![q] = Idle]
  /\ Watch(u, [accounts[u] EXCEPT !.active = FALSE], {})
  /\ UNCHANGED <<assigned, sessions>>

-----------------------------------------------------------------------------
(* Requests that end, and time.                                            *)

\* A request is answered or given up, or a statement fails: what was done stays.
Drop(q) == ~In(q, "IDLE") /\ End(q) /\ UNCHANGED <<accounts, assigned, changes, sessions>>

\* A refresh token runs out; for one that is revoked that makes no difference.
Expire ==
  /\ \E t \in LiveTokens : tokens' = [tokens EXCEPT ![t].expired = TRUE]
  /\ UNCHANGED <<people, passes, logouts, at>>

-----------------------------------------------------------------------------
Next ==
  \/ \E q \in Requests :
       \/ \E s \in Subjects : Login(q, s)
       \/ Issue(q)
       \/ \E t \in TokenIds : ReadToken(q, t) \/ Replay(q, t)
       \/ Rotate(q) \/ Reload(q)
       \/ \E pass \in passes : Authenticate(q, pass)
       \/ ReadStores(q) \/ Logout(q) \/ Act(q) \/ Assign(q) \/ Drop(q)
       \/ \E route \in RoutesAsked, store \in Stores : Admit(q, route, store)
       \/ \E u \in Staff, account \in StaffInputs, grant \in StoreInputs \cup {Keep} :
            CreateStaff(q, u, account, grant) \/ UpdateStaff(q, u, account, grant)
       \/ \E u \in Staff : DeactivateStaff(q, u)
  \/ Expire

Spec == Init /\ [][Next]_vars

-----------------------------------------------------------------------------
(* What it promises.                                                       *)

Pass == [subject : Subjects, role : StaffRoles \cup {NoRole, "customer"}]

TypeOK ==
  /\ accounts \in [Staff -> Account]
  /\ assigned \in [Staff -> SUBSET Stores]
  /\ tokens \in [TokenIds -> Token]
  /\ passes \subseteq Pass
  /\ at \in [Requests ->
       [step : Steps, subject : Subjects \cup {NoOne}, began : Nat, parent : Nat,
        role : StaffRoles \cup {NoRole, "customer"}, group : BOOLEAN,
        stores : SUBSET Stores, needs : SUBSET UNION {r.needs : r \in Routes},
        scope : {"STORE", "ROWS", "OWN", "ANY"}, store : Stores \cup {NoOne},
        who : Staff \cup {NoOne}, grant : SUBSET (Stores \cup {NoOne})]]
  /\ seen \in [Requests -> [accounts : SUBSET Account, stores : SUBSET Stores]]
  /\ logouts \in [Subjects -> Nat]
  /\ changes \in Nat

\* A refresh token is traded no more often than there are requests that read it
\* before the first of them revoked it: ConsumeRefresh takes no lock and its UPDATE
\* does not ask (identity.go:243-246, "rotates a refresh token in one step").
RotationBounded ==
  \A t \in TokenIds :
    Cardinality({child \in TokenIds : tokens[child].parent = t /\ child \in Issued})
      <= Cardinality(Requests)

\* After a logout no session goes back to a sign-in before it, but for what a
\* request in flight at that moment stored afterwards, and its successors
\* (authsvc.go:438-441, "revokes every refresh token for the subject").
LogoutEnds ==
  \A t \in LiveTokens :
    tokens[t].era < logouts[tokens[t].subject] => tokens[t].late

\* Whatever token it carries, and whatever an administrator changes while it runs,
\* a request of a member of staff does what its account, active, was permitted, and
\* where it was assigned or unscoped, at some moment since the request began; and a
\* customer's only what is a customer's own (BR-2.7.6 to BR-2.7.9).
ActsWithinGrants ==
  \A q \in Requests : at[q].step \in {"ACT", "ASSIGN"} =>
    IF at[q].subject \in Customers
    THEN at[q].scope = "OWN" /\ at[q].needs \subseteq CustomerPermissions
    ELSE /\ \E a \in seen[q].accounts :
              a.active /\ at[q].needs \subseteq PermissionsOf(a.role)
         /\ \/ at[q].store \in seen[q].stores
            \/ \E a \in seen[q].accounts : IsUnscoped(a.role, a.group)

\* A token presented again ends its subject's every session, at once (identity.go:
\* 243-246, "revokes the whole chain - the classic replay defence"; authsvc.go:403).
ReplayKillsChain ==
  [][\A q \in Requests :
       at[q].step # "REFUSED" /\ at'[q].step = "REFUSED" =>
         \A t \in LiveTokens : tokens[t].subject = at'[q].subject => tokens'[t].revoked]_vars
=============================================================================
