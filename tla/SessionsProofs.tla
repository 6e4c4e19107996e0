--------------------------- MODULE SessionsProofs ---------------------------
(***************************************************************************)
(* What Sessions promises, for any number of requests, of members of       *)
(* staff, of customers, of stores and of refresh tokens.                   *)
(***************************************************************************)
EXTENDS Sessions, Integers, FiniteSetTheorems, TLAPS

Fields == {"step", "subject", "began", "parent", "role", "group", "stores", "needs", "scope",
           "store", "who", "grant"}

\* A request is a record, and so is what it has seen; counts are numbers.
Shaped ==
  /\ DOMAIN at = Requests /\ \A q \in Requests : DOMAIN at[q] = Fields
  /\ DOMAIN seen = Requests /\ \A q \in Requests : DOMAIN seen[q] = {"accounts", "stores"}
  /\ tokens \in [TokenIds -> Token]
  /\ logouts \in [Subjects -> Nat]
  /\ accounts \in [Staff -> Account] /\ assigned \in [Staff -> SUBSET Stores]
  /\ passes \subseteq Pass

\* The requests that trade a token, from its being read until the next is stored.
Trading == {"ROTATE", "RELOAD", "ISSUE"}

\* Of a request: who is asking, and the token it trades.
Attributed ==
  \A q \in Requests :
    /\ at[q].step # "IDLE" => at[q].subject \in Subjects
    /\ at[q].began \in Nat
    /\ at[q].parent \in Nat
    /\ at[q].step \in {"ROTATE", "RELOAD"} => at[q].parent \in Issued
    /\ at[q].step = "ISSUE" => at[q].parent = 0 \/ at[q].parent \in Issued
    /\ at[q].step \in Trading => /\ at[q].role \in StaffRoles \cup {NoRole, "customer"}
    /\ at[q].step = "ASSIGN" => at[q].who \in Staff /\ at[q].grant \in SUBSET Stores

Typed == Shaped /\ Attributed

\* Setting a flag of a row keeps its type and whose it is.
LEMMA FlagsAreFlags ==
  /\ \A t \in Token :
       /\ [t EXCEPT !.revoked = TRUE] \in Token /\ [t EXCEPT !.expired = TRUE] \in Token
       /\ [t EXCEPT !.revoked = TRUE].subject = t.subject
       /\ [t EXCEPT !.expired = TRUE].subject = t.subject
  /\ \A a \in Account, b \in BOOLEAN : [a EXCEPT !.active = b] \in Account
BY DEF Token, Account

LEMMA FlaggedTokens ==
  ASSUME tokens \in [TokenIds -> Token], NEW t \in TokenIds,
         \/ tokens' = [tokens EXCEPT ![t].revoked = TRUE]
         \/ tokens' = [tokens EXCEPT ![t].expired = TRUE]
  PROVE  tokens' \in [TokenIds -> Token] /\ Issued' = Issued
<1>1. tokens[t] \in Token
  OBVIOUS
<1>2. PICK row \in Token : row.subject = tokens[t].subject /\ tokens' = [tokens EXCEPT ![t] = row]
  BY <1>1, FlagsAreFlags
<1> QED BY <1>2 DEF Issued

USE DEF Shaped, Fields

LEMMA InitTyped == Init => Typed
  BY SessionsAssumption DEF Init, Typed, Attributed, Idle, NoToken, Token, Issued, Subjects,
     Trading, TokenIds

LEMMA StepTyped == Typed /\ [Next]_vars => Typed'
<1> SUFFICES ASSUME Typed, [Next]_vars PROVE Typed'
  OBVIOUS
<1> USE DEF Typed, Attributed, Idle, Trading
<1>1. ASSUME NEW q \in Requests, NEW s \in Subjects, Login(q, s) PROVE Typed'
  BY <1>1 DEF Login, In, people, sessions, Account, Issued
<1>2. ASSUME NEW q \in Requests, Issue(q) PROVE Typed'
  <2> USE DEF Issue, In, End
  <2>1. PICK t \in TokenIds :
          /\ tokens[t] = NoToken
          /\ tokens' = [tokens EXCEPT ![t] =
               [NoToken EXCEPT
                  !.subject = at[q].subject, !.parent = at[q].parent,
                  !.era = IF at[q].parent = 0 THEN at[q].began ELSE tokens[at[q].parent].era,
                  !.late = \/ logouts[at[q].subject] # at[q].began
                           \/ (at[q].parent # 0 /\ tokens[at[q].parent].late)]]
    BY <1>2
  <2>2. at[q].subject \in Subjects /\ (at[q].parent = 0 \/ at[q].parent \in Issued)
    BY <1>2
  <2>3. tokens' \in [TokenIds -> Token]
    BY <1>2, <2>1, <2>2 DEF NoToken, Token, Issued
  <2>4. Issued \subseteq Issued'
    BY <1>2, <2>1 DEF Issued, NoToken
  <2>5. passes' \subseteq Pass
    BY <1>2 DEF Pass
  <2>6. Shaped'
    BY <1>2, <2>3, <2>5
  <2>7. Attributed'
    BY <1>2, <2>4
  <2> QED BY <2>6, <2>7
<1>3. ASSUME NEW q \in Requests, NEW t \in TokenIds, ReadToken(q, t) \/ Replay(q, t)
      PROVE Typed'
  <2>1. tokens[t].subject \in Subjects /\ t \in Issued
    BY <1>3 DEF ReadToken, Replay, Presentable, Issued, Token
  <2>2. Issued' = Issued
    BY <1>3 DEF ReadToken, Replay, sessions, Issued
  <2>3. t \in Nat /\ tokens[t].subject \in Subjects /\ logouts[tokens[t].subject] \in Nat
    BY <2>1 DEF TokenIds
  <2>4. UNCHANGED <<people, sessions>> /\ Shaped'
    BY <1>3 DEF ReadToken, Replay, people, sessions
  <2>5. CASE ReadToken(q, t)
    BY <2>1, <2>2, <2>3, <2>4, <2>5 DEF ReadToken, In
  <2>6. CASE Replay(q, t)
    BY <2>1, <2>2, <2>3, <2>4, <2>6 DEF Replay, In
  <2> QED BY <1>3, <2>5, <2>6
<1>4. ASSUME NEW q \in Requests, Rotate(q) PROVE Typed'
  <2>1. tokens' \in [TokenIds -> Token] /\ Issued' = Issued
    <3>1. tokens' = Rotated(at[q].parent) /\ at[q].parent \in TokenIds
      BY <1>4 DEF Rotate, In, Issued
    <3> QED BY <3>1, FlaggedTokens DEF Rotated
  <2> QED BY <1>4, <2>1 DEF Rotate, In, Goto, people
<1>5. ASSUME NEW q \in Requests, Reload(q) PROVE Typed'
  <2>1. Issued' = Issued
    BY <1>5 DEF Reload, sessions, Issued
  <2> QED BY <1>5, <2>1 DEF Reload, In, people, sessions, Account
<1>6. ASSUME NEW q \in Requests, NEW pass \in passes, Authenticate(q, pass) PROVE Typed'
  <2>1. Issued' = Issued
    BY <1>6 DEF Authenticate, sessions, Issued
  <2>2. pass.subject \in Subjects
    BY DEF Pass
  <2> QED BY <1>6, <2>1, <2>2 DEF Authenticate, In, sessions
<1>7. ASSUME NEW q \in Requests, ReadStores(q) PROVE Typed'
  <2>1. Issued' = Issued
    BY <1>7 DEF ReadStores, sessions, Issued
  <2> QED BY <1>7, <2>1 DEF ReadStores, In, people, sessions
<1>8. ASSUME NEW q \in Requests, Logout(q) PROVE Typed'
  <2>3. tokens' = Revoked(at[q].subject)
    BY <1>8 DEF Logout
  <2>4. ASSUME NEW t \in TokenIds
        PROVE  tokens'[t] \in Token /\ tokens'[t].subject = tokens[t].subject
    BY <2>3, FlagsAreFlags DEF Revoked
  <2>1. tokens' \in [TokenIds -> Token] /\ Issued' = Issued
    BY <2>3, <2>4 DEF Revoked, Issued
  <2>2. logouts' \in [Subjects -> Nat]
    BY <1>8 DEF Logout, In
  <2> QED BY <1>8, <2>1, <2>2 DEF Logout, In, End
<1>9. ASSUME NEW q \in Requests, Act(q) \/ Drop(q) PROVE Typed'
  <2>1. Issued' = Issued
    BY <1>9 DEF Act, Drop, sessions, Issued
  <2> QED BY <1>9, <2>1 DEF Act, Drop, In, End, sessions
<1>10. ASSUME NEW q \in Requests, Assign(q) PROVE Typed'
  <2>1. Issued' = Issued
    BY <1>10 DEF Assign, sessions, Issued
  <2>2. assigned' \in [Staff -> SUBSET Stores]
    BY <1>10 DEF Assign, In
  <2> QED BY <1>10, <2>1, <2>2 DEF Assign, In, sessions, Watch
<1>11. ASSUME NEW q \in Requests, NEW route \in RoutesAsked, NEW store \in Stores,
              Admit(q, route, store)
       PROVE Typed'
  <2>1. Issued' = Issued
    BY <1>11 DEF Admit, sessions, Issued
  <2> QED BY <1>11, <2>1 DEF Admit, In, people, sessions
<1>12. ASSUME NEW q \in Requests, NEW u \in Staff, NEW account \in StaffInputs,
              NEW grant \in StoreInputs \cup {Keep},
              CreateStaff(q, u, account, grant) \/ UpdateStaff(q, u, account, grant)
       PROVE Typed'
  <2>1. Issued' = Issued
    BY <1>12 DEF CreateStaff, UpdateStaff, SaveStaff, sessions, Issued
  <2>2. PICK saved \in Account, g \in StoreInputs \cup {Keep} :
          ManagesStaff(q) /\ SaveStaff(q, u, saved, g)
    <3>1. account \in Account
      BY SessionsAssumption
    <3>2. CASE CreateStaff(q, u, account, grant)
      <4> DEFINE saved == [account EXCEPT !.active = TRUE]
                 g == IF grant = {} THEN Keep ELSE grant
      <4>1. saved \in Account
        BY <3>1, FlagsAreFlags
      <4>2. g \in StoreInputs \cup {Keep}
        OBVIOUS
      <4>3. ManagesStaff(q) /\ SaveStaff(q, u, saved, g)
        BY <3>2 DEF CreateStaff
      <4> HIDE DEF saved, g
      <4> QED BY <4>1, <4>2, <4>3
    <3>3. CASE UpdateStaff(q, u, account, grant)
      <4>1. ManagesStaff(q) /\ SaveStaff(q, u, account, grant)
        BY <3>3 DEF UpdateStaff
      <4> QED BY <3>1, <4>1
    <3> QED BY <1>12, <3>2, <3>3
  <2>3. g # Keep => g \in SUBSET Stores
    BY <2>2, SessionsAssumption
  <2> QED BY <2>1, <2>2, <2>3 DEF SaveStaff, sessions, Watch, ManagesStaff, In
<1>13. ASSUME NEW q \in Requests, NEW u \in Staff, DeactivateStaff(q, u) PROVE Typed'
  <2>1. Issued' = Issued
    BY <1>13 DEF DeactivateStaff, sessions, Issued
  <2>3. Shaped'
    BY <1>13, FlagsAreFlags DEF DeactivateStaff, ManagesStaff, In, sessions, Watch
  <2>4. Attributed'
    BY <1>13, <2>1 DEF DeactivateStaff, ManagesStaff, In, sessions
  <2> QED BY <2>3, <2>4
<1>14. CASE Expire
  <2>2. PICK t \in TokenIds : tokens' = [tokens EXCEPT ![t].expired = TRUE]
    BY <1>14 DEF Expire, LiveTokens, Issued
  <2>1. tokens' \in [TokenIds -> Token] /\ Issued' = Issued
    BY <2>2, FlaggedTokens
  <2> QED BY <1>14, <2>1 DEF Expire, people
<1>15. CASE UNCHANGED vars
  BY <1>15 DEF vars, people, sessions, Issued
<1> QED
  BY <1>1, <1>2, <1>3, <1>4, <1>5, <1>6, <1>7, <1>8, <1>9, <1>10, <1>11, <1>12, <1>13, <1>14,
     <1>15 DEF Next

-----------------------------------------------------------------------------
(* A logout.                                                               *)

\* A request that trades a token knows of the logouts before it was read: what the
\* token's sign-in missed then had been stored late.
TradedIsCurrent ==
  \A q \in Requests :
    at[q].step \in Trading /\ at[q].parent # 0 =>
      /\ tokens[at[q].parent].subject = at[q].subject
      /\ tokens[at[q].parent].era < at[q].began => tokens[at[q].parent].late

InvLogout == Typed /\ TradedIsCurrent /\ LogoutEnds

\* What a step that neither issues a token nor reads one may do to the sessions.
KeepsSessions ==
  /\ \A t \in TokenIds :
       /\ tokens'[t].subject = tokens[t].subject /\ tokens'[t].parent = tokens[t].parent
       /\ tokens'[t].era = tokens[t].era /\ tokens'[t].late = tokens[t].late
       /\ tokens[t].revoked => tokens'[t].revoked
       /\ tokens[t].expired => tokens'[t].expired
  /\ \A s \in Subjects : logouts'[s] # logouts[s] =>
       \A t \in TokenIds : tokens[t].subject = s => tokens'[t].revoked
  /\ \A q \in Requests : at'[q].step \in Trading /\ at'[q].parent # 0 =>
       /\ at[q].step \in Trading /\ at'[q].parent = at[q].parent
       /\ at'[q].subject = at[q].subject /\ at'[q].began = at[q].began
       /\ at'[q].step = "ROTATE" => at[q].step = "ROTATE"
       /\ at[q].step = "ROTATE" /\ at'[q].step # "ROTATE" => tokens'[at[q].parent].revoked

LEMMA MostKeepSessions ==
  ASSUME Typed, [Next]_vars
  PROVE  \/ KeepsSessions
         \/ \E q \in Requests : Issue(q) \/ \E t \in TokenIds : ReadToken(q, t)
<1> USE DEF Typed, KeepsSessions, Trading, Idle
<1>1. ASSUME NEW q \in Requests, NEW s \in Subjects, Login(q, s) PROVE KeepsSessions
  BY <1>1 DEF Login, In, people, sessions
<1>3. ASSUME NEW q \in Requests, NEW t \in TokenIds, Replay(q, t) PROVE KeepsSessions
  BY <1>3 DEF Replay, In, people, sessions
<1>4. ASSUME NEW q \in Requests, Rotate(q) PROVE KeepsSessions
  <2>1. at[q].parent \in TokenIds
    BY <1>4 DEF Rotate, In, Attributed, Issued
  <2>2. at' = [at EXCEPT ![q].step = "RELOAD"] /\ tokens' = Rotated(at[q].parent)
        /\ logouts' = logouts
    BY <1>4 DEF Rotate, Goto
  <2>3. \A t \in TokenIds :
          /\ tokens'[t].subject = tokens[t].subject /\ tokens'[t].parent = tokens[t].parent
          /\ tokens'[t].era = tokens[t].era /\ tokens'[t].late = tokens[t].late
          /\ tokens[t].revoked => tokens'[t].revoked
          /\ tokens[t].expired => tokens'[t].expired
    BY <2>1, <2>2 DEF Rotated, Token
  <2>4. tokens'[at[q].parent].revoked
    BY <2>1, <2>2 DEF Rotated, Token
  <2> QED BY <1>4, <2>2, <2>3, <2>4 DEF Rotate, In
<1>5. ASSUME NEW q \in Requests, Reload(q) PROVE KeepsSessions
  BY <1>5 DEF Reload, In, people, sessions
<1>6. ASSUME NEW q \in Requests, NEW pass \in passes, Authenticate(q, pass) PROVE KeepsSessions
  BY <1>6 DEF Authenticate, In, sessions
<1>7. ASSUME NEW q \in Requests, ReadStores(q) PROVE KeepsSessions
  BY <1>7 DEF ReadStores, In, people, sessions
<1>8. ASSUME NEW q \in Requests, Logout(q) PROVE KeepsSessions
  <2>1. tokens' = Revoked(at[q].subject) /\ logouts' = [logouts EXCEPT ![at[q].subject] = @ + 1]
        /\ at' = [at EXCEPT ![q] = Idle]
    BY <1>8 DEF Logout, End
  <2>2. ASSUME NEW t \in TokenIds
        PROVE /\ tokens'[t].subject = tokens[t].subject /\ tokens'[t].parent = tokens[t].parent
              /\ tokens'[t].era = tokens[t].era /\ tokens'[t].late = tokens[t].late
              /\ tokens[t].revoked => tokens'[t].revoked
              /\ tokens[t].expired => tokens'[t].expired
              /\ tokens[t].subject = at[q].subject => tokens'[t].revoked
    BY <2>1 DEF Revoked, Token
  <2>3. \A s \in Subjects : logouts'[s] # logouts[s] => s = at[q].subject
    BY <2>1
  <2> QED BY <2>1, <2>2, <2>3
<1>9. ASSUME NEW q \in Requests, Act(q) \/ Drop(q) PROVE KeepsSessions
  BY <1>9 DEF Act, Drop, In, End, sessions
<1>10. ASSUME NEW q \in Requests, Assign(q) PROVE KeepsSessions
  BY <1>10 DEF Assign, In, sessions
<1>11. ASSUME NEW q \in Requests, NEW route \in RoutesAsked, NEW store \in Stores,
              Admit(q, route, store)
       PROVE KeepsSessions
  BY <1>11 DEF Admit, In, people, sessions
<1>12. ASSUME NEW q \in Requests, NEW u \in Staff, NEW account \in StaffInputs,
              NEW grant \in StoreInputs \cup {Keep},
              CreateStaff(q, u, account, grant) \/ UpdateStaff(q, u, account, grant)
       PROVE KeepsSessions
  <2>1. PICK saved, g : ManagesStaff(q) /\ SaveStaff(q, u, saved, g)
    BY <1>12 DEF CreateStaff, UpdateStaff
  <2> QED BY <2>1 DEF SaveStaff, sessions, ManagesStaff, In
<1>13. ASSUME NEW q \in Requests, NEW u \in Staff, DeactivateStaff(q, u) PROVE KeepsSessions
  BY <1>13 DEF DeactivateStaff, ManagesStaff, In, sessions
<1>14. CASE Expire
  <2>1. PICK t \in TokenIds : tokens' = [tokens EXCEPT ![t].expired = TRUE]
    BY <1>14 DEF Expire, LiveTokens, Issued
  <2>2. at' = at /\ logouts' = logouts
    BY <1>14 DEF Expire
  <2> QED BY <2>1, <2>2 DEF Token
<1>15. CASE UNCHANGED vars
  BY <1>15 DEF vars, people, sessions
<1> QED
  BY <1>1, <1>3, <1>4, <1>5, <1>6, <1>7, <1>8, <1>9, <1>10, <1>11, <1>12, <1>13, <1>14,
     <1>15 DEF Next

\* What Issue stores, and that it ends the request.
LEMMA IssueStores ==
  ASSUME Typed, NEW q \in Requests, Issue(q)
  PROVE  /\ \E t \in TokenIds :
              /\ tokens[t] = NoToken
              /\ tokens' = [tokens EXCEPT ![t] =
                   [NoToken EXCEPT
                      !.subject = at[q].subject, !.parent = at[q].parent,
                      !.era = IF at[q].parent = 0 THEN at[q].began
                              ELSE tokens[at[q].parent].era,
                      !.late = \/ logouts[at[q].subject] # at[q].began
                               \/ (at[q].parent # 0 /\ tokens[at[q].parent].late)]]
         /\ at[q].step = "ISSUE" /\ at' = [at EXCEPT ![q] = Idle] /\ logouts' = logouts
  BY DEF Issue, In, End

\* The token that Issue stores is nobody's before.
LEMMA IssueKeepsOthers ==
  ASSUME Typed, NEW q \in Requests, Issue(q), NEW p \in TokenIds, p \in Issued
  PROVE  tokens'[p] = tokens[p]
<1>1. PICK t \in TokenIds : tokens[t] = NoToken /\ \A u \in TokenIds \ {t} : tokens'[u] = tokens[u]
  BY IssueStores DEF Typed
<1>2. p # t
  BY <1>1 DEF Issued, NoToken
<1> QED BY <1>1, <1>2

LEMMA StepLogout == InvLogout /\ [Next]_vars => InvLogout'
<1> SUFFICES ASSUME InvLogout, [Next]_vars PROVE InvLogout'
  OBVIOUS
<1>1. Typed /\ Typed'
  BY StepTyped DEF InvLogout
<1>2. CASE KeepsSessions
  <2>1. TradedIsCurrent'
    <3> SUFFICES ASSUME NEW q \in Requests, at'[q].step \in Trading, at'[q].parent # 0
                 PROVE  /\ tokens'[at'[q].parent].subject = at'[q].subject
                        /\ tokens'[at'[q].parent].era < at'[q].began
                             => tokens'[at'[q].parent].late
      BY DEF TradedIsCurrent
    <3>1. /\ at[q].step \in Trading /\ at'[q].parent = at[q].parent
          /\ at'[q].subject = at[q].subject /\ at'[q].began = at[q].began
      BY <1>2 DEF KeepsSessions
    <3>2. at[q].parent \in TokenIds
      BY <1>1, <3>1 DEF Typed, Attributed, Issued, Trading
    <3> QED BY <1>2, <3>1, <3>2 DEF KeepsSessions, InvLogout, TradedIsCurrent
  <2>2. LogoutEnds'
    <3> SUFFICES ASSUME NEW t \in LiveTokens',
                        tokens'[t].era < logouts'[tokens'[t].subject]
                 PROVE  tokens'[t].late
      BY DEF LogoutEnds
    <3>1. t \in TokenIds /\ ~tokens'[t].revoked /\ tokens'[t].subject # NoOne
          /\ ~tokens'[t].expired
      BY DEF LiveTokens, Issued
    <3>2. t \in LiveTokens /\ tokens[t].subject \in Subjects
      BY <1>1, <1>2, <3>1 DEF KeepsSessions, LiveTokens, Issued, Typed, Token
    <3>3. logouts'[tokens[t].subject] = logouts[tokens[t].subject]
      BY <1>2, <3>1, <3>2 DEF KeepsSessions
    <3> QED BY <1>2, <3>1, <3>2, <3>3 DEF KeepsSessions, InvLogout, LogoutEnds
  <2> QED BY <1>1, <2>1, <2>2 DEF InvLogout
<1>3. ASSUME NEW q \in Requests, NEW t \in TokenIds, ReadToken(q, t) PROVE InvLogout'
  <2>1. /\ t \in LiveTokens /\ UNCHANGED <<tokens, logouts>>
        /\ at' = [at EXCEPT ![q] =
             [Idle EXCEPT !.step = "ROTATE", !.subject = tokens[t].subject, !.parent = t,
                          !.began = logouts[tokens[t].subject]]]
    BY <1>3 DEF ReadToken, Presentable, LiveTokens, sessions
  <2>2. LogoutEnds'
    BY <2>1 DEF LogoutEnds, InvLogout, LiveTokens, Issued
  <2>3. tokens[t].era < logouts[tokens[t].subject] => tokens[t].late
    BY <2>1 DEF LogoutEnds, InvLogout
  <2>4. TradedIsCurrent'
    BY <1>1, <2>1, <2>3 DEF TradedIsCurrent, InvLogout, Idle, Typed
  <2> QED BY <1>1, <2>2, <2>4 DEF InvLogout
<1>4. ASSUME NEW q \in Requests, Issue(q) PROVE InvLogout'
  <2> DEFINE s == at[q].subject
             p == at[q].parent
  <2>1. PICK t \in TokenIds :
          /\ tokens[t] = NoToken
          /\ tokens' = [tokens EXCEPT ![t] =
               [NoToken EXCEPT !.subject = s, !.parent = p,
                  !.era = IF p = 0 THEN at[q].began ELSE tokens[p].era,
                  !.late = logouts[s] # at[q].began \/ (p # 0 /\ tokens[p].late)]]
    BY <1>1, <1>4, IssueStores
  <2>2. at[q].step = "ISSUE" /\ at' = [at EXCEPT ![q] = Idle] /\ logouts' = logouts
    BY <1>1, <1>4, IssueStores
  <2>3. TradedIsCurrent'
    <3> SUFFICES ASSUME NEW r \in Requests, at'[r].step \in Trading, at'[r].parent # 0
                 PROVE  /\ tokens'[at'[r].parent].subject = at'[r].subject
                        /\ tokens'[at'[r].parent].era < at'[r].began
                             => tokens'[at'[r].parent].late
      BY DEF TradedIsCurrent
    <3>1. at'[r] = at[r]
      BY <1>1, <2>2 DEF Typed, Idle, Trading
    <3>2. at[r].parent \in Issued /\ at[r].parent \in TokenIds
      BY <1>1, <3>1 DEF Typed, Attributed, Trading, Issued
    <3>3. tokens'[at[r].parent] = tokens[at[r].parent]
      BY <1>1, <1>4, <3>2, IssueKeepsOthers
    <3> QED BY <3>1, <3>3 DEF InvLogout, TradedIsCurrent
  <2>4. LogoutEnds'
    <3> SUFFICES ASSUME NEW u \in LiveTokens',
                        tokens'[u].era < logouts'[tokens'[u].subject]
                 PROVE  tokens'[u].late
      BY DEF LogoutEnds
    <3>1. u \in TokenIds
      BY DEF LiveTokens, Issued
    <3>2. CASE u # t
      BY <1>1, <2>1, <2>2, <3>1, <3>2 DEF LogoutEnds, InvLogout, LiveTokens, Issued, Typed
    <3>3. CASE u = t
      <4>1. /\ tokens'[t].subject = s
            /\ tokens'[t].era = IF p = 0 THEN at[q].began ELSE tokens[p].era
            /\ logouts[s] # at[q].began \/ (p # 0 /\ tokens[p].late) => tokens'[t].late
        BY <1>1, <2>1 DEF Typed, NoToken
      <4>2. s \in Subjects /\ logouts[s] \in Nat /\ at[q].began \in Nat
        BY <1>1, <2>2 DEF Typed, Attributed
      <4>3. p # 0 => (tokens[p].era < at[q].began => tokens[p].late)
        BY <2>2 DEF InvLogout, TradedIsCurrent, Trading
      <4>4. tokens'[t].era < logouts[s]
        BY <2>2, <3>3, <4>1
      <4>5. CASE p = 0
        BY <3>3, <4>1, <4>2, <4>4, <4>5
      <4>6. CASE p # 0
        BY <3>3, <4>1, <4>2, <4>3, <4>4, <4>6
      <4> QED BY <4>5, <4>6
    <3> QED BY <3>2, <3>3
  <2> QED BY <1>1, <2>3, <2>4 DEF InvLogout
<1> QED BY <1>1, <1>2, <1>3, <1>4, MostKeepSessions

LEMMA InitLogout == Init => InvLogout
  BY InitTyped DEF Init, InvLogout, TradedIsCurrent, LogoutEnds, LiveTokens, Issued, Trading,
     Idle, NoToken

\* Once a subject has signed out, no session that can still be refreshed goes back to a
\* sign-in before that, except through a token that a request in flight stored later.
THEOREM LogoutEndsSessions == Spec => []LogoutEnds
<1>1. InvLogout => LogoutEnds
  BY DEF InvLogout
<1> QED BY <1>1, InitLogout, StepLogout, PTL DEF Spec

-----------------------------------------------------------------------------
(* How often a token is traded.                                            *)

Children(t) == {child \in TokenIds : tokens[child].parent = t /\ child \in Issued}

Pending(t) == {q \in Requests : at[q].step \in Trading /\ at[q].parent = t}

\* Nobody has got past the UPDATE of a token that is not revoked; what was traded for
\* one and what may yet be were read by requests that were all there at once.
Traded ==
  /\ \A t \in TokenIds : tokens[t].parent \in Nat /\ (t \notin Issued => tokens[t].parent = 0)
  /\ \A t \in TokenIds :
       /\ ~tokens[t].revoked =>
            Children(t) = {} /\ \A q \in Pending(t) : at[q].step = "ROTATE"
       /\ Cardinality(Children(t)) + Cardinality(Pending(t)) <= Cardinality(Requests)

InvRotation == Typed /\ Traded

LEMMA CountsAreFinite ==
  ASSUME NEW t
  PROVE  /\ IsFiniteSet(Children(t)) /\ Cardinality(Children(t)) \in Nat
         /\ IsFiniteSet(Pending(t)) /\ Cardinality(Pending(t)) \in Nat
         /\ Cardinality(Pending(t)) <= Cardinality(Requests)
         /\ Cardinality(Requests) \in Nat
<1>1. IsFiniteSet(TokenIds)
  BY SessionsAssumption, FS_Interval DEF TokenIds
<1>2. Children(t) \in SUBSET TokenIds /\ Pending(t) \in SUBSET Requests
  BY DEF Children, Pending
<1>3. IsFiniteSet(Requests)
  BY SessionsAssumption
<1> QED BY <1>1, <1>2, <1>3, FS_Subset, FS_CardinalityType

LEMMA StepRotation == InvRotation /\ [Next]_vars => InvRotation'
<1> SUFFICES ASSUME InvRotation, [Next]_vars PROVE InvRotation'
  OBVIOUS
<1>1. Typed /\ Typed' /\ Traded
  BY StepTyped DEF InvRotation
<1>2. CASE KeepsSessions
  <2>1. \A t \in TokenIds : tokens'[t].subject = tokens[t].subject
                            /\ tokens'[t].parent = tokens[t].parent
    BY <1>2 DEF KeepsSessions
  <2>2. Issued' = Issued
    BY <2>1 DEF Issued
  <2>3. ASSUME NEW t \in TokenIds
        PROVE  /\ ~tokens'[t].revoked =>
                    Children(t)' = {} /\ \A q \in Pending(t)' : at'[q].step = "ROTATE"
               /\ Cardinality(Children(t)') + Cardinality(Pending(t)') <= Cardinality(Requests)
    <3>1. Children(t)' = Children(t)
      BY <2>1, <2>2 DEF Children
    <3>2. t # 0
      BY DEF TokenIds
    <3>3. Pending(t)' \in SUBSET Pending(t)
      BY <1>2, <3>2 DEF KeepsSessions, Pending
    <3>4. Cardinality(Pending(t)') <= Cardinality(Pending(t)) /\ Cardinality(Pending(t)') \in Nat
      BY <3>3, CountsAreFinite, FS_Subset, FS_CardinalityType
    <3>5. ~tokens'[t].revoked => \A q \in Pending(t)' : at'[q].step = "ROTATE"
      BY <1>1, <1>2, <3>2, <3>3 DEF KeepsSessions, Pending, Traded, Trading
    <3>6. ~tokens'[t].revoked => Children(t)' = {}
      BY <1>1, <1>2, <3>1 DEF KeepsSessions, Traded
    <3>7. Cardinality(Children(t)') + Cardinality(Pending(t)') <= Cardinality(Requests)
      BY <1>1, <3>1, <3>4, CountsAreFinite DEF Traded
    <3> QED BY <3>5, <3>6, <3>7
  <2>4. \A t \in TokenIds : tokens'[t].parent \in Nat
                            /\ (t \notin Issued' => tokens'[t].parent = 0)
    BY <1>1, <2>1, <2>2 DEF Traded
  <2> QED BY <1>1, <2>3, <2>4 DEF InvRotation, Traded
<1>3. ASSUME NEW q \in Requests, NEW p \in TokenIds, ReadToken(q, p) PROVE InvRotation'
  <2>1. /\ p \in Issued /\ ~tokens[p].revoked /\ tokens' = tokens
        /\ at[q].step = "IDLE"
        /\ at' = [at EXCEPT ![q] =
             [Idle EXCEPT !.step = "ROTATE", !.subject = tokens[p].subject, !.parent = p,
                          !.began = logouts[tokens[p].subject]]]
    BY <1>3 DEF ReadToken, Presentable, sessions, In
  <2>2. ASSUME NEW t \in TokenIds PROVE Children(t)' = Children(t)
    BY <2>1 DEF Children, Issued
  <2>3. ASSUME NEW t \in TokenIds, t # p PROVE Pending(t)' = Pending(t)
    BY <1>1, <2>1, <2>3 DEF Pending, Trading, Idle, Typed
  <2>4. \A r \in Pending(p)' : at'[r].step = "ROTATE"
    BY <1>1, <2>1 DEF Pending, Traded, Typed, Idle, Trading
  <2>5. ASSUME NEW t \in TokenIds, NEW r \in Pending(t), t # p PROVE at'[r].step = at[r].step
    BY <1>1, <2>1 DEF Pending, Typed, Idle, Trading
  <2>6. Cardinality(Pending(p)') <= Cardinality(Requests) /\ Cardinality(Pending(p)') \in Nat
    <3>1. Pending(p)' \in SUBSET Requests
      BY DEF Pending
    <3> QED BY <3>1, SessionsAssumption, FS_Subset, FS_CardinalityType
  <2>7. ASSUME NEW t \in TokenIds
        PROVE  /\ ~tokens'[t].revoked =>
                    Children(t)' = {} /\ \A r \in Pending(t)' : at'[r].step = "ROTATE"
               /\ Cardinality(Children(t)') + Cardinality(Pending(t)') <= Cardinality(Requests)
    <3>1. CASE t = p
      <4>1. Children(p) = {} /\ Cardinality({}) = 0
        BY <1>1, <2>1, FS_EmptySet DEF Traded
      <4>2. Children(p)' = {}
        BY <2>2, <4>1
      <4>3. Cardinality(Children(p)') = 0
        BY <4>1, <4>2
      <4> QED BY <2>4, <2>6, <3>1, <4>2, <4>3
    <3>2. CASE t # p
      BY <1>1, <2>1, <2>2, <2>3, <2>5, <3>2 DEF Traded
    <3> QED BY <3>1, <3>2
  <2> QED BY <1>1, <2>1, <2>7 DEF InvRotation, Traded, Issued
<1>4. ASSUME NEW q \in Requests, Issue(q) PROVE InvRotation'
  <2> DEFINE p == at[q].parent
  <2>1. PICK t \in TokenIds :
          /\ tokens[t] = NoToken /\ t \in Issued'
          /\ tokens'[t].parent = p /\ tokens'[t].revoked = FALSE
          /\ \A u \in TokenIds \ {t} : tokens'[u] = tokens[u]
    <3>1. PICK t \in TokenIds :
            /\ tokens[t] = NoToken
            /\ tokens' = [tokens EXCEPT ![t] =
                 [NoToken EXCEPT
                    !.subject = at[q].subject, !.parent = p,
                    !.era = IF p = 0 THEN at[q].began ELSE tokens[p].era,
                    !.late = \/ logouts[at[q].subject] # at[q].began
                             \/ (p # 0 /\ tokens[p].late)]]
      BY <1>1, <1>4, IssueStores
    <3>2. at[q].subject \in Subjects
      BY <1>1, <1>4, IssueStores DEF Typed, Attributed
    <3>3. at[q].subject # NoOne
      BY <3>2, SessionsAssumption DEF Subjects
    <3> QED BY <1>1, <3>1, <3>3 DEF Typed, NoToken, Issued
  <2>2. at[q].step = "ISSUE" /\ at' = [at EXCEPT ![q] = Idle]
    BY <1>1, <1>4, IssueStores
  <2>3. p = 0 \/ p \in Issued
    BY <1>1, <2>2 DEF Typed, Attributed
  <2>4. t \notin Issued /\ tokens[t].parent = 0 /\ ~tokens[t].revoked
    BY <2>1 DEF Issued, NoToken
  <2>5. ASSUME NEW u \in TokenIds, u # t PROVE u \in Issued' <=> u \in Issued
    BY <2>1, <2>5 DEF Issued
  <2>6. ASSUME NEW u \in TokenIds
        PROVE  /\ Children(u)' = IF u = p THEN Children(u) \cup {t} ELSE Children(u)
               /\ Pending(u)' = IF u = p THEN Pending(u) \ {q} ELSE Pending(u)
               /\ u = p => t \notin Children(u) /\ q \in Pending(u)
    <3>1. u # 0
      BY DEF TokenIds
    <3>2. Children(u)' = IF u = p THEN Children(u) \cup {t} ELSE Children(u)
      BY <2>1, <2>4, <2>5, <3>1 DEF Children
    <3>3. Pending(u)' = IF u = p THEN Pending(u) \ {q} ELSE Pending(u)
      BY <1>1, <2>2 DEF Pending, Typed, Idle, Trading
    <3> QED BY <2>2, <2>4, <3>2, <3>3 DEF Children, Pending, Trading
  <2>7. ASSUME NEW u \in TokenIds
        PROVE  /\ ~tokens'[u].revoked =>
                    Children(u)' = {} /\ \A r \in Pending(u)' : at'[r].step = "ROTATE"
               /\ Cardinality(Children(u)') + Cardinality(Pending(u)') <= Cardinality(Requests)
    <3>1. CASE u = p
      <4>1. Cardinality(Children(u)') = Cardinality(Children(u)) + 1
        <5>1. Children(u)' = Children(u) \cup {t} /\ t \notin Children(u)
          BY <2>6, <3>1
        <5>2. IsFiniteSet(Children(u))
          BY CountsAreFinite
        <5>3. Cardinality(Children(u) \cup {t}) = Cardinality(Children(u)) + 1
          BY <5>1, <5>2, FS_AddElement
        <5> QED BY <5>1, <5>3
      <4>2. Cardinality(Pending(u)') = Cardinality(Pending(u)) - 1
        BY <2>6, <3>1, CountsAreFinite, FS_RemoveElement
      <4>3. tokens'[u].revoked
        <5>1. q \in Pending(u) /\ at[q].step # "ROTATE"
          BY <2>2, <2>6, <3>1
        <5>2. tokens[u].revoked
          BY <1>1, <5>1 DEF Traded
        <5>3. u # t
          BY <2>4, <5>2
        <5> QED BY <2>1, <5>2, <5>3
      <4> QED BY <1>1, <4>1, <4>2, <4>3, CountsAreFinite DEF Traded
    <3>2. CASE u # p
      <4>1. Children(u)' = Children(u) /\ Pending(u)' = Pending(u)
        BY <2>6, <3>2
      <4>2. ~tokens'[u].revoked => ~tokens[u].revoked
        BY <2>1, <2>4
      <4>3. \A r \in Pending(u) : r # q
        BY <3>2 DEF Pending
      <4> QED BY <1>1, <2>2, <4>1, <4>2, <4>3 DEF Traded, Typed, Pending
    <3> QED BY <3>1, <3>2
  <2>8. \A u \in TokenIds : tokens'[u].parent \in Nat
                            /\ (u \notin Issued' => tokens'[u].parent = 0)
    BY <1>1, <2>1, <2>5 DEF Traded, Typed, Attributed
  <2> QED BY <1>1, <2>7, <2>8 DEF InvRotation, Traded
<1> QED BY <1>1, <1>2, <1>3, <1>4, MostKeepSessions

LEMMA InitRotation == Init => InvRotation
<1> SUFFICES ASSUME Init PROVE InvRotation
  OBVIOUS
<1>1. ASSUME NEW t \in TokenIds PROVE Children(t) = {} /\ Pending(t) = {}
  BY DEF Init, Children, Pending, Issued, NoToken, Trading, Idle
<1>2. \A t \in TokenIds : tokens[t].parent = 0
  BY DEF Init, NoToken
<1> QED BY <1>1, <1>2, InitTyped, FS_EmptySet, CountsAreFinite DEF InvRotation, Traded

\* A refresh token is traded at most once for each request that was there when it was
\* read: the UPDATE that revokes it ends that.
THEOREM TradesAreBounded == Spec => []RotationBounded
<1>1. InvRotation => RotationBounded
  <2> SUFFICES ASSUME InvRotation, NEW t \in TokenIds
               PROVE  Cardinality(Children(t)) <= Cardinality(Requests)
    BY DEF RotationBounded, Children
  <2> QED BY CountsAreFinite DEF InvRotation, Traded
<1> QED BY <1>1, InitRotation, StepRotation, PTL DEF Spec

-----------------------------------------------------------------------------
(* What a request may do.                                                  *)

AdministratorsOnly == {"store.manage", "menu.manage", "parameters.manage", "staff.manage"}

\* Whatever a route does not narrow to a store asks for what only administrators or
\* only customers have.
LEMMA UnscopedRoutes ==
  ASSUME NEW route \in Routes, route.scope \notin {"STORE", "ROWS"}
  PROVE  \E permission \in route.needs : permission \in AdministratorsOnly \cup CustomerPermissions
<1> USE DEF Route, AdministratorsOnly, CustomerPermissions
<1>1. CASE route \in CustomerRoutes
  BY <1>1 DEF CustomerRoutes
<1>2. CASE route \in FinanceRoutes
  BY <1>2 DEF FinanceRoutes
<1>3. CASE route \in OpsRoutes
  BY <1>3 DEF OpsRoutes
<1>4. CASE route \in AdvanceRoutes
  BY <1>4 DEF AdvanceRoutes
<1>5. CASE route \in PriceRoutes
  BY <1>5 DEF PriceRoutes
<1>6. CASE route \in AdminRoutes
  BY <1>6 DEF AdminRoutes
<1> QED BY <1>1, <1>2, <1>3, <1>4, <1>5, <1>6 DEF Routes

LEMMA OnlyAdministrators ==
  ASSUME NEW role \in StaffRoles \cup {NoRole},
         NEW permission \in AdministratorsOnly \cup CustomerPermissions, Can(role, permission)
  PROVE  role \in {"admin", "owner"}
<1> USE DEF Can, PermissionsOf, AdministratorsOnly, CustomerPermissions, NoRole
<1>1. role \in StaffRoles
  OBVIOUS
<1>2. CASE role = "kitchen"
  BY <1>2
<1>3. CASE role = "counter"
  BY <1>3
<1>4. CASE role = "finance"
  BY <1>4
<1>5. CASE role = "store_manager"
  BY <1>5
<1> QED BY <1>1, <1>2, <1>3, <1>4, <1>5 DEF StaffRoles

\* What a member of staff reaches through a route that is not narrowed to a store is
\* an administrator's, for whom no store is asked.
LEMMA StaffRoutes ==
  ASSUME NEW route \in Routes, NEW role \in StaffRoles \cup {NoRole},
         \A permission \in route.needs : Can(role, permission)
  PROVE  route.scope \in {"STORE", "ROWS"} \/ role \in {"admin", "owner"}
  BY UnscopedRoutes, OnlyAdministrators

\* What a customer reaches is a customer's own.
LEMMA CustomersRoutes ==
  ASSUME NEW route \in Routes, \A permission \in route.needs : Can("customer", permission)
  PROVE  route.scope = "OWN" /\ route.needs \subseteq CustomerPermissions
<1> USE DEF Can, PermissionsOf, NoRole, Route, CustomerPermissions
<1>1. CASE route \in CustomerRoutes
  BY <1>1 DEF CustomerRoutes
<1>2. CASE route \in FinanceRoutes \cup OpsRoutes \cup AdvanceRoutes \cup PriceRoutes
  BY <1>2 DEF FinanceRoutes, OpsRoutes, AdvanceRoutes, PriceRoutes
<1>3. CASE route \in AdminRoutes
  BY <1>3 DEF AdminRoutes
<1> QED BY <1>1, <1>2, <1>3 DEF Routes

\* A customer's tokens say so.
CustomersAreCustomers ==
  /\ \A pass \in passes : pass.subject \in Customers => pass.role = "customer"
  /\ \A q \in Requests :
       at[q].subject \in Customers /\ at[q].step \in Acting \cup {"ISSUE"} =>
         at[q].role = "customer"

\* What an acting request has seen of its subject contains what it has read, and what
\* stands now.
Witnessed(q) ==
  /\ \E a \in seen[q].accounts : a.active /\ a.role = at[q].role /\ a.group = at[q].group
  /\ assigned[at[q].subject] \subseteq seen[q].stores
  /\ at[q].stores \subseteq seen[q].stores

\* What a request that has passed its route was asked for.
Admitted(q) ==
  IF at[q].subject \in Customers
  THEN at[q].scope = "OWN" /\ at[q].needs \subseteq CustomerPermissions
  ELSE /\ \A permission \in at[q].needs : Can(at[q].role, permission)
       /\ at[q].store \in at[q].stores \/ IsUnscoped(at[q].role, at[q].group)

Granted ==
  \A q \in Requests :
    /\ at[q].step \in Acting /\ at[q].subject \in Staff =>
         Witnessed(q) /\ at[q].role \in StaffRoles \cup {NoRole}
    /\ at[q].step \in {"ACT", "ASSIGN"} => Admitted(q)

InvGrants == Typed /\ CustomersAreCustomers /\ Granted

\* What a step leaves to a request that it is not a step of.
Bystander(q) ==
  /\ at'[q] = at[q]
  /\ at[q].step \in Acting /\ at[q].subject \in Staff =>
       /\ seen[q].accounts \subseteq seen'[q].accounts
       /\ seen[q].stores \subseteq seen'[q].stores
       /\ assigned'[at[q].subject] \subseteq assigned[at[q].subject] \cup seen'[q].stores

LEMMA BystandersStay ==
  ASSUME InvGrants, NEW q \in Requests, Bystander(q)
  PROVE  /\ at'[q].step \in Acting /\ at'[q].subject \in Staff =>
              Witnessed(q)' /\ at'[q].role \in StaffRoles \cup {NoRole}
         /\ at'[q].step \in {"ACT", "ASSIGN"} => Admitted(q)'
         /\ at'[q].subject \in Customers /\ at'[q].step \in Acting \cup {"ISSUE"} =>
              at'[q].role = "customer"
  BY DEF InvGrants, Granted, CustomersAreCustomers, Bystander, Witnessed, Admitted

\* A step that is a request's own leaves the others where they are.
Alone(q) ==
  /\ \A r \in Requests \ {q} : Bystander(r)
  /\ passes' = passes

\* A request that is over or does not act.
LEMMA Inactive ==
  ASSUME InvGrants, Typed', NEW q \in Requests, Alone(q),
         at'[q].step \notin Acting \cup {"ISSUE"}
  PROVE  InvGrants'
  BY BystandersStay DEF InvGrants, Granted, CustomersAreCustomers, Alone, Acting

LEMMA StepGrants == InvGrants /\ [Next]_vars => InvGrants'
<1> SUFFICES ASSUME InvGrants, [Next]_vars PROVE InvGrants'
  OBVIOUS
<1>0. Typed /\ Typed'
  BY StepTyped DEF InvGrants
<1> USE DEF Typed, Idle
<1>1. ASSUME NEW q \in Requests, NEW s \in Subjects, Login(q, s) PROVE InvGrants'
  <2>1. Alone(q)
    BY <1>0, <1>1 DEF Login, Alone, Bystander, people, sessions
  <2>2. at'[q].step = "ISSUE" /\ (at'[q].subject \in Customers => at'[q].role = "customer")
    BY <1>0, <1>1, SessionsAssumption DEF Login
  <2> QED BY <1>0, <2>1, <2>2, BystandersStay
        DEF InvGrants, Granted, CustomersAreCustomers, Alone, Acting
<1>2. ASSUME NEW q \in Requests, Issue(q) PROVE InvGrants'
  <2>1. \A r \in Requests \ {q} : Bystander(r)
    BY <1>0, <1>2 DEF Issue, End, Bystander
  <2>2. passes' = passes \cup {[subject |-> at[q].subject, role |-> at[q].role]}
        /\ at[q].step = "ISSUE" /\ at'[q].step = "IDLE"
    BY <1>0, <1>2 DEF Issue, End, In
  <2>3. at[q].subject \in Customers => at[q].role = "customer"
    BY <2>2 DEF InvGrants, CustomersAreCustomers
  <2> QED BY <1>0, <2>1, <2>2, <2>3, BystandersStay
        DEF InvGrants, Granted, CustomersAreCustomers, Acting
<1>3. ASSUME NEW q \in Requests, NEW t \in TokenIds, ReadToken(q, t) \/ Replay(q, t)
      PROVE InvGrants'
  <2>1. Alone(q) /\ at'[q].step \notin Acting \cup {"ISSUE"}
    <3>1. UNCHANGED <<people, sessions>> /\ \A r \in Requests \ {q} : at'[r] = at[r]
      BY <1>0, <1>3 DEF ReadToken, Replay
    <3>2. at'[q].step \in {"ROTATE", "REFUSED"}
      <4>1. CASE ReadToken(q, t)
        BY <1>0, <4>1 DEF ReadToken
      <4>2. CASE Replay(q, t)
        BY <1>0, <4>2 DEF Replay
      <4> QED BY <1>3, <4>1, <4>2
    <3> QED BY <3>1, <3>2 DEF Alone, Bystander, people, sessions, Acting
  <2> QED BY <1>0, <2>1, Inactive
<1>4. ASSUME NEW q \in Requests, Rotate(q) PROVE InvGrants'
  <2>1. Alone(q) /\ at'[q].step \notin Acting \cup {"ISSUE"}
    BY <1>0, <1>4 DEF Rotate, Goto, Alone, Bystander, people, Acting
  <2> QED BY <1>0, <2>1, Inactive
<1>5. ASSUME NEW q \in Requests, Reload(q) PROVE InvGrants'
  <2>1. Alone(q)
    BY <1>0, <1>5 DEF Reload, Alone, Bystander, people, sessions
  <2>2. at'[q].step = "ISSUE" /\ (at'[q].subject \in Customers => at'[q].role = "customer")
    BY <1>0, <1>5, SessionsAssumption DEF Reload
  <2> QED BY <1>0, <2>1, <2>2, BystandersStay
        DEF InvGrants, Granted, CustomersAreCustomers, Alone, Acting
<1>6. ASSUME NEW q \in Requests, NEW pass \in passes, Authenticate(q, pass) PROVE InvGrants'
  <2>1. Alone(q)
    BY <1>0, <1>6 DEF Authenticate, Alone, Bystander, sessions
  <2>2. pass.subject \in Subjects
    BY <1>0 DEF Pass
  <2>3. /\ at'[q].step \in {"READ_STORES", "ROUTE"} /\ at'[q].subject = pass.subject
        /\ at'[q].role = RoleOf(pass) /\ at'[q].stores = {}
    BY <1>0, <1>6 DEF Authenticate
  <2>4. CASE pass.subject \in Staff
    <3>1. /\ at'[q].group = accounts[pass.subject].group /\ accounts[pass.subject].active
          /\ seen'[q].accounts = {accounts[pass.subject]}
          /\ seen'[q].stores = assigned[pass.subject] /\ assigned' = assigned
      BY <1>0, <1>6, <2>4 DEF Authenticate, Account
    <3>2. Witnessed(q)' /\ at'[q].role \in StaffRoles \cup {NoRole}
      BY <1>0, <2>3, <2>4, <3>1 DEF Witnessed, RoleOf, Account
    <3> QED BY <1>0, <2>1, <2>3, <2>4, <3>2, BystandersStay, SessionsAssumption
          DEF InvGrants, Granted, CustomersAreCustomers, Alone
  <2>5. CASE pass.subject \notin Staff
    <3>1. at'[q].role = "customer"
      BY <2>2, <2>3, <2>5 DEF RoleOf, Subjects, InvGrants, CustomersAreCustomers
    <3> QED BY <1>0, <2>1, <2>3, <2>5, <3>1, BystandersStay
          DEF InvGrants, Granted, CustomersAreCustomers, Alone
  <2> QED BY <2>4, <2>5
<1>7. ASSUME NEW q \in Requests, ReadStores(q) PROVE InvGrants'
  <2>1. Alone(q)
    BY <1>0, <1>7 DEF ReadStores, Alone, Bystander, people, sessions
  <2>2. /\ at'[q].step = "ROUTE" /\ at'[q].subject = at[q].subject /\ at'[q].role = at[q].role
        /\ at'[q].group = at[q].group /\ at'[q].stores = assigned[at[q].subject]
        /\ UNCHANGED <<assigned, seen>> /\ at[q].step = "READ_STORES"
    BY <1>0, <1>7 DEF ReadStores, people, In
  <2>3. at[q].subject \in Staff => Witnessed(q)' /\ at[q].role \in StaffRoles \cup {NoRole}
    BY <2>2 DEF Witnessed, InvGrants, Granted, Acting
  <2> QED BY <1>0, <2>1, <2>2, <2>3, BystandersStay
        DEF InvGrants, Granted, CustomersAreCustomers, Alone, Acting
<1>8. ASSUME NEW q \in Requests, Logout(q) PROVE InvGrants'
  <2>1. Alone(q) /\ at'[q].step \notin Acting \cup {"ISSUE"}
    BY <1>0, <1>8 DEF Logout, End, Alone, Bystander, Acting
  <2> QED BY <1>0, <2>1, Inactive
<1>9. ASSUME NEW q \in Requests, Act(q) \/ Drop(q) PROVE InvGrants'
  <2>1. Alone(q) /\ at'[q].step \notin Acting \cup {"ISSUE"}
    BY <1>0, <1>9 DEF Act, Drop, End, Alone, Bystander, sessions, Acting
  <2> QED BY <1>0, <2>1, Inactive
<1>10. ASSUME NEW q \in Requests, Assign(q) PROVE InvGrants'
  <2>1. Alone(q) /\ at'[q].step \notin Acting \cup {"ISSUE"}
    BY <1>0, <1>10 DEF Assign, Watch, Alone, Bystander, sessions, Acting
  <2> QED BY <1>0, <2>1, Inactive
<1>11. ASSUME NEW q \in Requests, NEW route \in RoutesAsked, NEW store \in Stores,
              Admit(q, route, store)
       PROVE InvGrants'
  <2>1. Alone(q)
    BY <1>0, <1>11 DEF Admit, Alone, Bystander, people, sessions
  <2>2. /\ at'[q].step = "ACT" /\ at'[q].subject = at[q].subject /\ at'[q].role = at[q].role
        /\ at'[q].group = at[q].group /\ at'[q].stores = at[q].stores
        /\ at'[q].needs = route.needs /\ at'[q].scope = route.scope
        /\ at'[q].store = IF route.scope = "OWN" THEN NoOne ELSE store
        /\ UNCHANGED <<assigned, seen>> /\ at[q].step = "ROUTE"
    BY <1>0, <1>11 DEF Admit, people, In
  <2>3. /\ route \in Routes /\ \A permission \in route.needs : Can(at[q].role, permission)
        /\ route.scope \in {"STORE", "ROWS"} =>
             CanAccessStore(at[q].role, at[q].group, at[q].stores, store)
    BY <1>11, SessionsAssumption DEF Admit
  <2>4. at[q].subject \in Subjects
    BY <1>0, <2>2 DEF Attributed
  <2>5. CASE at[q].subject \in Customers
    <3>1. at[q].role = "customer" /\ at[q].subject \notin Staff
      BY <2>2, <2>5, SessionsAssumption DEF InvGrants, CustomersAreCustomers, Acting
    <3>2. route.scope = "OWN" /\ route.needs \subseteq CustomerPermissions
      BY <2>3, <3>1, CustomersRoutes
    <3> QED BY <1>0, <2>1, <2>2, <2>5, <3>1, <3>2, BystandersStay
          DEF InvGrants, Granted, CustomersAreCustomers, Alone, Admitted
  <2>6. CASE at[q].subject \notin Customers
    <3>1. Witnessed(q) /\ at[q].role \in StaffRoles \cup {NoRole}
      BY <2>2, <2>4, <2>6 DEF InvGrants, Granted, Acting, Subjects
    <3>2. Witnessed(q)'
      BY <2>2, <3>1 DEF Witnessed
    <3>3. route.scope \in {"STORE", "ROWS"} \/ at[q].role \in {"admin", "owner"}
      BY <2>3, <3>1, StaffRoutes
    <3>4. Admitted(q)'
      BY <2>2, <2>3, <2>6, <3>3 DEF Admitted, CanAccessStore, IsUnscoped
    <3> QED BY <1>0, <2>1, <2>2, <2>6, <3>1, <3>2, <3>4, BystandersStay
          DEF InvGrants, Granted, CustomersAreCustomers, Alone
  <2> QED BY <2>5, <2>6
<1>12. ASSUME NEW q \in Requests, NEW u \in Staff, NEW account \in StaffInputs,
              NEW grant \in StoreInputs \cup {Keep},
              CreateStaff(q, u, account, grant) \/ UpdateStaff(q, u, account, grant)
       PROVE InvGrants'
  <2>1. PICK saved, g : ManagesStaff(q) /\ SaveStaff(q, u, saved, g)
    BY <1>12 DEF CreateStaff, UpdateStaff
  <2>2. Alone(q)
    BY <1>0, <2>1 DEF SaveStaff, Watch, Alone, Bystander, sessions
  <2>3. CASE g = Keep
    BY <1>0, <2>1, <2>2, <2>3, Inactive DEF SaveStaff, Acting
  <2>4. CASE g # Keep
    <3>1. /\ at'[q].step = "ASSIGN" /\ at'[q].subject = at[q].subject
          /\ at'[q].role = at[q].role /\ at'[q].group = at[q].group
          /\ at'[q].stores = at[q].stores /\ at'[q].needs = at[q].needs
          /\ at'[q].scope = at[q].scope /\ at'[q].store = at[q].store
          /\ assigned' = assigned /\ at[q].step = "ACT"
          /\ seen[q].accounts \subseteq seen'[q].accounts
          /\ seen[q].stores \subseteq seen'[q].stores
      BY <1>0, <2>1, <2>4 DEF SaveStaff, Watch, ManagesStaff, In
    <3>2. Admitted(q)'
      BY <3>1 DEF Admitted, InvGrants, Granted
    <3>3. at[q].subject \in Staff => Witnessed(q)' /\ at[q].role \in StaffRoles \cup {NoRole}
      BY <3>1 DEF Witnessed, InvGrants, Granted, Acting
    <3> QED BY <1>0, <2>2, <3>1, <3>2, <3>3, BystandersStay
          DEF InvGrants, Granted, CustomersAreCustomers, Alone, Acting
  <2> QED BY <2>3, <2>4
<1>13. ASSUME NEW q \in Requests, NEW u \in Staff, DeactivateStaff(q, u) PROVE InvGrants'
  <2>1. Alone(q) /\ at'[q].step \notin Acting \cup {"ISSUE"}
    BY <1>0, <1>13 DEF DeactivateStaff, Watch, Alone, Bystander, sessions, Acting
  <2> QED BY <1>0, <2>1, Inactive
<1>14. CASE Expire \/ UNCHANGED vars
  <2>1. UNCHANGED <<people, passes, at>>
    BY <1>14 DEF Expire, vars, sessions
  <2> QED BY <1>0, <2>1 DEF people, InvGrants, Granted, CustomersAreCustomers, Witnessed, Admitted
<1> QED
  BY <1>1, <1>2, <1>3, <1>4, <1>5, <1>6, <1>7, <1>8, <1>9, <1>10, <1>11, <1>12, <1>13, <1>14
     DEF Next

LEMMA InitGrants == Init => InvGrants
  BY InitTyped DEF Init, InvGrants, CustomersAreCustomers, Granted, Idle, Acting

\* A request of a member of staff does only what its account was permitted, where it was
\* assigned or unscoped, at some moment since it was authenticated; a customer's does only
\* what is a customer's own.
THEOREM GrantsAreKept == Spec => []ActsWithinGrants
<1>1. InvGrants => ActsWithinGrants
  <2> SUFFICES ASSUME InvGrants, NEW q \in Requests, at[q].step \in {"ACT", "ASSIGN"},
                      at[q].subject \notin Customers
               PROVE  /\ \E a \in seen[q].accounts :
                           a.active /\ at[q].needs \subseteq PermissionsOf(a.role)
                      /\ \/ at[q].store \in seen[q].stores
                         \/ \E a \in seen[q].accounts : IsUnscoped(a.role, a.group)
    BY DEF ActsWithinGrants, InvGrants, Granted, Admitted
  <2>1. at[q].subject \in Staff
    BY DEF InvGrants, Typed, Attributed, Subjects
  <2>2. Witnessed(q) /\ Admitted(q)
    BY <2>1 DEF InvGrants, Granted, Acting
  <2>3. PICK a \in seen[q].accounts : a.active /\ a.role = at[q].role /\ a.group = at[q].group
    BY <2>2 DEF Witnessed
  <2>4. at[q].needs \subseteq PermissionsOf(a.role)
    BY <2>2, <2>3 DEF Admitted, Can
  <2>5. at[q].store \in seen[q].stores \/ IsUnscoped(a.role, a.group)
    BY <2>2, <2>3 DEF Admitted, Witnessed
  <2> QED BY <2>3, <2>4, <2>5
<1> QED BY <1>1, InitGrants, StepGrants, PTL DEF Spec
=============================================================================
