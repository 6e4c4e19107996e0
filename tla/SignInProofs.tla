---------------------------- MODULE SignInProofs ----------------------------
(***************************************************************************)
(* What SignIn promises, for any number of requests, customers, addresses, *)
(* phones, provider accounts, codes and links.                             *)
(***************************************************************************)
EXTENDS SignIn, FiniteSetTheorems, TLAPS

Fields == {"step", "customer", "email", "phone", "id", "profile", "row"}

\* The steps at which a request holds a customer who exists.
Holding == {"SEND_LINK", "CONSUME_LINK", "MARK_EMAIL", "RECORD_LOGIN", "CLEAR_LOGIN",
            "MARK_PHONE", "MARK_PROFILE", "LINK_CREATED", "LINK_FOUND", "SAVE_PROFILE"}

\* The row of a code that was sent once: it is there, or it was swept and had expired.
Sent(o) == o \in CodeIds /\ (codes[o].phone # NoPhone \/ codes[o].expired)

Shaped ==
  /\ customers \in [Customers -> CustomerRow]
  /\ codes \in [CodeIds -> CodeRow]
  /\ DOMAIN links = LinkIds /\ \A l \in LinkIds :
       DOMAIN links[l] = {"customer", "sent", "consumed", "expired"}
  /\ DOMAIN profileOf = Profiles /\ DOMAIN linkedBy = Profiles
  /\ DOMAIN at = Requests /\ \A q \in Requests : DOMAIN at[q] = Fields
  /\ guesses \in [CodeIds -> Nat] /\ uses \in [CodeIds -> Nat]
  /\ tries \in [Customers -> Nat] /\ lost \in Nat

\* What a request refers to is there ...
Refers(q) ==
  /\ at[q].step \in Holding => at[q].customer \in Accounts
  /\ at[q].step = "CONSUME_CODE" => at[q].customer = NoOne \/ at[q].customer \in Accounts
  /\ at[q].step \in {"CONSUME_CODE", "RECORD_CODE"} => Sent(at[q].id)
  /\ at[q].step \in {"CONSUME_CODE", "FIND_PHONE", "CREATE_PHONE", "MARK_PHONE"} =>
       at[q].phone \in Phones
  /\ at[q].step = "REGISTER" => at[q].email \in Emails
  /\ at[q].step \in {"FIND_EMAIL", "CREATE_PROFILE", "MARK_PROFILE", "LINK_CREATED",
                     "LINK_FOUND"} => at[q].profile \in Profiles
  /\ at[q].step = "SAVE_PROFILE" => at[q].row \in CustomerRow /\ at[q].row.there

\* ... and so is what a link does; rows of customers are never deleted.
Referring ==
  /\ \A c \in Customers : ~customers[c].there => customers[c] = NoCustomer
  /\ \A l \in LinkIds : links[l].sent => links[l].customer \in Accounts
  /\ \A q \in Requests : Refers(q)

Typed == Shaped /\ Referring

LEMMA InitTyped == Init => Typed
  BY SignInAssumption DEF Init, Typed, Shaped, Referring, Refers, NoCustomer, CustomerRow, NoCode,
     CodeRow, NoLink, Idle, Holding, Fields

\* Of a step that is one request's: the others stay where they are, and who and what
\* was there still is.
Keeps(q) ==
  /\ \A r \in Requests \ {q} : at'[r] = at[r]
  /\ \A c \in Customers : customers[c].there => customers'[c].there
  /\ \A o \in CodeIds : Sent(o) => Sent(o)'

LEMMA OthersRefer ==
  ASSUME Typed, NEW q \in Requests, Keeps(q), NEW r \in Requests \ {q}
  PROVE  Refers(r)'
<1>1. at'[r] = at[r] /\ Refers(r)
  BY DEF Typed, Referring, Keeps
<1>2. ASSUME NEW c, c \in Accounts PROVE c \in Accounts'
  BY <1>2 DEF Keeps, Accounts
<1>3. ASSUME NEW o, Sent(o) PROVE Sent(o)'
  BY <1>3 DEF Keeps, Sent
<1>4. (at[r].step \in Holding => at[r].customer \in Accounts)'
  BY <1>1, <1>2 DEF Refers
<1> QED BY <1>1, <1>2, <1>3, <1>4 DEF Refers

\* What a request does.
Handles(q) ==
  Registration(q) \/ Login(q) \/ VerifyOTP(q) \/ OAuthCallback(q) \/ UpdateProfile(q) \/ Drop(q)

\* The customers' rows stay rows.
CustomersStay ==
  /\ customers' \in [Customers -> CustomerRow]
  /\ \A c \in Customers :
       /\ customers[c].there => customers'[c].there
       /\ ~customers'[c].there => customers'[c] = NoCustomer

\* A row that is changed otherwise than by Insert is there.
LEMMA RowIsThere ==
  ASSUME Typed, NEW c \in Customers, NEW row \in CustomerRow, row.there,
         customers' = [customers EXCEPT ![c] = row]
  PROVE  CustomersStay
  BY DEF Typed, Shaped, Referring, CustomersStay

LEMMA NewRows ==
  ASSUME NEW e \in Emails \cup {NoEmail}, NEW p \in Phones \cup {NoPhone}, NEW b \in BOOLEAN
  PROVE  NewCustomer(e, p, b) \in CustomerRow /\ NewCustomer(e, p, b).there
  BY DEF NewCustomer, NoCustomer, CustomerRow

LEMMA RowsStay ==
  ASSUME NEW row \in CustomerRow, row.there
  PROVE  /\ [row EXCEPT !.emailVerified = TRUE] \in CustomerRow
         /\ [row EXCEPT !.emailVerified = TRUE].there
         /\ [row EXCEPT !.failed = 0, !.locked = FALSE] \in CustomerRow
         /\ [row EXCEPT !.failed = 0, !.locked = FALSE].there
         /\ \A p \in Phones :
              /\ [row EXCEPT !.phone = p, !.phoneVerified = TRUE] \in CustomerRow
              /\ [row EXCEPT !.phone = p, !.phoneVerified = TRUE].there
  BY DEF CustomerRow

LEMMA StepCustomers ==
  ASSUME Typed, [Next]_vars
  PROVE  CustomersStay
<1>0. customers' = customers => CustomersStay
  BY DEF Typed, Shaped, Referring, CustomersStay
<1>1. ASSUME NEW q \in Requests, Registration(q) PROVE CustomersStay
  <2>1. CASE Register(q)
    <3>1. NewCustomer(at[q].email, NoPhone, TRUE) \in CustomerRow
          /\ NewCustomer(at[q].email, NoPhone, TRUE).there
      BY <2>1, NewRows DEF Register, In, Typed, Referring, Refers
    <3> QED BY <2>1, <1>0, <3>1, RowIsThere DEF Register, Insert
  <2>2. CASE MarkEmail(q)
    <3> DEFINE c == at[q].customer
               row == [customers[c] EXCEPT !.emailVerified = TRUE]
    <3>1. c \in Accounts
      BY <2>2 DEF MarkEmail, In, Typed, Referring, Refers, Holding
    <3>2. customers' = [customers EXCEPT ![c] = row]
      BY <2>2 DEF MarkEmail
    <3>3. row \in CustomerRow /\ row.there
      <4>1. customers[c] \in CustomerRow /\ customers[c].there
        BY <3>1 DEF Accounts, Typed, Shaped
      <4> QED BY <3>1, <4>1, RowsStay
    <3> QED BY <3>1, <3>2, <3>3, RowIsThere DEF Accounts
  <2> QED BY <1>0, <1>1, <2>1, <2>2 DEF Registration, StartRegister, SendLink, OpenLink,
            ConsumeLink, accounts
<1>2. ASSUME NEW q \in Requests, Login(q) PROVE CustomersStay
  <2>1. CASE RecordLogin(q)
    <3> DEFINE c == at[q].customer
               f == IF customers[c].failed < LockAfter THEN customers[c].failed + 1
                    ELSE LockAfter
               row == [customers[c] EXCEPT !.failed = f, !.locked = @ \/ f = LockAfter]
    <3>1. c \in Accounts
      BY <2>1 DEF RecordLogin, In, Typed, Referring, Refers, Holding
    <3>2. customers' = [customers EXCEPT ![c] = row]
      BY <2>1 DEF RecordLogin
    <3>4. f \in Nat /\ customers[c] \in CustomerRow /\ customers[c].there
      BY <3>1, SignInAssumption DEF Accounts, Typed, Shaped, CustomerRow
    <3>5. (customers[c].locked \/ f = LockAfter) \in BOOLEAN
      OBVIOUS
    <3> HIDE DEF f
    <3>3. row \in CustomerRow /\ row.there
      BY <3>4, <3>5 DEF CustomerRow
    <3> QED BY <3>1, <3>2, <3>3, RowIsThere DEF Accounts
  <2>2. CASE ClearLogin(q)
    <3> DEFINE c == at[q].customer
               row == [customers[c] EXCEPT !.failed = 0, !.locked = FALSE]
    <3>1. c \in Accounts
      BY <2>2 DEF ClearLogin, In, Typed, Referring, Refers, Holding
    <3>2. customers' = [customers EXCEPT ![c] = row]
      BY <2>2 DEF ClearLogin
    <3>3. row \in CustomerRow /\ row.there
      <4>1. customers[c] \in CustomerRow /\ customers[c].there
        BY <3>1 DEF Accounts, Typed, Shaped
      <4> QED BY <3>1, <4>1, RowsStay
    <3> QED BY <3>1, <3>2, <3>3, RowIsThere DEF Accounts
  <2> QED BY <1>0, <1>2, <2>1, <2>2 DEF Login, FailLogin, PassLogin, accounts
<1>3. ASSUME NEW q \in Requests, VerifyOTP(q) PROVE CustomersStay
  <2>1. CASE CreatePhone(q)
    <3>1. NewCustomer(NoEmail, at[q].phone, FALSE) \in CustomerRow
          /\ NewCustomer(NoEmail, at[q].phone, FALSE).there
      BY <2>1, NewRows DEF CreatePhone, In, Typed, Referring, Refers
    <3> QED BY <2>1, <1>0, <3>1, RowIsThere DEF CreatePhone, Insert
  <2>2. CASE MarkPhone(q)
    <3> DEFINE c == at[q].customer
               row == [customers[c] EXCEPT !.phone = at[q].phone, !.phoneVerified = TRUE]
    <3>1. c \in Accounts /\ at[q].phone \in Phones
      BY <2>2 DEF MarkPhone, In, Typed, Referring, Refers, Holding
    <3>2. customers' = [customers EXCEPT ![c] = row] \/ customers' = customers
      BY <2>2 DEF MarkPhone
    <3>3. row \in CustomerRow /\ row.there
      <4>1. customers[c] \in CustomerRow /\ customers[c].there
        BY <3>1 DEF Accounts, Typed, Shaped
      <4> QED BY <3>1, <4>1, RowsStay
    <3> QED BY <1>0, <3>1, <3>2, <3>3, RowIsThere DEF Accounts
  <2> QED BY <1>0, <1>3, <2>1, <2>2 DEF VerifyOTP, FailCode, PassCode, RecordCode, ConsumeCode,
            FindPhone, accounts
<1>4. ASSUME NEW q \in Requests, OAuthCallback(q) PROVE CustomersStay
  <2>1. CASE CreateProfile(q)
    <3>1. EmailOf[at[q].profile] \in Emails \cup {NoEmail}
      BY <2>1, SignInAssumption DEF CreateProfile, In, Typed, Referring, Refers
    <3>2. NewCustomer(EmailOf[at[q].profile], NoPhone, FALSE) \in CustomerRow
          /\ NewCustomer(EmailOf[at[q].profile], NoPhone, FALSE).there
      BY <3>1, NewRows
    <3> QED BY <2>1, <1>0, <3>2, RowIsThere DEF CreateProfile, Insert
  <2>2. CASE MarkProfile(q)
    <3> DEFINE c == at[q].customer
               row == [customers[c] EXCEPT !.emailVerified = TRUE]
    <3>1. c \in Accounts
      BY <2>2 DEF MarkProfile, In, Typed, Referring, Refers, Holding
    <3>2. customers' = [customers EXCEPT ![c] = row]
      BY <2>2 DEF MarkProfile
    <3>3. row \in CustomerRow /\ row.there
      <4>1. customers[c] \in CustomerRow /\ customers[c].there
        BY <3>1 DEF Accounts, Typed, Shaped
      <4> QED BY <3>1, <4>1, RowsStay
    <3> QED BY <3>1, <3>2, <3>3, RowIsThere DEF Accounts
  <2> QED BY <1>0, <1>4, <2>1, <2>2 DEF OAuthCallback, StartProfile, FindEmail, LinkProfile,
            accounts
<1>5. ASSUME NEW q \in Requests, UpdateProfile(q) PROVE CustomersStay
  <2>1. CASE SaveProfile(q)
    <3>1. at[q].customer \in Accounts /\ at[q].row \in CustomerRow /\ at[q].row.there
      BY <2>1 DEF SaveProfile, In, Typed, Referring, Refers, Holding
    <3>2. customers' = [customers EXCEPT ![at[q].customer] = at[q].row] \/ customers' = customers
      BY <2>1 DEF SaveProfile
    <3> QED BY <1>0, <3>1, <3>2, RowIsThere DEF Accounts
  <2> QED BY <1>0, <1>5, <2>1 DEF UpdateProfile, ReadProfile, accounts
<1>6. ASSUME NEW c \in Customers, Unlock(c) PROVE CustomersStay
  <2>1. customers[c].there
    BY <1>6 DEF Unlock, Typed, Referring, NoCustomer
  <2>2. [customers[c] EXCEPT !.locked = FALSE] \in CustomerRow
        /\ [customers[c] EXCEPT !.locked = FALSE].there
    BY <2>1 DEF Typed, Shaped, CustomerRow
  <2> QED BY <1>6, <2>2, RowIsThere DEF Unlock
<1>7. ASSUME NEW q \in Requests, Drop(q) PROVE CustomersStay
  BY <1>0, <1>7 DEF Drop, accounts
<1>8. CASE Expire \/ Sweep \/ \E p \in Phones : RequestOTP(p)
  BY <1>0, <1>8 DEF Expire, Sweep, RequestOTP, accounts
<1>9. CASE UNCHANGED vars
  BY <1>0, <1>9 DEF vars, accounts
<1> QED BY <1>1, <1>2, <1>3, <1>4, <1>5, <1>6, <1>7, <1>8, <1>9 DEF Next

\* The codes' rows stay rows, and stay sent.
CodesStay ==
  /\ codes' \in [CodeIds -> CodeRow]
  /\ \A o \in CodeIds : Sent(o) => Sent(o)'
  /\ \A o \in CodeIds : codes[o].expired => codes'[o].expired

LEMMA OneCode ==
  ASSUME Typed, NEW o \in CodeIds, NEW row \in CodeRow, codes' = [codes EXCEPT ![o] = row],
         Sent(o) => row.phone # NoPhone \/ row.expired, codes[o].expired => row.expired
  PROVE  CodesStay
  BY DEF Typed, Shaped, CodesStay, Sent

LEMMA StepCodes ==
  ASSUME Typed, [Next]_vars
  PROVE  CodesStay
<1>0. codes' = codes => CodesStay
  BY DEF Typed, Shaped, CodesStay, Sent
<1>1. ASSUME NEW q \in Requests, Handles(q) PROVE CodesStay
  <2>1. CASE RecordCode(q)
    <3> DEFINE o == at[q].id
               row == [codes[o] EXCEPT !.attempts = @ + 1]
    <3>1. Sent(o)
      BY <2>1 DEF RecordCode, In, Typed, Referring, Refers
    <3>2. row \in CodeRow /\ row.phone = codes[o].phone /\ row.expired = codes[o].expired
      BY <3>1 DEF Sent, Typed, Shaped, CodeRow
    <3>3. codes' = codes \/ codes' = [codes EXCEPT ![o] = row]
      BY <2>1 DEF RecordCode
    <3> QED BY <1>0, <3>1, <3>2, <3>3, OneCode DEF Sent
  <2>2. CASE ConsumeCode(q)
    <3> DEFINE o == at[q].id
               row == [codes[o] EXCEPT !.consumed = TRUE]
    <3>1. Sent(o)
      BY <2>2 DEF ConsumeCode, In, Typed, Referring, Refers
    <3>2. row \in CodeRow /\ row.phone = codes[o].phone /\ row.expired = codes[o].expired
      BY <3>1 DEF Sent, Typed, Shaped, CodeRow
    <3>3. codes' = codes \/ codes' = [codes EXCEPT ![o] = row]
      BY <2>2 DEF ConsumeCode
    <3> QED BY <1>0, <3>1, <3>2, <3>3, OneCode DEF Sent
  <2>3. CASE Registration(q)
    BY <1>0, <2>3 DEF Registration, StartRegister, Register, SendLink, OpenLink, ConsumeLink,
       MarkEmail, tokens
  <2>4. CASE Login(q) \/ UpdateProfile(q) \/ Drop(q)
    BY <1>0, <2>4 DEF Login, FailLogin, PassLogin, RecordLogin, ClearLogin, UpdateProfile,
       ReadProfile, SaveProfile, Drop, tokens
  <2>5. CASE OAuthCallback(q)
    BY <1>0, <2>5 DEF OAuthCallback, StartProfile, FindEmail, CreateProfile, MarkProfile,
       LinkProfile, tokens
  <2>6. CASE VerifyOTP(q)
    BY <1>0, <2>1, <2>2, <2>6 DEF VerifyOTP, FailCode, PassCode, FindPhone, CreatePhone,
       MarkPhone, tokens
  <2> QED BY <1>1, <2>3, <2>4, <2>5, <2>6 DEF Handles
<1>2. CASE \E p \in Phones : RequestOTP(p)
  <2>1. PICK p \in Phones, o \in CodeIds, sent \in BOOLEAN :
          /\ codes[o] = NoCode
          /\ codes' = [codes EXCEPT ![o] = [NoCode EXCEPT !.phone = p, !.sent = sent]]
    BY <1>2 DEF RequestOTP
  <2>2. [NoCode EXCEPT !.phone = p, !.sent = sent] \in CodeRow
    BY DEF NoCode, CodeRow
  <2>3. [NoCode EXCEPT !.phone = p, !.sent = sent].phone = p /\ p # NoPhone
    BY SignInAssumption DEF NoCode
  <2>4. ~codes[o].expired
    BY <2>1 DEF NoCode
  <2> QED BY <2>1, <2>2, <2>3, <2>4, OneCode
<1>3. CASE Expire
  <2>1. codes' = codes \/ \E o \in CodeIds : codes' = [codes EXCEPT ![o].expired = TRUE]
    BY <1>3 DEF Expire
  <2>2. ASSUME NEW o \in CodeIds
        PROVE  /\ [codes[o] EXCEPT !.expired = TRUE] \in CodeRow
               /\ [codes[o] EXCEPT !.expired = TRUE].expired
    BY DEF Typed, Shaped, CodeRow
  <2>3. ASSUME NEW o \in CodeIds, codes' = [codes EXCEPT ![o].expired = TRUE] PROVE CodesStay
    BY <2>2, <2>3, OneCode
  <2> QED BY <1>0, <2>1, <2>3
<1>4. CASE Sweep
  <2>1. ASSUME NEW o \in CodeIds
        PROVE  /\ codes'[o] \in CodeRow
               /\ codes[o].expired => codes'[o].expired
               /\ ~codes[o].expired => codes'[o] = codes[o]
    BY <1>4 DEF Sweep, NoCode, Typed, Shaped, CodeRow
  <2>2. codes' \in [CodeIds -> CodeRow]
    BY <1>4, <2>1 DEF Sweep
  <2> QED BY <2>1, <2>2 DEF CodesStay, Sent
<1>5. ASSUME NEW c \in Customers, Unlock(c) PROVE CodesStay
  BY <1>0, <1>5 DEF Unlock, tokens
<1>6. CASE UNCHANGED vars
  BY <1>0, <1>6 DEF vars, tokens
<1> QED BY <1>1, <1>2, <1>3, <1>4, <1>5, <1>6 DEF Next, Handles

LEMMA StepKeeps ==
  ASSUME Typed, [Next]_vars, NEW q \in Requests, Handles(q)
  PROVE  Keeps(q) /\ DOMAIN at' = Requests
<1>1. DOMAIN at' = Requests /\ \A r \in Requests \ {q} : at'[r] = at[r]
  <2>1. CASE Registration(q)
    BY <2>1 DEF Registration, StartRegister, Register, SendLink, OpenLink, ConsumeLink,
       MarkEmail, Goto, End, Typed, Shaped
  <2>2. CASE Login(q)
    BY <2>2 DEF Login, FailLogin, PassLogin, RecordLogin, ClearLogin, End, Typed, Shaped
  <2>3. CASE VerifyOTP(q)
    BY <2>3 DEF VerifyOTP, FailCode, PassCode, RecordCode, ConsumeCode, FindPhone,
       CreatePhone, MarkPhone, Goto, End, Typed, Shaped
  <2>4. CASE OAuthCallback(q)
    BY <2>4 DEF OAuthCallback, StartProfile, FindEmail, CreateProfile, MarkProfile,
       LinkProfile, Goto, End, Typed, Shaped
  <2>5. CASE UpdateProfile(q) \/ Drop(q)
    BY <2>5 DEF UpdateProfile, ReadProfile, SaveProfile, Drop, End, Typed, Shaped
  <2> QED BY <2>1, <2>2, <2>3, <2>4, <2>5 DEF Handles
<1> QED BY <1>1, StepCustomers, StepCodes DEF Keeps, CustomersStay, CodesStay

LEMMA StepLinks ==
  ASSUME Typed, [Next]_vars
  PROVE  /\ DOMAIN links' = LinkIds
         /\ \A l \in LinkIds : /\ DOMAIN links'[l] = {"customer", "sent", "consumed", "expired"}
                               /\ links'[l].sent => links'[l].customer \in Accounts'
<1>9. Accounts \subseteq Accounts'
  BY StepCustomers DEF Accounts, CustomersStay
<1>0. ASSUME NEW l \in LinkIds, links[l].sent PROVE links[l].customer \in Accounts'
  BY <1>0, <1>9 DEF Typed, Referring
<1> DEFINE Fine == /\ DOMAIN links' = LinkIds
                   /\ \A l \in LinkIds :
                        /\ DOMAIN links'[l] = {"customer", "sent", "consumed", "expired"}
                        /\ links'[l].sent => links'[l].customer \in Accounts'
<1>1. links' = links => Fine
  BY <1>0 DEF Typed, Shaped
<1>2. ASSUME NEW q \in Requests, SendLink(q) PROVE Fine
  <2>1. at[q].customer \in Accounts'
    BY <1>2, <1>9 DEF SendLink, In, Typed, Referring, Refers, Holding
  <2>2. PICK l \in LinkIds, sent \in BOOLEAN :
          links' = [links EXCEPT ![l] = [NoLink EXCEPT !.customer = at[q].customer, !.sent = sent]]
    BY <1>2 DEF SendLink
  <2> QED BY <1>0, <2>1, <2>2 DEF Typed, Shaped, NoLink
<1>3. ASSUME NEW q \in Requests, ConsumeLink(q) PROVE Fine
  <2>1. links' = links \/ links' = [links EXCEPT ![at[q].id].consumed = TRUE]
    BY <1>3 DEF ConsumeLink
  <2> QED BY <1>0, <1>1, <2>1 DEF Typed, Shaped
<1>4. CASE Expire
  <2>1. links' = links \/ \E l \in LinkIds : links' = [links EXCEPT ![l].expired = TRUE]
    BY <1>4 DEF Expire
  <2> QED BY <1>0, <1>1, <2>1 DEF Typed, Shaped
<1>5. CASE Sweep
  BY <1>0, <1>5 DEF Sweep, NoLink, Typed, Shaped
<1>6. ASSUME NEW q \in Requests, Handles(q), ~SendLink(q), ~ConsumeLink(q) PROVE links' = links
  <2>1. CASE Registration(q)
    BY <1>6, <2>1 DEF Registration, StartRegister, Register, OpenLink, MarkEmail, tokens
  <2>2. CASE Login(q) \/ UpdateProfile(q) \/ Drop(q)
    BY <2>2 DEF Login, FailLogin, PassLogin, RecordLogin, ClearLogin, UpdateProfile,
       ReadProfile, SaveProfile, Drop, tokens
  <2>3. CASE OAuthCallback(q)
    BY <2>3 DEF OAuthCallback, StartProfile, FindEmail, CreateProfile, MarkProfile,
       LinkProfile, tokens
  <2>4. CASE VerifyOTP(q)
    BY <2>4 DEF VerifyOTP, FailCode, PassCode, RecordCode, ConsumeCode, FindPhone, CreatePhone,
       MarkPhone, tokens
  <2> QED BY <1>6, <2>1, <2>2, <2>3, <2>4 DEF Handles
<1>7. ~(\E q \in Requests : Handles(q)) /\ ~Expire /\ ~Sweep => links' = links
  BY DEF Next, Handles, RequestOTP, Unlock, vars, tokens
<1>8. Fine
  BY <1>1, <1>2, <1>3, <1>4, <1>5, <1>6, <1>7
<1> QED BY <1>8

LEMMA StepCounts ==
  ASSUME Typed, [Next]_vars
  PROVE  /\ guesses' \in [CodeIds -> Nat] /\ uses' \in [CodeIds -> Nat]
         /\ tries' \in [Customers -> Nat] /\ lost' \in Nat
         /\ DOMAIN profileOf' = Profiles /\ DOMAIN linkedBy' = Profiles
<1> USE DEF Typed, Shaped
<1>1. ASSUME NEW q \in Requests, Registration(q) PROVE UNCHANGED <<counts, profileOf, linkedBy>>
  BY <1>1 DEF Registration, StartRegister, Register, SendLink, OpenLink, ConsumeLink,
     MarkEmail, accounts
<1>2. ASSUME NEW q \in Requests, Login(q)
      PROVE  /\ tries' \in [Customers -> Nat]
             /\ UNCHANGED <<guesses, uses, lost, profileOf, linkedBy>>
  <2>1. \/ tries' = tries
        \/ \E c \in Customers : tries' = [tries EXCEPT ![c] = @ + 1]
        \/ tries' = [tries EXCEPT ![at[q].customer] = 0]
    BY <1>2 DEF Login, FailLogin, PassLogin, RecordLogin, ClearLogin, counts
  <2>2. UNCHANGED <<guesses, uses, lost, profileOf, linkedBy>>
    BY <1>2 DEF Login, FailLogin, PassLogin, RecordLogin, ClearLogin, accounts, counts
  <2> QED BY <2>1, <2>2
<1>3. ASSUME NEW q \in Requests, VerifyOTP(q)
      PROVE  /\ guesses' \in [CodeIds -> Nat] /\ uses' \in [CodeIds -> Nat]
             /\ UNCHANGED <<tries, lost, profileOf, linkedBy>>
  <2>1. \/ UNCHANGED <<guesses, uses>>
        \/ uses' = uses /\ \E o \in CodeIds : guesses' = [guesses EXCEPT ![o] = @ + 1]
        \/ guesses' = guesses /\ uses' = [uses EXCEPT ![at[q].id] = @ + 1]
    <3>1. ASSUME NEW p \in Phones, FailCode(q, p)
          PROVE  uses' = uses /\ (\/ guesses' = guesses
                                  \/ \E o \in CodeIds : guesses' = [guesses EXCEPT ![o] = @ + 1])
      BY <3>1 DEF FailCode, Latest, Live
    <3>2. ConsumeCode(q) => guesses' = guesses /\ uses' = [uses EXCEPT ![at[q].id] = @ + 1]
      BY DEF ConsumeCode
    <3> QED BY <1>3, <3>1, <3>2 DEF VerifyOTP, PassCode, RecordCode, FindPhone, CreatePhone,
              MarkPhone, counts
  <2>2. UNCHANGED <<tries, lost, profileOf, linkedBy>>
    BY <1>3 DEF VerifyOTP, FailCode, PassCode, RecordCode, ConsumeCode, FindPhone, CreatePhone,
       MarkPhone, accounts, counts
  <2> QED BY <2>1, <2>2
<1>4. ASSUME NEW q \in Requests, OAuthCallback(q)
      PROVE  /\ DOMAIN profileOf' = Profiles /\ DOMAIN linkedBy' = Profiles
             /\ UNCHANGED counts
  BY <1>4 DEF OAuthCallback, StartProfile, FindEmail, CreateProfile, MarkProfile, LinkProfile,
     LinkIdentity, accounts
<1>5. ASSUME NEW q \in Requests, UpdateProfile(q) \/ Drop(q)
      PROVE  /\ tries' \in [Customers -> Nat] /\ lost' \in Nat
             /\ UNCHANGED <<guesses, uses, profileOf, linkedBy>>
  <2>1. CASE UpdateProfile(q)
    <3>1. tries' = tries \/ tries' = [tries EXCEPT ![at[q].customer] = 0]
      BY <2>1 DEF UpdateProfile, ReadProfile, SaveProfile, counts
    <3>2. UNCHANGED <<guesses, uses, lost, profileOf, linkedBy>>
      BY <2>1 DEF UpdateProfile, ReadProfile, SaveProfile, accounts, counts
    <3> QED BY <3>1, <3>2
  <2>2. CASE Drop(q)
    BY <2>2 DEF Drop, accounts
  <2> QED BY <1>5, <2>1, <2>2
<1>6. CASE Expire \/ Sweep \/ (\E p \in Phones : RequestOTP(p)) \/ UNCHANGED vars
  BY <1>6 DEF Expire, Sweep, RequestOTP, vars, accounts, counts
<1>7. ASSUME NEW c \in Customers, Unlock(c)
      PROVE  tries' \in [Customers -> Nat] /\ UNCHANGED <<guesses, uses, lost, profileOf, linkedBy>>
  BY <1>7 DEF Unlock
<1> QED BY <1>1, <1>2, <1>3, <1>4, <1>5, <1>6, <1>7 DEF Next, counts

LEMMA StepRefers ==
  ASSUME Typed, [Next]_vars, NEW q \in Requests, Handles(q)
  PROVE  Refers(q)' /\ DOMAIN at'[q] = Fields
<1> USE DEF Typed, Shaped, Referring, In, Goto, Fields, Holding
<1>0. Accounts \subseteq Accounts' /\ Refers(q)
  BY StepCustomers DEF Accounts, CustomersStay
<1>1. at'[q] = Idle => Refers(q)' /\ DOMAIN at'[q] = Fields
  BY DEF Refers, Idle
<1>2. ASSUME NEW s, at'[q] = [at[q] EXCEPT !.step = s],
             \/ /\ s = "MARK_EMAIL" /\ at[q].step = "CONSUME_LINK"
             \/ /\ s = "MARK_PHONE" /\ at[q].step = "CONSUME_CODE" /\ at[q].customer # NoOne
             \/ /\ s = "FIND_PHONE" /\ at[q].step = "CONSUME_CODE"
             \/ /\ s = "CREATE_PHONE" /\ at[q].step = "FIND_PHONE"
             \/ /\ s = "CREATE_PROFILE" /\ at[q].step = "FIND_EMAIL"
             \/ /\ s = "LINK_CREATED" /\ at[q].step = "MARK_PROFILE"
      PROVE  Refers(q)' /\ DOMAIN at'[q] = Fields
  BY <1>0, <1>2 DEF Refers
<1>3. ASSUME NEW s, NEW c \in Accounts',
             at'[q] = [at[q] EXCEPT !.step = s, !.customer = c],
             \/ /\ s = "SEND_LINK"
             \/ /\ s = "MARK_PHONE" /\ at[q].step \in {"FIND_PHONE", "CREATE_PHONE"}
             \/ /\ s = "LINK_FOUND" /\ at[q].step = "FIND_EMAIL"
             \/ /\ s \in {"MARK_PROFILE", "LINK_CREATED"} /\ at[q].step = "CREATE_PROFILE"
      PROVE  Refers(q)' /\ DOMAIN at'[q] = Fields
  BY <1>0, <1>3 DEF Refers
<1>4. ASSUME NEW c \in Customers, NEW row, row.there, Insert(c, row) PROVE c \in Accounts'
  BY <1>4 DEF Insert, Accounts
<1>5. CASE Registration(q)
  <2>1. ASSUME NEW e \in Emails, StartRegister(q, e) PROVE Refers(q)' /\ DOMAIN at'[q] = Fields
    BY <2>1 DEF StartRegister, Refers, Idle
  <2>2. CASE Register(q)
    <3>1. NewCustomer(at[q].email, NoPhone, TRUE).there
      BY DEF NewCustomer, NoCustomer
    <3> QED BY <1>1, <1>3, <1>4, <2>2, <3>1, ZenonT(60) DEF Register, End
  <2>3. CASE SendLink(q) \/ MarkEmail(q)
    BY <1>1, <2>3 DEF SendLink, MarkEmail, End
  <2>4. ASSUME NEW l \in LinkIds, OpenLink(q, l) PROVE Refers(q)' /\ DOMAIN at'[q] = Fields
    BY <1>0, <2>4 DEF OpenLink, Refers, Idle
  <2>5. CASE ConsumeLink(q)
    BY <1>2, <2>5 DEF ConsumeLink
  <2> QED BY <1>5, <2>1, <2>2, <2>3, <2>4, <2>5 DEF Registration
<1>6. CASE Login(q)
  <2>1. ASSUME NEW c \in Customers, FailLogin(q, c) \/ PassLogin(q, c)
        PROVE  Refers(q)' /\ DOMAIN at'[q] = Fields
    <3>1. c \in Accounts'
      BY <1>0, <2>1 DEF FailLogin, PassLogin
    <3>2. PICK s \in {"RECORD_LOGIN", "CLEAR_LOGIN"} :
            at'[q] = [Idle EXCEPT !.step = s, !.customer = c]
      BY <2>1 DEF FailLogin, PassLogin
    <3> QED BY <3>1, <3>2 DEF Refers, Idle
  <2>2. CASE RecordLogin(q) \/ ClearLogin(q)
    BY <1>1, <2>2 DEF RecordLogin, ClearLogin, End
  <2> QED BY <1>6, <2>1, <2>2 DEF Login
<1>7. CASE VerifyOTP(q)
  <2>1. ASSUME NEW p \in Phones, NEW o \in Latest(p) PROVE Sent(o)'
    <3>1. o \in CodeIds /\ Sent(o)
      BY SignInAssumption DEF Latest, Live, Sent
    <3> QED BY <3>1, StepCodes DEF CodesStay
  <2>2. ASSUME NEW p \in Phones, FailCode(q, p) PROVE Refers(q)' /\ DOMAIN at'[q] = Fields
    <3>1. PICK o \in Latest(p) :
            at' = [at EXCEPT ![q] = [Idle EXCEPT !.step = "RECORD_CODE", !.id = o]]
      BY <2>2 DEF FailCode
    <3> QED BY <2>1, <3>1 DEF Refers, Idle
  <2>3. ASSUME NEW p \in Phones, NEW c \in Customers \cup {NoOne}, PassCode(q, p, c)
        PROVE  Refers(q)' /\ DOMAIN at'[q] = Fields
    <3>1. PICK o \in Latest(p) :
            /\ c \in Accounts \cup {NoOne}
            /\ at' = [at EXCEPT ![q] = [Idle EXCEPT !.step = "CONSUME_CODE", !.id = o,
                                                    !.phone = p, !.customer = c]]
      BY <2>3 DEF PassCode
    <3> QED BY <1>0, <2>1, <3>1 DEF Refers, Idle
  <2>4. CASE RecordCode(q) \/ MarkPhone(q)
    BY <1>1, <2>4 DEF RecordCode, MarkPhone, End
  <2>5. CASE ConsumeCode(q)
    BY <1>2, <2>5 DEF ConsumeCode
  <2>6. CASE FindPhone(q)
    <3>1. WithPhone(at[q].phone) \subseteq Accounts'
      BY <1>0 DEF WithPhone, Accounts
    <3>2. at[q].step = "FIND_PHONE"
      BY <2>6 DEF FindPhone
    <3>3. \/ \E c \in Accounts' : at'[q] = [at[q] EXCEPT !.step = "MARK_PHONE", !.customer = c]
          \/ at'[q] = [at[q] EXCEPT !.step = "CREATE_PHONE"]
      BY <2>6, <3>1 DEF FindPhone
    <3> QED BY <1>2, <1>3, <3>2, <3>3
  <2>7. CASE CreatePhone(q)
    <3>1. NewCustomer(NoEmail, at[q].phone, FALSE).there
      BY DEF NewCustomer, NoCustomer
    <3> QED BY <1>1, <1>3, <1>4, <2>7, <3>1, ZenonT(60) DEF CreatePhone, End
  <2> QED BY <1>7, <2>2, <2>3, <2>4, <2>5, <2>6, <2>7 DEF VerifyOTP
<1>8. CASE OAuthCallback(q)
  <2>1. ASSUME NEW g \in Profiles, StartProfile(q, g) PROVE Refers(q)' /\ DOMAIN at'[q] = Fields
    BY <2>1 DEF StartProfile, Refers, Idle
  <2>2. CASE FindEmail(q)
    <3>1. WithEmail(EmailOf[at[q].profile]) \subseteq Accounts'
      BY <1>0 DEF WithEmail, Accounts
    <3>2. at[q].step = "FIND_EMAIL"
      BY <2>2 DEF FindEmail
    <3>3. \/ \E c \in Accounts' : at'[q] = [at[q] EXCEPT !.step = "LINK_FOUND", !.customer = c]
          \/ at'[q] = [at[q] EXCEPT !.step = "CREATE_PROFILE"]
          \/ at'[q] = Idle
      BY <2>2, <3>1 DEF FindEmail, End
    <3> QED BY <1>1, <1>2, <1>3, <3>2, <3>3
  <2>3. CASE CreateProfile(q)
    <3>1. NewCustomer(EmailOf[at[q].profile], NoPhone, FALSE).there
      BY DEF NewCustomer, NoCustomer
    <3> QED BY <1>1, <1>3, <1>4, <2>3, <3>1 DEF CreateProfile, End, AfterCreate
  <2>4. CASE MarkProfile(q)
    BY <1>2, <2>4 DEF MarkProfile
  <2>5. CASE LinkProfile(q)
    BY <1>1, <2>5 DEF LinkProfile, End
  <2> QED BY <1>8, <2>1, <2>2, <2>3, <2>4, <2>5 DEF OAuthCallback
<1>9. CASE UpdateProfile(q) \/ Drop(q)
  <2>1. ASSUME NEW c \in Customers, ReadProfile(q, c) PROVE Refers(q)' /\ DOMAIN at'[q] = Fields
    <3>1. c \in Accounts' /\ customers[c] \in CustomerRow /\ customers[c].there
      BY <1>0, <2>1 DEF ReadProfile, Accounts
    <3> QED BY <2>1, <3>1 DEF ReadProfile, Refers, Idle
  <2> QED BY <1>1, <1>9, <2>1 DEF UpdateProfile, SaveProfile, Drop, End
<1> QED BY <1>5, <1>6, <1>7, <1>8, <1>9 DEF Handles

LEMMA StepTyped == Typed /\ [Next]_vars => Typed'
<1> SUFFICES ASSUME Typed, [Next]_vars PROVE Typed'
  OBVIOUS
<1>1. /\ customers' \in [Customers -> CustomerRow] /\ codes' \in [CodeIds -> CodeRow]
      /\ \A c \in Customers : ~customers'[c].there => customers'[c] = NoCustomer
  BY StepCustomers, StepCodes DEF CustomersStay, CodesStay
<1>2. DOMAIN at' = Requests /\ \A q \in Requests : DOMAIN at'[q] = Fields /\ Refers(q)'
  <2>1. ASSUME NEW q \in Requests, Handles(q), NEW r \in Requests
        PROVE  DOMAIN at' = Requests /\ DOMAIN at'[r] = Fields /\ Refers(r)'
    <3>1. Keeps(q) /\ DOMAIN at' = Requests
      BY <2>1, StepKeeps
    <3>2. CASE r = q
      BY <2>1, <3>1, <3>2, StepRefers
    <3>3. CASE r # q
      BY <3>1, <3>3, OthersRefer DEF Keeps, Typed, Shaped
    <3> QED BY <3>2, <3>3
  <2>2. ASSUME at' = at, NEW r \in Requests
        PROVE  DOMAIN at' = Requests /\ DOMAIN at'[r] = Fields /\ Refers(r)'
    <3>1. Accounts \subseteq Accounts' /\ \A o \in CodeIds : Sent(o) => Sent(o)'
      BY StepCustomers, StepCodes DEF Accounts, CustomersStay, CodesStay
    <3>2. \A o : Sent(o) => o \in CodeIds
      BY DEF Sent
    <3> QED BY <2>2, <3>1, <3>2 DEF Refers, Typed, Shaped, Referring
  <2>3. (\E q \in Requests : Handles(q)) \/ at' = at
    BY DEF Next, Handles, RequestOTP, Unlock, Expire, Sweep, vars
  <2>4. Requests # {}
    BY SignInAssumption
  <2> QED BY <2>1, <2>2, <2>3, <2>4
<1>3. Shaped'
  BY <1>1, <1>2, StepLinks, StepCounts DEF Shaped
<1>4. Referring'
  BY <1>1, <1>2, StepLinks DEF Referring
<1> QED BY <1>3, <1>4 DEF Typed

-----------------------------------------------------------------------------
(* What is counted.                                                        *)

\* The steps at which a request is about to record what is counted.
Counting == {"RECORD_CODE", "CONSUME_CODE", "RECORD_LOGIN"}

\* The rest of a code and of a customer's password.
SameCode(o) ==
  ~codes'[o].expired =>
    /\ ~codes[o].expired
    /\ codes'[o].attempts = codes[o].attempts
    /\ ~codes'[o].consumed => ~codes[o].consumed

SamePassword(c) ==
  customers'[c].failed = customers[c].failed /\ customers'[c].locked = customers[c].locked

\* A step that counts nothing.
Elsewhere ==
  /\ UNCHANGED <<guesses, uses, tries, lost>>
  /\ \A q \in Requests : at[q].step \in Counting \/ at'[q].step \in Counting => at'[q] = at[q]
  /\ \A o \in CodeIds : SameCode(o)
  /\ \A c \in Customers : SamePassword(c)

\* The steps that do.
Counts(q) ==
  \/ \E c \in Customers : FailLogin(q, c)
  \/ RecordLogin(q) \/ ClearLogin(q) \/ RecordCode(q) \/ ConsumeCode(q) \/ SaveProfile(q)
  \/ \E p \in Phones : FailCode(q, p)
  \/ \E p \in Phones, c \in Customers \cup {NoOne} : PassCode(q, p, c)
  \/ Drop(q)

LEMMA InsertCountsNothing ==
  ASSUME Typed, NEW c \in Customers, NEW e, NEW p, NEW b, Insert(c, NewCustomer(e, p, b))
  PROVE  \A d \in Customers : SamePassword(d)
  BY DEF Insert, NewCustomer, NoCustomer, SamePassword, Typed, Shaped, Referring

LEMMA MostCountNothing ==
  ASSUME Typed, [Next]_vars
  PROVE  Elsewhere \/ (\E q \in Requests : Counts(q)) \/ (\E c \in Customers : Unlock(c))
<1> USE DEF Elsewhere, Counting, In, Goto, Idle
<1>0. DOMAIN at = Requests /\ \A q \in Requests : DOMAIN at[q] = Fields
  BY DEF Typed, Shaped
<1> USE DEF Fields
<1> DEFINE Quiet == \A r \in Requests :
             at[r].step \in Counting \/ at'[r].step \in Counting => at'[r] = at[r]
<1>a. ASSUME NEW q \in Requests, at[q].step \notin Counting, End(q) PROVE Quiet
  BY <1>0, <1>a DEF End
<1>b. ASSUME NEW q \in Requests, at[q].step \notin Counting, NEW s, s \notin Counting, NEW c,
             at' = [at EXCEPT ![q].step = s, ![q].customer = c]
      PROVE  Quiet
  BY <1>0, <1>b
<1>1. codes' = codes => \A o \in CodeIds : SameCode(o)
  BY DEF SameCode
<1>2. customers' = customers => \A c \in Customers : SamePassword(c)
  BY DEF SamePassword
<1>3. ASSUME NEW q \in Requests, Registration(q) PROVE Elsewhere
  <2>1. UNCHANGED <<counts, codes>>
    BY <1>3 DEF Registration, StartRegister, Register, SendLink, OpenLink, ConsumeLink,
       MarkEmail, tokens
  <2>2. Quiet
    <3>1. CASE \E e \in Emails : StartRegister(q, e)
      BY <3>1, <1>0 DEF StartRegister
    <3>2. CASE Register(q)
      BY <3>2, <1>a, <1>b DEF Register
    <3>3. CASE SendLink(q) \/ MarkEmail(q)
      BY <3>3, <1>a DEF SendLink, MarkEmail
    <3>4. CASE \E l \in LinkIds : OpenLink(q, l)
      BY <3>4, <1>0 DEF OpenLink
    <3>5. CASE ConsumeLink(q)
      BY <3>5, <1>0 DEF ConsumeLink
    <3> QED BY <1>3, <3>1, <3>2, <3>3, <3>4, <3>5 DEF Registration
  <2>3. \A c \in Customers : SamePassword(c)
    <3>1. CASE Register(q)
      BY <1>2, <3>1, InsertCountsNothing DEF Register
    <3>2. CASE MarkEmail(q)
      BY <3>2 DEF MarkEmail, SamePassword, Typed, Shaped, CustomerRow
    <3> QED BY <1>2, <1>3, <3>1, <3>2 DEF Registration, StartRegister, SendLink, OpenLink,
              ConsumeLink, accounts
  <2> QED BY <1>1, <2>1, <2>2, <2>3 DEF counts
<1>4. ASSUME NEW q \in Requests, Login(q) PROVE Elsewhere \/ Counts(q)
  <2>1. ASSUME NEW c \in Customers, PassLogin(q, c) PROVE Elsewhere
    BY <1>1, <1>2, <2>1 DEF PassLogin, accounts, tokens, counts, Typed, Shaped
  <2> QED BY <1>4, <2>1 DEF Login, Counts
<1>5. ASSUME NEW q \in Requests, VerifyOTP(q) PROVE Elsewhere \/ Counts(q)
  <2>1. ASSUME FindPhone(q) \/ CreatePhone(q) \/ MarkPhone(q) PROVE Elsewhere
    <3>1. UNCHANGED <<counts, codes>>
      BY <2>1 DEF FindPhone, CreatePhone, MarkPhone, tokens
    <3>2. Quiet
      <4>1. CASE FindPhone(q)
        BY <4>1, <1>0 DEF FindPhone
      <4>2. CASE CreatePhone(q)
        BY <4>2, <1>a, <1>b DEF CreatePhone
      <4>3. CASE MarkPhone(q)
        BY <4>3, <1>0 DEF MarkPhone, End
      <4> QED BY <2>1, <4>1, <4>2, <4>3
    <3>3. \A c \in Customers : SamePassword(c)
      <4>1. CASE CreatePhone(q)
        BY <1>2, <4>1, InsertCountsNothing DEF CreatePhone
      <4>2. CASE MarkPhone(q)
        BY <1>2, <4>2 DEF MarkPhone, SamePassword, Typed, Shaped, CustomerRow
      <4> QED BY <1>2, <2>1, <4>1, <4>2 DEF FindPhone, accounts
    <3> QED BY <1>1, <3>1, <3>2, <3>3 DEF counts
  <2> QED BY <1>5, <2>1 DEF VerifyOTP, Counts
<1>6. ASSUME NEW q \in Requests, OAuthCallback(q) PROVE Elsewhere
  <2>1. UNCHANGED <<counts, codes>>
    BY <1>6 DEF OAuthCallback, StartProfile, FindEmail, CreateProfile, MarkProfile,
       LinkProfile, tokens
  <2>2. Quiet
    <3>1. CASE \E g \in Profiles : StartProfile(q, g)
      BY <3>1, <1>0 DEF StartProfile
    <3>2. CASE FindEmail(q)
      BY <3>2, <1>0 DEF FindEmail, End
    <3>3. CASE CreateProfile(q)
      <4>1. AfterCreate(at[q].profile) \notin Counting
        BY DEF AfterCreate
      <4> QED BY <3>3, <4>1, <1>a, <1>b DEF CreateProfile
    <3>4. CASE MarkProfile(q)
      BY <3>4, <1>0 DEF MarkProfile
    <3>5. CASE LinkProfile(q)
      BY <3>5, <1>0 DEF LinkProfile, End
    <3> QED BY <1>6, <3>1, <3>2, <3>3, <3>4, <3>5 DEF OAuthCallback
  <2>3. \A c \in Customers : SamePassword(c)
    <3>1. CASE CreateProfile(q)
      BY <1>2, <3>1, InsertCountsNothing DEF CreateProfile
    <3>2. CASE MarkProfile(q)
      BY <3>2 DEF MarkProfile, SamePassword, Typed, Shaped, CustomerRow
    <3> QED BY <1>2, <1>6, <3>1, <3>2 DEF OAuthCallback, StartProfile, FindEmail,
              LinkProfile, accounts
  <2> QED BY <1>1, <2>1, <2>2, <2>3 DEF counts
<1>7. ASSUME NEW q \in Requests, UpdateProfile(q) PROVE Elsewhere \/ Counts(q)
  <2>1. ASSUME NEW c \in Customers, ReadProfile(q, c) PROVE Elsewhere
    BY <1>1, <1>2, <2>1 DEF ReadProfile, accounts, tokens, counts, Typed, Shaped
  <2> QED BY <1>7, <2>1 DEF UpdateProfile, Counts
<1>8. CASE \E p \in Phones : RequestOTP(p)
  <2>1. \A o \in CodeIds : SameCode(o)
    BY <1>8 DEF RequestOTP, SameCode, NoCode, Typed, Shaped
  <2> QED BY <1>2, <1>8, <2>1 DEF RequestOTP, accounts, counts
<1>9. CASE Expire
  <2>1. \A o \in CodeIds : SameCode(o)
    BY <1>1, <1>9 DEF Expire, SameCode, Typed, Shaped, CodeRow
  <2> QED BY <1>2, <1>9, <2>1 DEF Expire, accounts, counts
<1>10. CASE Sweep
  <2>1. \A o \in CodeIds : SameCode(o)
    BY <1>10 DEF Sweep, SameCode, NoCode
  <2> QED BY <1>2, <1>10, <2>1 DEF Sweep, accounts, counts
<1>11. CASE UNCHANGED vars
  BY <1>1, <1>2, <1>11 DEF vars, accounts, tokens, counts
<1> QED
  BY <1>3, <1>4, <1>5, <1>6, <1>7, <1>8, <1>9, <1>10, <1>11 DEF Next, Counts

\* The requests that are about to record an attempt on a code, to consume it, or to
\* record a failed password.
Recording(o) == {q \in Requests : at[q].step = "RECORD_CODE" /\ at[q].id = o}
Consuming(o) == {q \in Requests : at[q].step = "CONSUME_CODE" /\ at[q].id = o}
Failing(c) == {q \in Requests : at[q].step = "RECORD_LOGIN" /\ at[q].customer = c}

LEMMA SomeRequests ==
  ASSUME NEW S \in SUBSET Requests
  PROVE  /\ Cardinality(S) \in Nat /\ Cardinality(Requests) \in Nat
         /\ Cardinality(S) <= Cardinality(Requests)
         /\ \A q \in Requests \ S : Cardinality(S \cup {q}) = Cardinality(S) + 1
         /\ \A q \in S : Cardinality(S \ {q}) = Cardinality(S) - 1
<1>1. IsFiniteSet(S) /\ IsFiniteSet(Requests)
  BY SignInAssumption, FS_Subset
<1>2. Cardinality(S) \in Nat /\ Cardinality(Requests) \in Nat
  BY <1>1, FS_CardinalityType
<1>3. Cardinality(S) <= Cardinality(Requests)
  BY <1>1, FS_Subset
<1>4. ASSUME NEW q \in Requests \ S PROVE Cardinality(S \cup {q}) = Cardinality(S) + 1
  BY <1>1, <1>4, FS_AddElement
<1>5. ASSUME NEW q \in S PROVE Cardinality(S \ {q}) = Cardinality(S) - 1
  BY <1>1, <1>5, FS_RemoveElement
<1> QED BY <1>2, <1>3, <1>4, <1>5

\* A set of requests before and after a step of q, which alone may enter or leave it.
LEMMA EnterOrLeave ==
  ASSUME NEW S \in SUBSET Requests, NEW T \in SUBSET Requests, NEW q \in Requests,
         T \ {q} = S \ {q}
  PROVE  /\ Cardinality(S) \in Nat /\ Cardinality(T) \in Nat /\ Cardinality(Requests) \in Nat
         /\ Cardinality(T) <= Cardinality(Requests)
         /\ q \notin S /\ q \in T => Cardinality(T) = Cardinality(S) + 1
         /\ q \in S /\ q \notin T => Cardinality(T) = Cardinality(S) - 1
         /\ (q \in S <=> q \in T) => Cardinality(T) = Cardinality(S)
<1>1. q \notin S /\ q \in T => T = S \cup {q}
  OBVIOUS
<1>2. q \in S /\ q \notin T => T = S \ {q}
  OBVIOUS
<1>3. (q \in S <=> q \in T) => T = S
  OBVIOUS
<1> QED BY <1>1, <1>2, <1>3, SomeRequests

LEMMA OthersWait ==
  ASSUME Typed, [Next]_vars, NEW q \in Requests, Handles(q)
  PROVE  /\ \A o : Recording(o)' \ {q} = Recording(o) \ {q}
         /\ \A o : Consuming(o)' \ {q} = Consuming(o) \ {q}
         /\ \A c : Failing(c)' \ {q} = Failing(c) \ {q}
<1>1. \A r \in Requests \ {q} : at'[r] = at[r]
  BY StepKeeps DEF Keeps
<1> QED BY <1>1 DEF Recording, Consuming, Failing

LEMMA NobodyWaits ==
  ASSUME Elsewhere
  PROVE  /\ \A o : Recording(o)' = Recording(o) /\ Consuming(o)' = Consuming(o)
         /\ \A c : Failing(c)' = Failing(c)
  BY DEF Elsewhere, Counting, Recording, Consuming, Failing

-----------------------------------------------------------------------------
(* A code is consumed by no more requests than there are.                  *)

\* While a code can still be read it was not consumed; afterwards only those consume it
\* who had read it.
UsesCounted ==
  \A o \in CodeIds :
    /\ ~codes[o].consumed /\ ~codes[o].expired => uses[o] = 0
    /\ uses[o] + Cardinality(Consuming(o)) <= Cardinality(Requests)

LEMMA InitUses == Init => UsesCounted
<1> SUFFICES ASSUME Init PROVE UsesCounted
  OBVIOUS
<1>1. \A o : Consuming(o) = {}
  BY DEF Init, Idle, Consuming
<1>2. Cardinality(Requests) \in Nat /\ Cardinality({}) = 0
  BY SomeRequests, FS_EmptySet
<1> QED BY <1>1, <1>2 DEF Init, UsesCounted

LEMMA StepUses == Typed /\ UsesCounted /\ [Next]_vars => UsesCounted'
<1> SUFFICES ASSUME Typed, UsesCounted, [Next]_vars PROVE UsesCounted'
  OBVIOUS
<1> SUFFICES ASSUME NEW o \in CodeIds
             PROVE  /\ ~codes'[o].consumed /\ ~codes'[o].expired => uses'[o] = 0
                    /\ uses'[o] + Cardinality(Consuming(o)') <= Cardinality(Requests)
  BY DEF UsesCounted
<1> DEFINE S == Consuming(o)
           T == Consuming(o)'
<1>1. /\ S \in SUBSET Requests /\ T \in SUBSET Requests
      /\ uses[o] \in Nat
      /\ ~codes[o].consumed /\ ~codes[o].expired => uses[o] = 0
      /\ uses[o] + Cardinality(S) <= Cardinality(Requests)
  BY DEF Consuming, Typed, Shaped, UsesCounted
<1>2. CASE Elsewhere
  BY <1>1, <1>2, NobodyWaits DEF Elsewhere, SameCode
<1>3. ASSUME NEW q \in Requests, Counts(q)
      PROVE  /\ ~codes'[o].consumed /\ ~codes'[o].expired => uses'[o] = 0
             /\ uses'[o] + Cardinality(T) <= Cardinality(Requests)
  <2>1. Handles(q)
    BY <1>3 DEF Counts, Handles, Login, VerifyOTP, UpdateProfile
  <2>2. T \ {q} = S \ {q}
    BY <2>1, OthersWait
  <2>3. /\ Cardinality(S) \in Nat /\ Cardinality(T) \in Nat /\ Cardinality(Requests) \in Nat
        /\ Cardinality(T) <= Cardinality(Requests)
        /\ q \notin S /\ q \in T => Cardinality(T) = Cardinality(S) + 1
        /\ q \in S /\ q \notin T => Cardinality(T) = Cardinality(S) - 1
        /\ (q \in S <=> q \in T) => Cardinality(T) = Cardinality(S)
    BY <1>1, <2>2, EnterOrLeave
  <2>4. CASE q \notin T /\ uses'[o] = uses[o] /\ SameCode(o)
    <3>1. Cardinality(T) <= Cardinality(S)
      BY <2>3, <2>4
    <3> QED BY <1>1, <2>3, <2>4, <3>1 DEF SameCode
  <2>5. codes' = codes => SameCode(o)
    BY DEF SameCode
  <2> DEFINE Leaves == DOMAIN at = Requests /\ at'[q].step # "CONSUME_CODE" => q \notin T
  <2>6. Leaves
    BY DEF Consuming
  <2>7. DOMAIN at = Requests /\ DOMAIN at[q] = Fields
    BY DEF Typed, Shaped
  <2>8. CASE \E c \in Customers : FailLogin(q, c)
    BY <2>4, <2>5, <2>6, <2>7, <2>8 DEF FailLogin, tokens, Idle
  <2>9. CASE RecordLogin(q) \/ ClearLogin(q) \/ SaveProfile(q)
    BY <2>4, <2>5, <2>6, <2>7, <2>9 DEF RecordLogin, ClearLogin, SaveProfile, tokens, counts, End, Idle
  <2>10. CASE Drop(q)
    BY <2>4, <2>5, <2>6, <2>7, <2>10 DEF Drop, tokens, End, Idle
  <2>11. CASE \E p \in Phones : FailCode(q, p)
    BY <2>4, <2>5, <2>6, <2>7, <2>11 DEF FailCode, tokens, Idle
  <2>12. CASE RecordCode(q)
    <3>1. codes'[o].consumed = codes[o].consumed /\ codes'[o].expired = codes[o].expired
      BY <2>12 DEF RecordCode, SameCode, Typed, Shaped, CodeRow
    <3>2. q \notin T /\ q \notin S /\ uses' = uses
      BY <2>6, <2>7, <2>12 DEF RecordCode, End, Idle, In, Consuming, counts
    <3> QED BY <1>1, <2>3, <3>1, <3>2 DEF SameCode
  <2>13. CASE ConsumeCode(q)
    <3>1. q \notin T
      BY <2>6, <2>7, <2>13 DEF ConsumeCode, Goto, Fields
    <3>2. CASE o = at[q].id
      <4>1. q \in S /\ Sent(o)
        BY <2>13, <3>2 DEF ConsumeCode, In, Consuming, Typed, Referring, Refers
      <4>2. uses'[o] = uses[o] + 1
        BY <2>13, <3>2 DEF ConsumeCode, Typed, Shaped
      <4>3. codes'[o].consumed \/ codes'[o].expired
        BY <2>13, <3>2, <4>1 DEF ConsumeCode, Sent, Typed, Shaped, CodeRow
      <4> QED BY <1>1, <2>3, <3>1, <4>1, <4>2, <4>3
    <3>3. CASE o # at[q].id
      <4>1. codes'[o] = codes[o] /\ uses'[o] = uses[o]
        BY <2>13, <3>3 DEF ConsumeCode, Typed, Shaped
      <4> QED BY <2>4, <3>1, <4>1 DEF SameCode
    <3> QED BY <3>2, <3>3
  <2>14. ASSUME NEW p \in Phones, NEW c \in Customers \cup {NoOne}, PassCode(q, p, c)
         PROVE  /\ ~codes'[o].consumed /\ ~codes'[o].expired => uses'[o] = 0
                /\ uses'[o] + Cardinality(T) <= Cardinality(Requests)
    <3>1. PICK k \in Latest(p) :
            /\ In(q, "IDLE") /\ Usable(k)
            /\ at' = [at EXCEPT ![q] = [Idle EXCEPT !.step = "CONSUME_CODE", !.id = k,
                                                    !.phone = p, !.customer = c]]
      BY <2>14 DEF PassCode
    <3>2. UNCHANGED <<codes, uses>> /\ q \notin S
      BY <2>14 DEF PassCode, tokens, counts, In, Consuming
    <3>3. CASE o = k
      <4>1. ~codes[o].consumed /\ ~codes[o].expired
        BY <3>1, <3>3 DEF Latest, Live, Usable
      <4> QED BY <1>1, <2>3, <3>2, <4>1
    <3>4. CASE o # k
      <4>1. q \notin T
        BY <2>7, <3>1, <3>4 DEF Consuming, Idle
      <4> QED BY <1>1, <2>3, <3>2, <4>1
    <3> QED BY <3>3, <3>4
  <2> QED BY <1>3, <2>8, <2>9, <2>10, <2>11, <2>12, <2>13, <2>14 DEF Counts
<1>4. ASSUME NEW c \in Customers, Unlock(c)
      PROVE  /\ ~codes'[o].consumed /\ ~codes'[o].expired => uses'[o] = 0
             /\ uses'[o] + Cardinality(T) <= Cardinality(Requests)
  <2>1. UNCHANGED <<codes, uses>> /\ T = S
    BY <1>4 DEF Unlock, tokens, Consuming
  <2> QED BY <1>1, <2>1
<1> QED BY <1>2, <1>3, <1>4, MostCountNothing

\* However requests interleave, however often codes expire, are swept or are sent anew, a
\* code is consumed by no more requests than there are at once: those that had read it.
THEOREM CodesAreShared == Spec => []UsesBounded
<1>1. Typed /\ UsesCounted => UsesBounded
  <2> SUFFICES ASSUME Typed, UsesCounted, NEW o \in CodeIds
               PROVE  uses[o] <= Cardinality(Requests)
    BY DEF UsesBounded
  <2>1. uses[o] \in Nat /\ uses[o] + Cardinality(Consuming(o)) <= Cardinality(Requests)
    BY DEF Typed, Shaped, UsesCounted
  <2>2. Cardinality(Consuming(o)) \in Nat /\ Cardinality(Requests) \in Nat
    BY SomeRequests DEF Consuming
  <2> QED BY <2>1, <2>2
<1> QED BY <1>1, InitTyped, InitUses, StepTyped, StepUses, PTL DEF Spec

-----------------------------------------------------------------------------
(* A code is guessed at no oftener than its attempts and the requests at   *)
(* once allow, but for the attempts that were never recorded.              *)

\* While a code can still be read, every guess was recorded, is about to be, or is lost.
GuessesCounted ==
  \A o \in CodeIds :
    /\ ~codes[o].expired =>
         guesses[o] <= codes[o].attempts + Cardinality(Recording(o)) + lost
    /\ guesses[o] <= MaxAttempts + Cardinality(Requests) - 1 + lost

LEMMA InitGuesses == Init => GuessesCounted
<1> SUFFICES ASSUME Init, NEW o \in CodeIds
             PROVE  /\ guesses[o] <= codes[o].attempts + Cardinality(Recording(o)) + lost
                    /\ guesses[o] <= MaxAttempts + Cardinality(Requests) - 1 + lost
  BY DEF GuessesCounted
<1>1. Recording(o) = {} /\ Cardinality({}) = 0
  BY FS_EmptySet DEF Init, Idle, Recording
<1>2. Cardinality(Requests) \in Nat /\ MaxAttempts \in Nat \ {0}
  BY SomeRequests, SignInAssumption
<1>3. guesses[o] = 0 /\ codes[o].attempts = 0 /\ lost = 0
  BY DEF Init, NoCode
<1> QED BY <1>1, <1>2, <1>3

LEMMA StepGuesses == Typed /\ GuessesCounted /\ [Next]_vars => GuessesCounted'
<1> SUFFICES ASSUME Typed, GuessesCounted, [Next]_vars PROVE GuessesCounted'
  OBVIOUS
<1> DEFINE Counted(o) ==
             /\ ~codes'[o].expired =>
                  guesses'[o] <= codes'[o].attempts + Cardinality(Recording(o)') + lost'
             /\ guesses'[o] <= MaxAttempts + Cardinality(Requests) - 1 + lost'
<1> SUFFICES ASSUME NEW o \in CodeIds PROVE Counted(o)
  BY DEF GuessesCounted
<1> DEFINE S == Recording(o)
           T == Recording(o)'
           a == codes[o].attempts
<1>1. /\ S \in SUBSET Requests /\ T \in SUBSET Requests
      /\ guesses[o] \in Nat /\ a \in Nat /\ lost \in Nat /\ MaxAttempts \in Nat \ {0}
      /\ ~codes[o].expired => guesses[o] <= a + Cardinality(S) + lost
      /\ guesses[o] <= MaxAttempts + Cardinality(Requests) - 1 + lost
  BY SignInAssumption DEF Recording, Typed, Shaped, CodeRow, GuessesCounted
<1>2. CASE Elsewhere
  BY <1>1, <1>2, NobodyWaits DEF Elsewhere, SameCode
<1>3. ASSUME NEW q \in Requests, Counts(q) PROVE Counted(o)
  <2>1. Handles(q)
    BY <1>3 DEF Counts, Handles, Login, VerifyOTP, UpdateProfile
  <2>2. T \ {q} = S \ {q}
    BY <2>1, OthersWait
  <2>3. /\ Cardinality(S) \in Nat /\ Cardinality(T) \in Nat /\ Cardinality(Requests) \in Nat
        /\ Cardinality(T) <= Cardinality(Requests)
        /\ q \notin S /\ q \in T => Cardinality(T) = Cardinality(S) + 1
        /\ q \in S /\ q \notin T => Cardinality(T) = Cardinality(S) - 1
        /\ (q \in S <=> q \in T) => Cardinality(T) = Cardinality(S)
    BY <1>1, <2>2, EnterOrLeave
  <2>4. CASE /\ q \notin T /\ guesses'[o] = guesses[o] /\ codes' = codes
             /\ lost' = IF q \in S THEN lost + 1 ELSE lost
    BY <1>1, <2>3, <2>4
  <2>5. DOMAIN at = Requests /\ DOMAIN at[q] = Fields
    BY DEF Typed, Shaped
  <2>6. at'[q].step # "RECORD_CODE" => q \notin T
    BY DEF Recording
  <2>7. at[q].step # "RECORD_CODE" => q \notin S
    BY DEF Recording
  <2>8. CASE \E c \in Customers : FailLogin(q, c)
    BY <2>4, <2>5, <2>6, <2>7, <2>8 DEF FailLogin, In, tokens, Idle
  <2>9. CASE RecordLogin(q) \/ ClearLogin(q) \/ SaveProfile(q)
    BY <2>4, <2>5, <2>6, <2>7, <2>9 DEF RecordLogin, ClearLogin, SaveProfile, In, tokens,
       counts, End, Idle
  <2>10. CASE \E p \in Phones, c \in Customers \cup {NoOne} : PassCode(q, p, c)
    BY <2>4, <2>5, <2>6, <2>7, <2>10 DEF PassCode, In, tokens, counts, Idle
  <2>11. CASE Drop(q)
    <3>1. q \notin T /\ UNCHANGED <<guesses, codes>>
      BY <2>5, <2>6, <2>11 DEF Drop, tokens, End, Idle
    <3>2. (lost' = lost + 1 \/ lost' = lost) /\ (q \in S => lost' = lost + 1)
      BY <2>7, <2>11 DEF Drop, In
    <3> QED BY <1>1, <2>3, <3>1, <3>2
  <2>12. CASE ConsumeCode(q)
    <3>1. q \notin T /\ q \notin S /\ UNCHANGED <<guesses, lost>>
      BY <2>5, <2>6, <2>7, <2>12 DEF ConsumeCode, In, Goto, Fields
    <3>2. codes'[o].expired = codes[o].expired /\ codes'[o].attempts = a
      BY <2>12 DEF ConsumeCode, Typed, Shaped, CodeRow
    <3> QED BY <1>1, <2>3, <3>1, <3>2
  <2>13. CASE RecordCode(q)
    <3>1. q \notin T /\ UNCHANGED <<guesses, lost>>
      BY <2>5, <2>6, <2>13 DEF RecordCode, End, Idle, counts
    <3>2. CASE o = at[q].id
      <4>1. Sent(o)
        BY <2>13, <3>2 DEF RecordCode, In, Typed, Referring, Refers
      <4>2. codes'[o].expired = codes[o].expired
            /\ (codes'[o].expired \/ codes'[o].attempts = a + 1)
        BY <2>13, <3>2, <4>1 DEF RecordCode, Sent, Typed, Shaped, CodeRow
      <4>3. Cardinality(T) >= Cardinality(S) - 1
        BY <2>3, <3>1
      <4> QED BY <1>1, <2>3, <3>1, <4>2, <4>3
    <3>3. CASE o # at[q].id
      <4>1. codes'[o] = codes[o] /\ q \notin S
        BY <2>13, <3>3 DEF RecordCode, Recording, Typed, Shaped
      <4> QED BY <1>1, <2>3, <3>1, <4>1
    <3> QED BY <3>2, <3>3
  <2>14. ASSUME NEW p \in Phones, FailCode(q, p) PROVE Counted(o)
    <3>1. PICK k \in Latest(p) :
            /\ In(q, "IDLE")
            /\ IF Usable(k) THEN guesses' = [guesses EXCEPT ![k] = @ + 1]
               ELSE UNCHANGED guesses
            /\ at' = [at EXCEPT ![q] = [Idle EXCEPT !.step = "RECORD_CODE", !.id = k]]
      BY <2>14 DEF FailCode
    <3>2. UNCHANGED <<codes, lost>> /\ q \notin S
      BY <2>7, <2>14 DEF FailCode, In, tokens
    <3>3. CASE o = k
      <4>1. q \in T
        BY <2>5, <3>1, <3>3 DEF Recording, Idle
      <4>2. CASE Usable(k)
        <5>1. guesses'[o] = guesses[o] + 1 /\ ~codes[o].expired /\ a < MaxAttempts
          BY <3>1, <3>3, <4>2 DEF Usable, Typed, Shaped
        <5> QED BY <1>1, <2>3, <3>2, <4>1, <5>1
      <4>3. CASE ~Usable(k)
        BY <1>1, <2>3, <3>1, <3>2, <4>1, <4>3
      <4> QED BY <4>2, <4>3
    <3>4. CASE o # k
      <4>1. q \notin T /\ guesses'[o] = guesses[o]
        BY <2>5, <3>1, <3>4 DEF Recording, Idle, Typed, Shaped
      <4> QED BY <2>4, <3>2, <4>1
    <3> QED BY <3>3, <3>4
  <2> QED BY <1>3, <2>8, <2>9, <2>10, <2>11, <2>12, <2>13, <2>14 DEF Counts
<1>4. ASSUME NEW c \in Customers, Unlock(c) PROVE Counted(o)
  <2>1. UNCHANGED <<codes, guesses, lost>> /\ T = S
    BY <1>4 DEF Unlock, tokens, Recording
  <2> QED BY <1>1, <2>1
<1> QED BY <1>2, <1>3, <1>4, MostCountNothing

\* A code is compared with no more wrong ones than MaxAttempts and the other requests of
\* the moment, plus the attempts that were never recorded: for any number of either.
THEOREM GuessesAreCounted == Spec => []GuessesBounded
<1>1. GuessesCounted => GuessesBounded
  BY DEF GuessesCounted, GuessesBounded
<1> QED BY <1>1, InitTyped, InitGuesses, StepTyped, StepGuesses, PTL DEF Spec

-----------------------------------------------------------------------------
(* The same of a password.                                                 *)

\* What the counter of a row stands for: one that outlived its lock for nothing.
Known(c) == IF customers[c].failed < LockAfter THEN customers[c].failed ELSE 0

TriesCounted ==
  \A c \in Customers :
    /\ ~customers[c].locked => tries[c] <= Known(c) + Cardinality(Failing(c)) + lost
    /\ tries[c] <= LockAfter + Cardinality(Requests) - 1 + lost

LEMMA InitTries == Init => TriesCounted
<1> SUFFICES ASSUME Init, NEW c \in Customers
             PROVE  /\ tries[c] <= Known(c) + Cardinality(Failing(c)) + lost
                    /\ tries[c] <= LockAfter + Cardinality(Requests) - 1 + lost
  BY DEF TriesCounted
<1>1. Failing(c) = {} /\ Cardinality({}) = 0
  BY FS_EmptySet DEF Init, Idle, Failing
<1>2. Cardinality(Requests) \in Nat /\ LockAfter \in Nat \ {0}
  BY SomeRequests, SignInAssumption
<1>3. tries[c] = 0 /\ Known(c) = 0 /\ lost = 0
  BY DEF Init, NoCustomer, Known
<1> QED BY <1>1, <1>2, <1>3

LEMMA StepTries == Typed /\ TriesCounted /\ [Next]_vars => TriesCounted'
<1> SUFFICES ASSUME Typed, TriesCounted, [Next]_vars PROVE TriesCounted'
  OBVIOUS
<1> DEFINE KnownThen(c) == IF customers'[c].failed < LockAfter THEN customers'[c].failed ELSE 0
           Counted(c) ==
             /\ ~customers'[c].locked =>
                  tries'[c] <= KnownThen(c) + Cardinality(Failing(c)') + lost'
             /\ tries'[c] <= LockAfter + Cardinality(Requests) - 1 + lost'
<1> SUFFICES ASSUME NEW c \in Customers PROVE Counted(c)
  BY DEF TriesCounted, Known
<1> DEFINE S == Failing(c)
           T == Failing(c)'
           f == customers[c].failed
<1>1. /\ S \in SUBSET Requests /\ T \in SUBSET Requests
      /\ tries[c] \in Nat /\ f \in Nat /\ lost \in Nat /\ LockAfter \in Nat \ {0}
      /\ Known(c) = IF f < LockAfter THEN f ELSE 0
      /\ ~customers[c].locked => tries[c] <= Known(c) + Cardinality(S) + lost
      /\ tries[c] <= LockAfter + Cardinality(Requests) - 1 + lost
  BY SignInAssumption DEF Failing, Typed, Shaped, CustomerRow, TriesCounted, Known
<1>2. CASE Elsewhere
  <2>1. SamePassword(c) /\ UNCHANGED <<tries, lost>> /\ T = S
    BY <1>2, NobodyWaits DEF Elsewhere
  <2> QED BY <1>1, <2>1 DEF SamePassword
<1>3. ASSUME NEW q \in Requests, Counts(q) PROVE Counted(c)
  <2>1. Handles(q)
    BY <1>3 DEF Counts, Handles, Login, VerifyOTP, UpdateProfile
  <2>2. T \ {q} = S \ {q}
    BY <2>1, OthersWait
  <2>3. /\ Cardinality(S) \in Nat /\ Cardinality(T) \in Nat /\ Cardinality(Requests) \in Nat
        /\ Cardinality(T) <= Cardinality(Requests)
        /\ q \notin S /\ q \in T => Cardinality(T) = Cardinality(S) + 1
        /\ q \in S /\ q \notin T => Cardinality(T) = Cardinality(S) - 1
        /\ (q \in S <=> q \in T) => Cardinality(T) = Cardinality(S)
    BY <1>1, <2>2, EnterOrLeave
  <2>4. CASE q \notin T /\ q \notin S /\ tries'[c] = tries[c] /\ SamePassword(c) /\ lost' = lost
    BY <1>1, <2>3, <2>4 DEF SamePassword
  <2>5. DOMAIN at = Requests /\ DOMAIN at[q] = Fields
    BY DEF Typed, Shaped
  <2>6. at'[q].step # "RECORD_LOGIN" => q \notin T
    BY DEF Failing
  <2>7. at[q].step # "RECORD_LOGIN" => q \notin S
    BY DEF Failing
  <2>8. customers'[c] = customers[c] => SamePassword(c)
    BY DEF SamePassword
  <2>9. CASE RecordCode(q) \/ ConsumeCode(q)
    BY <2>4, <2>5, <2>6, <2>7, <2>8, <2>9 DEF RecordCode, ConsumeCode, In, accounts,
       counts, End, Goto, Idle, Fields
  <2>10. CASE \/ \E p \in Phones : FailCode(q, p)
              \/ \E p \in Phones, d \in Customers \cup {NoOne} : PassCode(q, p, d)
    <3>1. UNCHANGED <<customers, tries, lost>> /\ at[q].step = "IDLE"
      BY <2>10 DEF FailCode, PassCode, In, accounts, counts
    <3>2. at'[q].step \in {"RECORD_CODE", "CONSUME_CODE"}
      <4>1. ASSUME NEW p \in Phones, FailCode(q, p) PROVE at'[q].step = "RECORD_CODE"
        BY <2>5, <4>1 DEF FailCode, Idle
      <4>2. ASSUME NEW p \in Phones, NEW d \in Customers \cup {NoOne}, PassCode(q, p, d)
            PROVE  at'[q].step = "CONSUME_CODE"
        BY <2>5, <4>2 DEF PassCode, Idle
      <4> QED BY <2>10, <4>1, <4>2
    <3> QED BY <2>4, <2>6, <2>7, <2>8, <3>1, <3>2
  <2>11. CASE Drop(q)
    <3>1. q \notin T /\ UNCHANGED <<tries, customers>>
      BY <2>5, <2>6, <2>11 DEF Drop, accounts, End, Idle
    <3>2. (lost' = lost + 1 \/ lost' = lost) /\ (q \in S => lost' = lost + 1)
      BY <2>7, <2>11 DEF Drop, In
    <3> QED BY <1>1, <2>3, <3>1, <3>2
  <2>12. CASE SaveProfile(q)
    <3>1. q \notin T /\ q \notin S /\ lost' = lost
      BY <2>5, <2>6, <2>7, <2>12 DEF SaveProfile, In, End, Idle
    <3>2. \/ tries'[c] = tries[c] /\ customers'[c] = customers[c]
          \/ tries'[c] = 0 /\ customers'[c] \in CustomerRow
      BY <2>12, StepCustomers DEF SaveProfile, Typed, Shaped, CustomersStay
    <3>3. CASE tries'[c] = 0 /\ customers'[c] \in CustomerRow
      <4>1. customers'[c].failed \in Nat
        BY <3>3 DEF CustomerRow
      <4> QED BY <1>1, <2>3, <3>1, <3>3, <4>1
    <3> QED BY <2>4, <2>8, <3>1, <3>2, <3>3
  <2>13. CASE ClearLogin(q)
    <3>1. q \notin T /\ q \notin S /\ lost' = lost
      BY <2>5, <2>6, <2>7, <2>13 DEF ClearLogin, In, End, Idle
    <3>2. CASE c = at[q].customer
      <4>1. tries'[c] = 0 /\ customers'[c].failed = 0
        BY <2>13, <3>2 DEF ClearLogin, Typed, Shaped, CustomerRow
      <4> QED BY <1>1, <2>3, <3>1, <4>1
    <3>3. CASE c # at[q].customer
      <4>1. tries'[c] = tries[c] /\ customers'[c] = customers[c]
        BY <2>13, <3>3 DEF ClearLogin, Typed, Shaped
      <4> QED BY <2>4, <2>8, <3>1, <4>1
    <3> QED BY <3>2, <3>3
  <2>14. CASE RecordLogin(q)
    <3>1. q \notin T /\ UNCHANGED <<tries, lost>>
      BY <2>5, <2>6, <2>14 DEF RecordLogin, counts, End, Idle
    <3>2. CASE c = at[q].customer
      <4> DEFINE g == IF f < LockAfter THEN f + 1 ELSE LockAfter
      <4>1. customers'[c].failed = g /\ (g = LockAfter => customers'[c].locked)
            /\ (customers[c].locked => customers'[c].locked)
        BY <2>14, <3>2 DEF RecordLogin, Typed, Shaped, CustomerRow
      <4>2. g \in Nat /\ (g # LockAfter => f < LockAfter /\ g < LockAfter /\ g = f + 1)
        BY <1>1
      <4>3. Cardinality(T) >= Cardinality(S) - 1
        BY <2>3, <3>1
      <4> HIDE DEF g
      <4> QED BY <1>1, <2>3, <3>1, <4>1, <4>2, <4>3
    <3>3. CASE c # at[q].customer
      <4>1. customers'[c] = customers[c] /\ q \notin S
        BY <2>14, <3>3 DEF RecordLogin, Failing, Typed, Shaped
      <4> QED BY <2>4, <2>8, <3>1, <4>1
    <3> QED BY <3>2, <3>3
  <2>15. ASSUME NEW d \in Customers, FailLogin(q, d) PROVE Counted(c)
    <3>1. UNCHANGED <<customers, lost>> /\ q \notin S
      BY <2>7, <2>15 DEF FailLogin, In, accounts
    <3>2. CASE c = d
      <4>1. q \in T
        BY <2>5, <2>15, <3>2 DEF FailLogin, Failing, Idle
      <4>2. tries'[c] = tries[c] + 1 /\ ~customers[c].locked
        BY <2>15, <3>2 DEF FailLogin, MayTry, Typed, Shaped
      <4> QED BY <1>1, <2>3, <3>1, <4>1, <4>2
    <3>3. CASE c # d
      <4>1. q \notin T /\ tries'[c] = tries[c]
        BY <2>5, <2>15, <3>3 DEF FailLogin, Failing, Idle, Typed, Shaped
      <4> QED BY <2>4, <2>8, <3>1, <4>1
    <3> QED BY <3>2, <3>3
  <2> QED BY <1>3, <2>9, <2>10, <2>11, <2>12, <2>13, <2>14, <2>15 DEF Counts
<1>4. ASSUME NEW d \in Customers, Unlock(d) PROVE Counted(c)
  <2>1. UNCHANGED lost /\ T = S
    BY <1>4 DEF Unlock, Failing
  <2>2. Cardinality(S) \in Nat /\ Cardinality(Requests) \in Nat
    BY <1>1, SomeRequests
  <2>3. CASE c = d
    <3>1. tries'[c] = 0 /\ customers'[c].failed = f
      BY <1>4, <2>3 DEF Unlock, Typed, Shaped, CustomerRow
    <3>2. Cardinality(Requests) >= 1
      BY SignInAssumption, FS_EmptySet, <2>2
    <3> QED BY <1>1, <2>1, <2>2, <3>1, <3>2
  <2>4. CASE c # d
    <3>1. tries'[c] = tries[c] /\ customers'[c] = customers[c]
      BY <1>4, <2>4 DEF Unlock, Typed, Shaped
    <3> QED BY <1>1, <2>1, <2>2, <3>1
  <2> QED BY <2>3, <2>4
<1> QED BY <1>2, <1>3, <1>4, MostCountNothing

\* Between two successes, ends of a lock or saved profiles a password is tried wrongly no
\* oftener than LockAfter and the other requests of the moment, plus what was never
\* recorded.
THEOREM TriesAreCounted == Spec => []TriesBounded
<1>1. TriesCounted => TriesBounded
  BY DEF TriesCounted, TriesBounded
<1> QED BY <1>1, InitTyped, InitTries, StepTyped, StepTries, PTL DEF Spec

-----------------------------------------------------------------------------
(* What is marked verified was proved; what is linked was verified.        *)

Verified(row) == /\ row.emailVerified => row.email \in proven
                 /\ row.phoneVerified => row.phone \in proven

\* What a request was shown before it got where it is.
Claims(q) ==
  /\ at[q].step = "MARK_EMAIL" => customers[at[q].customer].email \in proven
  /\ at[q].step \in {"FIND_PHONE", "CREATE_PHONE", "MARK_PHONE"} => at[q].phone \in proven
  /\ at[q].step \in {"MARK_PROFILE", "LINK_CREATED", "LINK_FOUND"} =>
       customers[at[q].customer].email = EmailOf[at[q].profile]
  /\ at[q].step = "MARK_PROFILE" => at[q].profile \in Vouched
  /\ at[q].step = "LINK_FOUND" =>
       at[q].profile \in Vouched /\ EmailOf[at[q].profile] \in proven
  /\ at[q].step = "SAVE_PROFILE" =>
       Verified(at[q].row) /\ at[q].row.email = customers[at[q].customer].email

Linked(g) ==
  profileOf[g] # NoOne =>
    /\ profileOf[g] \in Accounts
    /\ customers[profileOf[g]].email = EmailOf[g]
    /\ linkedBy[g] = "LINK_FOUND" => g \in Vouched /\ EmailOf[g] \in proven

Shown == /\ \A c \in Customers : Verified(customers[c])
         /\ \A q \in Requests : Claims(q)
         /\ \A g \in Profiles : Linked(g)

LEMMA InitShown == Init => Shown
  BY DEF Init, Shown, Verified, Claims, Linked, NoCustomer, Idle

\* What no step takes back.
RowsStand ==
  /\ proven \subseteq proven'
  /\ \A c \in Customers : customers[c].there => customers'[c].email = customers[c].email
  /\ \A c \in Customers : Verified(customers[c])'

LEMMA NoRowChanges ==
  ASSUME Shown, customers' = customers, proven \subseteq proven'
  PROVE  RowsStand
  BY DEF Shown, RowsStand, Verified

LEMMA OneRowChanges ==
  ASSUME Typed, Shown, NEW c \in Customers, NEW row,
         customers' = [customers EXCEPT ![c] = row], proven \subseteq proven',
         row.emailVerified => row.email \in proven',
         row.phoneVerified => row.phone \in proven',
         customers[c].there => row.email = customers[c].email
  PROVE  RowsStand
<1>1. customers'[c] = row /\ \A d \in Customers \ {c} : customers'[d] = customers[d]
  BY DEF Typed, Shaped
<1> QED BY <1>1 DEF Shown, RowsStand, Verified

LEMMA NewRowStands ==
  ASSUME Typed, Shown, NEW c \in Customers, NEW e, NEW p, NEW b, Insert(c, NewCustomer(e, p, b)),
         proven' = proven
  PROVE  RowsStand
<1> DEFINE row == NewCustomer(e, p, b)
<1>1. ~row.emailVerified /\ ~row.phoneVerified
  BY DEF NewCustomer, NoCustomer
<1>2. ~customers[c].there /\ customers' = [customers EXCEPT ![c] = row]
  BY DEF Insert
<1> HIDE DEF row
<1> QED BY <1>1, <1>2, OneRowChanges

\* A row of which only the counter or the lock is written.
LEMMA SameContacts ==
  ASSUME Typed, Shown, NEW c \in Customers, NEW f, NEW l, proven' = proven,
         customers' = [customers EXCEPT ![c].failed = f, ![c].locked = l]
  PROVE  RowsStand
<1> DEFINE row == [customers[c] EXCEPT !.failed = f, !.locked = l]
<1>1. /\ row.email = customers[c].email /\ row.emailVerified = customers[c].emailVerified
      /\ row.phone = customers[c].phone /\ row.phoneVerified = customers[c].phoneVerified
  BY DEF Typed, Shaped, CustomerRow
<1>2. customers' = [customers EXCEPT ![c] = row]
  BY DEF Typed, Shaped, CustomerRow
<1>3. (row.emailVerified => row.email \in proven') /\ (row.phoneVerified => row.phone \in proven')
  BY <1>1 DEF Shown, Verified
<1> HIDE DEF row
<1> QED BY <1>1, <1>2, <1>3, OneRowChanges

\* A row whose address is marked verified.
LEMMA MarkedEmail ==
  ASSUME Typed, Shown, NEW c \in Customers, proven \subseteq proven',
         customers' = [customers EXCEPT ![c].emailVerified = TRUE],
         customers[c].email \in proven'
  PROVE  RowsStand
<1> DEFINE row == [customers[c] EXCEPT !.emailVerified = TRUE]
<1>1. /\ row.email = customers[c].email
      /\ row.phone = customers[c].phone /\ row.phoneVerified = customers[c].phoneVerified
  BY DEF Typed, Shaped, CustomerRow
<1>2. customers' = [customers EXCEPT ![c] = row]
  OBVIOUS
<1>3. (row.emailVerified => row.email \in proven') /\ (row.phoneVerified => row.phone \in proven')
  BY <1>1 DEF Shown, Verified
<1> HIDE DEF row
<1> QED BY <1>1, <1>2, <1>3, OneRowChanges

LEMMA StepRows ==
  ASSUME Typed, Shown, [Next]_vars
  PROVE  RowsStand
<1>1. ASSUME NEW q \in Requests, Registration(q) PROVE RowsStand
  <2>1. CASE Register(q)
    BY <2>1, NoRowChanges, NewRowStands DEF Register
  <2>2. CASE MarkEmail(q)
    <3>1. at[q].customer \in Customers /\ customers[at[q].customer].email \in proven
      BY <2>2 DEF MarkEmail, In, Shown, Claims, Typed, Referring, Refers, Holding, Accounts
    <3> QED BY <2>2, <3>1, MarkedEmail DEF MarkEmail
  <2> QED BY <1>1, <2>1, <2>2, NoRowChanges DEF Registration, StartRegister, SendLink, OpenLink,
            ConsumeLink, accounts
<1>2. ASSUME NEW q \in Requests, Login(q) PROVE RowsStand
  <2>1. CASE RecordLogin(q)
    <3> DEFINE c == at[q].customer
               f == IF customers[c].failed < LockAfter THEN customers[c].failed + 1
                    ELSE LockAfter
    <3>1. c \in Customers /\ proven' = proven
      BY <2>1 DEF RecordLogin, In, Typed, Referring, Refers, Holding, Accounts
    <3>2. customers' = [customers EXCEPT ![c].failed = f,
                                         ![c].locked = customers[c].locked \/ f = LockAfter]
      BY <2>1, <3>1 DEF RecordLogin, Typed, Shaped, CustomerRow
    <3> HIDE DEF f
    <3> QED BY <3>1, <3>2, SameContacts
  <2>2. CASE ClearLogin(q)
    <3>1. at[q].customer \in Customers /\ proven' = proven
      BY <2>2 DEF ClearLogin, In, Typed, Referring, Refers, Holding, Accounts
    <3> QED BY <2>2, <3>1, SameContacts DEF ClearLogin
  <2> QED BY <1>2, <2>1, <2>2, NoRowChanges DEF Login, FailLogin, PassLogin, accounts
<1>3. ASSUME NEW q \in Requests, VerifyOTP(q) PROVE RowsStand
  <2>1. CASE CreatePhone(q)
    BY <2>1, NoRowChanges, NewRowStands DEF CreatePhone
  <2>2. CASE MarkPhone(q)
    <3> DEFINE c == at[q].customer
               row == [customers[c] EXCEPT !.phone = at[q].phone, !.phoneVerified = TRUE]
    <3>1. c \in Customers /\ at[q].phone \in proven /\ proven' = proven
      BY <2>2 DEF MarkPhone, In, Shown, Claims, Typed, Referring, Refers, Holding, Accounts
    <3>2. /\ row.email = customers[c].email /\ row.emailVerified = customers[c].emailVerified
          /\ row.phone = at[q].phone
      BY <3>1 DEF Typed, Shaped, CustomerRow
    <3>3. customers' = customers \/ customers' = [customers EXCEPT ![c] = row]
      BY <2>2 DEF MarkPhone
    <3>4. (row.emailVerified => row.email \in proven')
          /\ (row.phoneVerified => row.phone \in proven')
      BY <3>1, <3>2 DEF Shown, Verified
    <3> HIDE DEF row
    <3> QED BY <3>1, <3>2, <3>3, <3>4, NoRowChanges, OneRowChanges
  <2> QED BY <1>3, <2>1, <2>2, NoRowChanges DEF VerifyOTP, FailCode, PassCode, RecordCode,
            ConsumeCode, FindPhone, accounts
<1>4. ASSUME NEW q \in Requests, OAuthCallback(q) PROVE RowsStand
  <2>1. CASE CreateProfile(q)
    BY <2>1, NoRowChanges, NewRowStands DEF CreateProfile
  <2>2. CASE MarkProfile(q)
    <3>1. /\ at[q].customer \in Customers /\ at[q].profile \in Vouched
          /\ customers[at[q].customer].email = EmailOf[at[q].profile]
      BY <2>2 DEF MarkProfile, In, Shown, Claims, Typed, Referring, Refers, Holding, Accounts
    <3> QED BY <2>2, <3>1, MarkedEmail DEF MarkProfile
  <2> QED BY <1>4, <2>1, <2>2, NoRowChanges DEF OAuthCallback, StartProfile, FindEmail,
            LinkProfile, accounts
<1>5. ASSUME NEW q \in Requests, UpdateProfile(q) PROVE RowsStand
  <2>1. CASE SaveProfile(q)
    <3>1. /\ at[q].customer \in Customers /\ proven' = proven
          /\ Verified(at[q].row) /\ at[q].row.email = customers[at[q].customer].email
      BY <2>1 DEF SaveProfile, In, Shown, Claims, Typed, Referring, Refers, Holding, Accounts
    <3>2. customers' = customers \/ customers' = [customers EXCEPT ![at[q].customer] = at[q].row]
      BY <2>1 DEF SaveProfile
    <3> QED BY <3>1, <3>2, NoRowChanges, OneRowChanges DEF Verified
  <2> QED BY <1>5, <2>1, NoRowChanges DEF UpdateProfile, ReadProfile, accounts
<1>6. ASSUME NEW c \in Customers, Unlock(c) PROVE RowsStand
  <2>1. customers' = [customers EXCEPT ![c].failed = customers[c].failed, ![c].locked = FALSE]
    BY <1>6 DEF Unlock, Typed, Shaped, CustomerRow
  <2> QED BY <1>6, <2>1, SameContacts DEF Unlock
<1>7. ASSUME NEW q \in Requests, Drop(q) PROVE RowsStand
  BY <1>7, NoRowChanges DEF Drop, accounts
<1>8. CASE Expire \/ Sweep \/ (\E p \in Phones : RequestOTP(p)) \/ UNCHANGED vars
  BY <1>8, NoRowChanges DEF Expire, Sweep, RequestOTP, vars, accounts
<1> QED BY <1>1, <1>2, <1>3, <1>4, <1>5, <1>6, <1>7, <1>8 DEF Next

\* A request that stays where it is claims what it claimed.
LEMMA ClaimsStand ==
  ASSUME Typed, Shown, RowsStand, NEW q \in Requests, at'[q] = at[q]
  PROVE  Claims(q)'
<1>1. Claims(q) /\ Refers(q)
  BY DEF Shown, Typed, Referring
<1>2. at[q].step \in Holding =>
        customers'[at[q].customer].email = customers[at[q].customer].email
  BY <1>1 DEF Refers, Accounts, RowsStand
<1>3. proven \subseteq proven'
  BY DEF RowsStand
<1> QED BY <1>1, <1>2, <1>3 DEF Claims, Verified, Holding

LEMMA StepClaims ==
  ASSUME Typed, Shown, [Next]_vars, NEW q \in Requests, Handles(q)
  PROVE  Claims(q)'
<1>0. RowsStand /\ Claims(q) /\ Refers(q) /\ DOMAIN at = Requests /\ DOMAIN at[q] = Fields
  BY StepRows DEF Shown, Typed, Shaped, Referring
<1>1. at'[q].step \in {"IDLE", "REGISTER", "SEND_LINK", "CONSUME_LINK", "RECORD_LOGIN",
                       "CLEAR_LOGIN", "RECORD_CODE", "CONSUME_CODE", "FIND_EMAIL",
                       "CREATE_PROFILE"} => Claims(q)'
  BY DEF Claims
<1>2. End(q) => at'[q].step = "IDLE"
  BY <1>0 DEF End, Idle
<1>3. CASE Registration(q)
  <2>1. CASE ConsumeLink(q)
    <3>1. at[q].step = "CONSUME_LINK" /\ at'[q] = [at[q] EXCEPT !.step = "MARK_EMAIL"]
      BY <1>0, <2>1 DEF ConsumeLink, In, Goto
    <3>2. at'[q].step = "MARK_EMAIL" /\ at'[q].customer = at[q].customer
      BY <1>0, <3>1 DEF Fields
    <3>3. /\ customers[at[q].customer].email \in proven'
          /\ customers'[at[q].customer].email = customers[at[q].customer].email
      BY <2>1 DEF ConsumeLink, accounts
    <3> QED BY <3>2, <3>3 DEF Claims
  <2>2. CASE Register(q)
    <3>1. at'[q].step \in {"IDLE", "SEND_LINK"}
      BY <1>0, <1>2, <2>2 DEF Register, Fields
    <3> QED BY <1>1, <3>1
  <2>3. CASE \/ \E e \in Emails : StartRegister(q, e)
             \/ \E l \in LinkIds : OpenLink(q, l)
             \/ SendLink(q) \/ MarkEmail(q)
    <3>1. at'[q].step \in {"IDLE", "REGISTER", "CONSUME_LINK"}
      <4>1. ASSUME NEW e \in Emails, StartRegister(q, e) PROVE at'[q].step = "REGISTER"
        BY <1>0, <4>1 DEF StartRegister, Idle
      <4>2. ASSUME NEW l \in LinkIds, OpenLink(q, l) PROVE at'[q].step = "CONSUME_LINK"
        BY <1>0, <4>2 DEF OpenLink, Idle
      <4> QED BY <1>2, <2>3, <4>1, <4>2 DEF SendLink, MarkEmail
    <3> QED BY <1>1, <3>1
  <2> QED BY <1>3, <2>1, <2>2, <2>3 DEF Registration
<1>4. CASE Login(q)
  <2>1. ASSUME NEW c \in Customers, FailLogin(q, c) PROVE at'[q].step = "RECORD_LOGIN"
    BY <1>0, <2>1 DEF FailLogin, Idle
  <2>2. ASSUME NEW c \in Customers, PassLogin(q, c) PROVE at'[q].step = "CLEAR_LOGIN"
    BY <1>0, <2>2 DEF PassLogin, Idle
  <2>3. CASE RecordLogin(q) \/ ClearLogin(q)
    BY <1>1, <1>2, <2>3 DEF RecordLogin, ClearLogin
  <2> QED BY <1>1, <1>4, <2>1, <2>2, <2>3 DEF Login
<1>5. CASE VerifyOTP(q)
  <2>1. ASSUME NEW p \in Phones, FailCode(q, p) PROVE at'[q].step = "RECORD_CODE"
    BY <1>0, <2>1 DEF FailCode, Idle
  <2>2. ASSUME NEW p \in Phones, NEW c \in Customers \cup {NoOne}, PassCode(q, p, c)
        PROVE  at'[q].step = "CONSUME_CODE"
    BY <1>0, <2>2 DEF PassCode, Idle
  <2>3. CASE RecordCode(q) \/ MarkPhone(q)
    BY <1>1, <1>2, <2>3 DEF RecordCode, MarkPhone
  <2>4. ASSUME at[q].phone \in proven', at'[q].phone = at[q].phone,
               at'[q].step \in {"FIND_PHONE", "CREATE_PHONE", "MARK_PHONE"}
        PROVE  Claims(q)'
    BY <2>4 DEF Claims
  <2>5. CASE ConsumeCode(q)
    <3>1. /\ at'[q].phone = at[q].phone /\ at'[q].step \in {"FIND_PHONE", "MARK_PHONE"}
          /\ at[q].phone \in proven'
      BY <1>0, <2>5 DEF ConsumeCode, Goto, Fields
    <3> QED BY <2>4, <3>1
  <2>6. CASE FindPhone(q)
    <3>1. at[q].phone \in proven'
      BY <1>0, <2>6 DEF FindPhone, In, Claims
    <3>2. at'[q].phone = at[q].phone /\ at'[q].step \in {"CREATE_PHONE", "MARK_PHONE"}
      BY <1>0, <2>6 DEF FindPhone, Goto, Fields
    <3> QED BY <2>4, <3>1, <3>2
  <2>7. CASE CreatePhone(q)
    <3>1. at[q].phone \in proven'
      BY <1>0, <2>7 DEF CreatePhone, In, Claims
    <3>2. \/ at'[q].phone = at[q].phone /\ at'[q].step = "MARK_PHONE"
          \/ at'[q].step = "IDLE"
      BY <1>0, <1>2, <2>7 DEF CreatePhone, Fields
    <3> QED BY <1>1, <2>4, <3>1, <3>2
  <2> QED BY <1>1, <1>5, <2>1, <2>2, <2>3, <2>5, <2>6, <2>7 DEF VerifyOTP
<1>6. CASE OAuthCallback(q)
  <2>1. ASSUME NEW g \in Profiles, StartProfile(q, g)
        PROVE  at'[q].step \in {"FIND_EMAIL", "CREATE_PROFILE"}
    BY <1>0, <2>1 DEF StartProfile, Idle
  <2>2. CASE FindEmail(q)
    <3> DEFINE g == at[q].profile
    <3>1. CASE at'[q].step \in {"IDLE", "CREATE_PROFILE"}
      BY <1>1, <3>1
    <3>2. ASSUME NEW c \in WithEmail(EmailOf[g]), MayLink(g, c),
                 at' = [at EXCEPT ![q].step = "LINK_FOUND", ![q].customer = c]
          PROVE  Claims(q)'
      <4>1. /\ at'[q].step = "LINK_FOUND" /\ at'[q].customer = c /\ at'[q].profile = g
        BY <1>0, <3>2 DEF Fields
      <4>2. customers'[c].email = EmailOf[g]
        BY <2>2 DEF FindEmail, WithEmail, accounts
      <4>3. g \in Vouched /\ EmailOf[g] \in proven'
        BY <1>0, <3>2 DEF MayLink, WithEmail, Shown, Verified, RowsStand
      <4> QED BY <4>1, <4>2, <4>3 DEF Claims
    <3>3. Goto(q, "CREATE_PROFILE") => at'[q].step = "CREATE_PROFILE"
      BY <1>0 DEF Goto, Fields
    <3> QED BY <1>2, <2>2, <3>1, <3>2, <3>3 DEF FindEmail
  <2>3. CASE CreateProfile(q)
    <3> DEFINE g == at[q].profile
               row == NewCustomer(EmailOf[g], NoPhone, FALSE)
    <3>1. ASSUME NEW c \in Customers, Insert(c, row),
                 at' = [at EXCEPT ![q].step = AfterCreate(g), ![q].customer = c]
          PROVE  Claims(q)'
      <4>1. /\ at'[q].step = AfterCreate(g) /\ at'[q].customer = c /\ at'[q].profile = g
        BY <1>0, <3>1 DEF Fields
      <4>2. customers'[c] = row
        BY <3>1 DEF Insert, Typed, Shaped
      <4>3. row.email = EmailOf[g]
        BY DEF NewCustomer, NoCustomer
      <4>4. \/ AfterCreate(g) = "LINK_CREATED"
            \/ AfterCreate(g) = "MARK_PROFILE" /\ g \in Vouched
        BY DEF AfterCreate
      <4> HIDE DEF row, g
      <4> QED BY <4>1, <4>2, <4>3, <4>4 DEF Claims
    <3> QED BY <1>1, <1>2, <2>3, <3>1 DEF CreateProfile
  <2>4. CASE MarkProfile(q)
    <3> DEFINE c == at[q].customer
    <3>1. c \in Accounts /\ customers[c].email = EmailOf[at[q].profile]
      BY <1>0, <2>4 DEF MarkProfile, In, Claims, Refers, Holding
    <3>2. customers'[c].email = customers[c].email
      BY <1>0, <3>1 DEF RowsStand, Accounts
    <3>3. /\ at'[q].step = "LINK_CREATED" /\ at'[q].customer = c
          /\ at'[q].profile = at[q].profile
      BY <1>0, <2>4 DEF MarkProfile, Goto, Fields
    <3> QED BY <3>1, <3>2, <3>3 DEF Claims
  <2>5. CASE LinkProfile(q)
    BY <1>1, <1>2, <2>5 DEF LinkProfile
  <2> QED BY <1>1, <1>6, <2>1, <2>2, <2>3, <2>4, <2>5 DEF OAuthCallback
<1>7. CASE UpdateProfile(q) \/ Drop(q)
  <2>1. ASSUME NEW c \in Customers, ReadProfile(q, c) PROVE Claims(q)'
    <3>1. /\ at'[q].step = "SAVE_PROFILE" /\ at'[q].customer = c /\ at'[q].row = customers[c]
      BY <1>0, <2>1 DEF ReadProfile, Idle
    <3>2. UNCHANGED <<customers, proven>> /\ Verified(customers[c])
      BY <2>1 DEF ReadProfile, accounts, Shown
    <3> QED BY <3>1, <3>2 DEF Claims, Verified
  <2> QED BY <1>1, <1>2, <1>7, <2>1 DEF UpdateProfile, SaveProfile, Drop
<1> QED BY <1>3, <1>4, <1>5, <1>6, <1>7 DEF Handles

LEMMA StepShown == Typed /\ Shown /\ [Next]_vars => Shown'
<1> SUFFICES ASSUME Typed, Shown, [Next]_vars PROVE Shown'
  OBVIOUS
<1>1. RowsStand
  BY StepRows
<1>2. ASSUME NEW r \in Requests PROVE Claims(r)'
  <2>1. ASSUME NEW q \in Requests, Handles(q) PROVE Claims(r)'
    <3>1. r = q \/ at'[r] = at[r]
      BY <2>1, StepKeeps DEF Keeps
    <3> QED BY <1>1, <2>1, <3>1, StepClaims, ClaimsStand
  <2>2. (\E q \in Requests : Handles(q)) \/ at' = at
    BY DEF Next, Handles, RequestOTP, Unlock, Expire, Sweep, vars
  <2> QED BY <1>1, <2>1, <2>2, ClaimsStand
<1>3. ASSUME NEW g \in Profiles PROVE Linked(g)'
  <2>1. CASE profileOf'[g] = profileOf[g] /\ linkedBy'[g] = linkedBy[g]
    <3>1. Linked(g) /\ Accounts \subseteq Accounts'
      BY StepCustomers DEF Shown, Accounts, CustomersStay
    <3> QED BY <1>1, <2>1, <3>1 DEF Linked, RowsStand, Accounts
  <2>2. CASE \E q \in Requests : LinkProfile(q)
    <3>1. PICK q \in Requests : LinkProfile(q)
      BY <2>2
    <3> DEFINE c == at[q].customer
    <3>2. /\ c \in Accounts /\ customers[c].email = EmailOf[at[q].profile]
          /\ UNCHANGED <<customers, proven>>
          /\ at[q].step = "LINK_FOUND" =>
               at[q].profile \in Vouched /\ EmailOf[at[q].profile] \in proven
      BY <3>1 DEF LinkProfile, In, Shown, Claims, Typed, Referring, Refers, Holding
    <3>3. CASE g = at[q].profile /\ profileOf[g] = NoOne
      <4>1. profileOf'[g] = c /\ linkedBy'[g] = at[q].step
        BY <3>1, <3>3 DEF LinkProfile, LinkIdentity, Typed, Shaped
      <4> QED BY <3>2, <3>3, <4>1 DEF Linked, Accounts
    <3>4. CASE ~(g = at[q].profile /\ profileOf[g] = NoOne)
      <4>1. profileOf'[g] = profileOf[g] /\ linkedBy'[g] = linkedBy[g]
        BY <3>1, <3>4 DEF LinkProfile, LinkIdentity, Typed, Shaped
      <4> QED BY <2>1, <4>1
    <3> QED BY <3>3, <3>4
  <2>3. UNCHANGED <<profileOf, linkedBy>> \/ \E q \in Requests : LinkProfile(q)
    <3>1. ASSUME NEW q \in Requests, Registration(q) \/ Login(q) PROVE UNCHANGED <<profileOf, linkedBy>>
      BY <3>1 DEF Registration, StartRegister, Register, SendLink, OpenLink, ConsumeLink,
         MarkEmail, Login, FailLogin, PassLogin, RecordLogin, ClearLogin, accounts
    <3>2. ASSUME NEW q \in Requests, VerifyOTP(q) PROVE UNCHANGED <<profileOf, linkedBy>>
      BY <3>2 DEF VerifyOTP, FailCode, PassCode, RecordCode, ConsumeCode, FindPhone,
         CreatePhone, MarkPhone, accounts
    <3>3. ASSUME NEW q \in Requests, OAuthCallback(q)
          PROVE  UNCHANGED <<profileOf, linkedBy>> \/ LinkProfile(q)
      BY <3>3 DEF OAuthCallback, StartProfile, FindEmail, CreateProfile, MarkProfile, accounts
    <3>4. ASSUME NEW q \in Requests, UpdateProfile(q) \/ Drop(q)
          PROVE  UNCHANGED <<profileOf, linkedBy>>
      BY <3>4 DEF UpdateProfile, ReadProfile, SaveProfile, Drop, accounts
    <3>5. ASSUME \/ \E p \in Phones : RequestOTP(p)
                 \/ \E c \in Customers : Unlock(c)
                 \/ Expire \/ Sweep \/ UNCHANGED vars
          PROVE  UNCHANGED <<profileOf, linkedBy>>
      BY <3>5 DEF RequestOTP, Unlock, Expire, Sweep, vars, accounts
    <3> QED BY <3>1, <3>2, <3>3, <3>4, <3>5 DEF Next
  <2> QED BY <2>1, <2>2, <2>3
<1> QED BY <1>1, <1>2, <1>3 DEF Shown, RowsStand

\* No interleaving of registrations, codes, providers and profile pages, wherever each of
\* them stops, marks an address or a phone verified that nobody has proved to hold.
THEOREM VerifiedWasProven == Spec => []VerifiedIsProven
<1>1. Shown => VerifiedIsProven
  BY DEF Shown, Verified, VerifiedIsProven, Accounts
<1> QED BY <1>1, InitTyped, InitShown, StepTyped, StepShown, PTL DEF Spec

\* Nor links a provider's account to a customer of another address, or to one it found
\* there unless both the provider and the customer had verified the address.
THEOREM LinksWereVerified == Spec => []LinkedOnVerified
<1>1. Shown => LinkedOnVerified
  BY DEF Shown, Linked, LinkedOnVerified
<1> QED BY <1>1, InitTyped, InitShown, StepTyped, StepShown, PTL DEF Spec

=============================================================================
