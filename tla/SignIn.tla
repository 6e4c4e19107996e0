------------------------------- MODULE SignIn -------------------------------
(***************************************************************************)
(* How a customer comes to be signed in: registration and the emailed      *)
(* link, the password and its lockout, the one-time code sent to a phone,  *)
(* the providers Google and Instagram, and the profile page, which writes  *)
(* the same row (authsvc, the repositories CustomerRepo and TokenRepo).    *)
(*                                                                         *)
(* Nothing here runs in a transaction that spans two statements, except    *)
(* the consumption of a link, which takes no lock: every read, INSERT and  *)
(* UPDATE is a step of its own, requests interleave between them, and a    *)
(* request can end after any of them (the client hangs up, the process     *)
(* dies).  Durations are left out: a code, a link or a lock may run out at *)
(* any time.                                                               *)
(***************************************************************************)
EXTENDS Integers, FiniteSets

CONSTANTS
  Requests,      \* requests in flight; a slot is used again when it is done
  Customers,     \* the primary keys that rows of customers may get
  Emails, Phones,
  Profiles,      \* accounts at a provider, customer_identities' other key
  EmailOf,       \* EmailOf[g]: the address the provider tells, or NoEmail
  Vouched,       \* the profiles whose address the provider says is verified
  NoOne, NoEmail, NoPhone, NoProfile,
  MaxCodes,      \* one-time codes ever sent
  MaxLinks,      \* links ever sent
  MaxAttempts,   \* auth.otp_max_attempts
  LockAfter,     \* failed passwords before a lock; the code says 8
  MaxLosses      \* requests that end before recording a failure

ASSUME SignInAssumption ==
  /\ EmailOf \in [Profiles -> Emails \cup {NoEmail}]
  /\ Vouched \subseteq {g \in Profiles : EmailOf[g] # NoEmail}
  /\ NoOne \notin Customers /\ NoEmail \notin Emails
  /\ NoPhone \notin Phones /\ NoProfile \notin Profiles
  /\ {MaxCodes, MaxLinks, MaxLosses} \subseteq Nat
  /\ {MaxAttempts, LockAfter} \subseteq Nat \ {0}
  /\ IsFiniteSet(Requests) /\ Requests # {}

VARIABLES
  customers,   \* table customers
  profileOf,   \* table customer_identities: whose each provider account is
  codes,       \* table otp_codes, in the order of created_at
  links,       \* table verification_tokens
  at,          \* where each request stands and what it has read
  guesses,     \* how often each code was compared with a wrong one
  lost,        \* failures that were never recorded
  tries,       \* wrong passwords since the counter was last started anew
  uses,        \* how often each code was consumed
  proven,      \* the emails and phones that somebody has proved to hold
  linkedBy     \* what each provider account was linked on

accounts == <<customers, profileOf, linkedBy>>
tokens == <<codes, links>>
counts == <<guesses, tries, uses, lost>>

vars == <<accounts, tokens, counts, at, proven>>

CodeIds == 1 .. MaxCodes
LinkIds == 1 .. MaxLinks

\* A row of customers.  there = FALSE: the key is not used yet.
CustomerRow ==
  [there : BOOLEAN, email : Emails \cup {NoEmail}, emailVerified : BOOLEAN,
   phone : Phones \cup {NoPhone}, phoneVerified : BOOLEAN,
   password : BOOLEAN, failed : Nat, locked : BOOLEAN]

NoCustomer ==
  [there |-> FALSE, email |-> NoEmail, emailVerified |-> FALSE,
   phone |-> NoPhone, phoneVerified |-> FALSE,
   password |-> FALSE, failed |-> 0, locked |-> FALSE]

NewCustomer(email, phone, password) ==
  [NoCustomer EXCEPT !.there = TRUE, !.email = email, !.phone = phone,
                     !.password = password]

\* A row of otp_codes; sent: the phone's holder was told the six digits.
CodeRow == [phone : Phones \cup {NoPhone}, sent : BOOLEAN, attempts : Nat,
            consumed : BOOLEAN, expired : BOOLEAN]

NoCode == [phone |-> NoPhone, sent |-> FALSE, attempts |-> 0,
           consumed |-> FALSE, expired |-> FALSE]

\* A row of verification_tokens.
LinkRow == [customer : Customers \cup {NoOne}, sent : BOOLEAN,
            consumed : BOOLEAN, expired : BOOLEAN]

NoLink == [customer |-> NoOne, sent |-> FALSE, consumed |-> FALSE, expired |-> FALSE]

Steps == {"IDLE", "REGISTER", "SEND_LINK", "CONSUME_LINK", "MARK_EMAIL",
          "RECORD_LOGIN", "CLEAR_LOGIN", "RECORD_CODE", "CONSUME_CODE", "FIND_PHONE",
          "CREATE_PHONE", "MARK_PHONE", "FIND_EMAIL", "CREATE_PROFILE",
          "MARK_PROFILE", "LINK_CREATED", "LINK_FOUND", "SAVE_PROFILE"}

\* What a request holds between two statements.
Idle == [step |-> "IDLE", customer |-> NoOne, email |-> NoEmail, phone |-> NoPhone,
         id |-> 0, profile |-> NoProfile, row |-> NoCustomer]

Init == /\ customers = [c \in Customers |-> NoCustomer]
        /\ profileOf = [g \in Profiles |-> NoOne]
        /\ codes = [o \in CodeIds |-> NoCode]
        /\ links = [l \in LinkIds |-> NoLink]
        /\ at = [q \in Requests |-> Idle]
        /\ guesses = [o \in CodeIds |-> 0]
        /\ tries = [c \in Customers |-> 0]
        /\ uses = [o \in CodeIds |-> 0]
        /\ lost = 0
        /\ proven = {}
        /\ linkedBy = [g \in Profiles |-> "NOTHING"]

\* CustomerRepo.ByEmail and ByPhone: at most one, email and phone are UNIQUE.
WithEmail(e) == {c \in Customers : customers[c].there /\ customers[c].email = e}
WithPhone(p) == {c \in Customers : customers[c].there /\ customers[c].phone = p}

Accounts == {c \in Customers : customers[c].there}

In(q, step) == at[q].step = step

Goto(q, step) == at' = [at EXCEPT ![q].step = step]

End(q) == at' = [at EXCEPT ![q] = Idle]

-----------------------------------------------------------------------------
(* Statements on the tables.                                               *)

\* CustomerRepo.Create: any unused key, unless email or phone are taken.
Insert(c, row) ==
  /\ ~customers[c].there
  /\ row.email = NoEmail \/ WithEmail(row.email) = {}
  /\ row.phone = NoPhone \/ WithPhone(row.phone) = {}
  /\ customers' = [customers EXCEPT ![c] = row]

Refused(row) == \/ row.email # NoEmail /\ WithEmail(row.email) # {}
                \/ row.phone # NoPhone /\ WithPhone(row.phone) # {}

\* LinkIdentity of a provider account: ON CONFLICT the row keeps its customer.
LinkIdentity(g, c, on) ==
  IF profileOf[g] # NoOne THEN UNCHANGED <<profileOf, linkedBy>>
  ELSE /\ profileOf' = [profileOf EXCEPT ![g] = c]
       /\ linkedBy' = [linkedBy EXCEPT ![g] = on]

-----------------------------------------------------------------------------
(* Register, and VerifyEmail from the link.                                *)

\* An address that has an account is answered the same, and nothing more.
StartRegister(q, e) ==
  /\ In(q, "IDLE")
  /\ WithEmail(e) = {}
  /\ at' = [at EXCEPT ![q] = [Idle EXCEPT !.step = "REGISTER", !.email = e]]
  /\ UNCHANGED <<accounts, tokens, counts, proven>>

\* The password's own row of customer_identities, which nothing reads, is left
\* out.
Register(q) ==
  LET row == NewCustomer(at[q].email, NoPhone, TRUE) IN
  /\ In(q, "REGISTER")
  /\ \/ \E c \in Customers :
          /\ Insert(c, row)
          /\ at' = [at EXCEPT ![q].step = "SEND_LINK", ![q].customer = c]
     \/ Refused(row) /\ End(q) /\ UNCHANGED customers
  /\ UNCHANGED <<tokens, counts, profileOf, proven, linkedBy>>

\* CreateVerification, then the mail, which may fail.
SendLink(q) ==
  /\ In(q, "SEND_LINK")
  /\ \E l \in LinkIds, sent \in BOOLEAN :
       /\ links[l] = NoLink
       /\ links' = [links EXCEPT ![l] = [NoLink EXCEPT !.customer = at[q].customer,
                                                       !.sent = sent]]
  /\ End(q)
  /\ UNCHANGED <<accounts, counts, codes, proven>>

\* ConsumeVerification's SELECT, which takes no lock.
OpenLink(q, l) ==
  /\ In(q, "IDLE")
  /\ links[l].sent /\ ~links[l].consumed /\ ~links[l].expired
  /\ at' = [at EXCEPT ![q] = [Idle EXCEPT !.step = "CONSUME_LINK", !.id = l,
                                          !.customer = links[l].customer]]
  /\ UNCHANGED <<accounts, tokens, counts, proven>>

ConsumeLink(q) ==
  /\ In(q, "CONSUME_LINK")
  /\ links' = IF links[at[q].id].customer = NoOne THEN links
              ELSE [links EXCEPT ![at[q].id].consumed = TRUE]
  /\ proven' = proven \cup {customers[at[q].customer].email}
  /\ Goto(q, "MARK_EMAIL")
  /\ UNCHANGED <<accounts, counts, codes>>

\* MarkEmailVerified.
MarkEmail(q) ==
  /\ In(q, "MARK_EMAIL")
  /\ customers' = [customers EXCEPT ![at[q].customer].emailVerified = TRUE]
  /\ End(q)
  /\ UNCHANGED <<tokens, counts, profileOf, proven, linkedBy>>

-----------------------------------------------------------------------------
(* Login with email and password.  The stored hash never changes, so the   *)
(* row that was read and the comparison are one step.                      *)

\* Mutant: the lock is written and never read.
MayTryLocked(c) == customers[c].emailVerified

MayTry(c) == customers[c].emailVerified /\ ~customers[c].locked

\* A wrong password, or any for an account that has none.
FailLogin(q, c) ==
  /\ In(q, "IDLE")
  /\ c \in Accounts /\ customers[c].email # NoEmail /\ MayTry(c)
  /\ at' = [at EXCEPT ![q] = [Idle EXCEPT !.step = "RECORD_LOGIN", !.customer = c]]
  /\ tries' = [tries EXCEPT ![c] = @ + 1]
  /\ UNCHANGED <<accounts, tokens, guesses, uses, lost, proven>>

\* RecordFailedLogin, one UPDATE: the counter cannot lose an increment.  It is
\* not counted beyond LockAfter, where every failure locks again.
RecordLogin(q) ==
  LET c == at[q].customer
      failed == IF customers[c].failed < LockAfter THEN customers[c].failed + 1
                ELSE LockAfter IN
  /\ In(q, "RECORD_LOGIN")
  /\ customers' = [customers EXCEPT ![c].failed = failed,
                                    ![c].locked = @ \/ failed = LockAfter]
  /\ End(q)
  /\ UNCHANGED <<tokens, counts, profileOf, proven, linkedBy>>

PassLogin(q, c) ==
  /\ In(q, "IDLE")
  /\ c \in Accounts /\ customers[c].password /\ MayTry(c)
  /\ at' = [at EXCEPT ![q] = [Idle EXCEPT !.step = "CLEAR_LOGIN", !.customer = c]]
  /\ UNCHANGED <<accounts, tokens, counts, proven>>

\* ClearFailedLogins; its failure is ignored, as if the request ended before it.
ClearLogin(q) ==
  LET c == at[q].customer IN
  /\ In(q, "CLEAR_LOGIN")
  /\ customers' = [customers EXCEPT ![c].failed = 0, ![c].locked = FALSE]
  /\ End(q)
  /\ tries' = [tries EXCEPT ![c] = 0]
  /\ UNCHANGED <<tokens, profileOf, guesses, uses, lost, proven, linkedBy>>

-----------------------------------------------------------------------------
(* RequestOTP and VerifyOTP.                                               *)

\* CreateOTP, and the message to the phone, which may not be queued.
RequestOTP(p) ==
  \E o \in CodeIds, sent \in BOOLEAN :
    /\ codes[o] = NoCode
    /\ \A older \in CodeIds : older < o => codes[older] # NoCode
    /\ codes' = [codes EXCEPT ![o] = [NoCode EXCEPT !.phone = p, !.sent = sent]]
    /\ UNCHANGED <<accounts, counts, links, at, proven>>

\* Mutant: a consumed code is still found.
LiveConsumed(p) == {o \in CodeIds : codes[o].phone = p}

Live(p) == {o \in CodeIds : codes[o].phone = p /\ ~codes[o].consumed}

\* LatestOTP.
Latest(p) == {o \in Live(p) : \A newer \in Live(p) : newer <= o}

\* Mutant: the limit is passed by one.
UsableOnceMore(o) == ~codes[o].expired /\ codes[o].attempts <= MaxAttempts

\* What CheckOTP asks before it compares the code.
Usable(o) == ~codes[o].expired /\ codes[o].attempts < MaxAttempts

\* Presented and not accepted.  Attempts on a code that is already dead are
\* recorded too; they are left out where they change nothing more.
FailCode(q, p) ==
  \E o \in Latest(p) :
    /\ In(q, "IDLE")
    /\ IF Usable(o) THEN guesses' = [guesses EXCEPT ![o] = @ + 1]
       ELSE codes[o].attempts <= MaxAttempts /\ UNCHANGED guesses
    /\ at' = [at EXCEPT ![q] = [Idle EXCEPT !.step = "RECORD_CODE", !.id = o]]
    /\ UNCHANGED <<accounts, tokens, tries, uses, lost, proven>>

\* RecordOTPAttempt, one UPDATE, of nothing when the row was swept.
RecordCode(q) ==
  LET o == at[q].id IN
  /\ In(q, "RECORD_CODE")
  /\ codes' = IF codes[o].phone = NoPhone THEN codes
              ELSE [codes EXCEPT ![o].attempts = @ + 1]
  /\ End(q)
  /\ UNCHANGED <<accounts, counts, links, proven>>

\* The right code, by a signed-in customer or by nobody yet.
PassCode(q, p, existing) ==
  \E o \in Latest(p) :
    /\ In(q, "IDLE")
    /\ existing \in Accounts \cup {NoOne}
    /\ codes[o].sent /\ Usable(o)
    /\ at' = [at EXCEPT ![q] = [Idle EXCEPT !.step = "CONSUME_CODE", !.id = o,
                                            !.phone = p, !.customer = existing]]
    /\ UNCHANGED <<accounts, tokens, counts, proven>>

\* ConsumeOTP; how many rows it changed is not asked.
ConsumeCode(q) ==
  LET o == at[q].id IN
  /\ In(q, "CONSUME_CODE")
  /\ codes' = IF codes[o].phone = NoPhone THEN codes
              ELSE [codes EXCEPT ![o].consumed = TRUE]
  /\ uses' = [uses EXCEPT ![o] = @ + 1]
  /\ proven' = proven \cup {at[q].phone}
  /\ Goto(q, IF at[q].customer = NoOne THEN "FIND_PHONE" ELSE "MARK_PHONE")
  /\ UNCHANGED <<accounts, links, guesses, tries, lost>>

FindPhone(q) ==
  LET found == WithPhone(at[q].phone) IN
  /\ In(q, "FIND_PHONE")
  /\ \/ \E c \in found : at' = [at EXCEPT ![q].step = "MARK_PHONE", ![q].customer = c]
     \/ found = {} /\ Goto(q, "CREATE_PHONE")
  /\ UNCHANGED <<accounts, tokens, counts, proven>>

CreatePhone(q) ==
  LET row == NewCustomer(NoEmail, at[q].phone, FALSE) IN
  /\ In(q, "CREATE_PHONE")
  /\ \/ \E c \in Customers :
          /\ Insert(c, row)
          /\ at' = [at EXCEPT ![q].step = "MARK_PHONE", ![q].customer = c]
     \/ Refused(row) /\ End(q) /\ UNCHANGED customers
  /\ UNCHANGED <<tokens, counts, profileOf, proven, linkedBy>>

\* MarkPhoneVerified: UNIQUE refuses a phone that is another customer's.  The
\* phone's own row of customer_identities, which nothing reads, is left out.
MarkPhone(q) ==
  LET c == at[q].customer
      p == at[q].phone IN
  /\ In(q, "MARK_PHONE")
  /\ customers' = IF WithPhone(p) \subseteq {c}
                  THEN [customers EXCEPT ![c].phone = p, ![c].phoneVerified = TRUE]
                  ELSE customers
  /\ End(q)
  /\ UNCHANGED <<tokens, counts, profileOf, proven, linkedBy>>

-----------------------------------------------------------------------------
(* OAuthCallback.                                                          *)

\* ByIdentity finds nobody; one that is known signs in and changes nothing.
StartProfile(q, g) ==
  /\ In(q, "IDLE")
  /\ profileOf[g] = NoOne
  /\ at' = [at EXCEPT ![q] = [Idle EXCEPT !.profile = g,
       !.step = IF EmailOf[g] = NoEmail THEN "CREATE_PROFILE" ELSE "FIND_EMAIL"]]
  /\ UNCHANGED <<accounts, tokens, counts, proven>>

\* Mutant: the account's own verification is not asked.
LinkOnProvidersWord(g, c) == g \in Vouched

\* DecideLink, for a profile whose address an account has.
MayLink(g, c) == g \in Vouched /\ customers[c].emailVerified

FindEmail(q) ==
  LET g == at[q].profile
      found == WithEmail(EmailOf[g]) IN
  /\ In(q, "FIND_EMAIL")
  /\ \/ \E c \in found :
          /\ MayLink(g, c)
          /\ at' = [at EXCEPT ![q].step = "LINK_FOUND", ![q].customer = c]
     \/ (\E c \in found : ~MayLink(g, c)) /\ End(q)
     \/ found = {} /\ Goto(q, "CREATE_PROFILE")
  /\ UNCHANGED <<accounts, tokens, counts, proven>>

\* Mutant: every new account's address counts as verified.
AfterCreateMarked(g) == "MARK_PROFILE"

AfterCreate(g) == IF g \in Vouched THEN "MARK_PROFILE" ELSE "LINK_CREATED"

CreateProfile(q) ==
  LET g == at[q].profile
      row == NewCustomer(EmailOf[g], NoPhone, FALSE) IN
  /\ In(q, "CREATE_PROFILE")
  /\ \/ \E c \in Customers :
          /\ Insert(c, row)
          /\ at' = [at EXCEPT ![q].step = AfterCreate(g), ![q].customer = c]
     \/ Refused(row) /\ End(q) /\ UNCHANGED customers
  /\ UNCHANGED <<tokens, counts, profileOf, proven, linkedBy>>

\* MarkEmailVerified, on the provider's word.
MarkProfile(q) ==
  LET g == at[q].profile IN
  /\ In(q, "MARK_PROFILE")
  /\ customers' = [customers EXCEPT ![at[q].customer].emailVerified = TRUE]
  /\ proven' = IF g \in Vouched THEN proven \cup {EmailOf[g]} ELSE proven
  /\ Goto(q, "LINK_CREATED")
  /\ UNCHANGED <<tokens, counts, profileOf, linkedBy>>

LinkProfile(q) ==
  /\ In(q, "LINK_FOUND") \/ In(q, "LINK_CREATED")
  /\ LinkIdentity(at[q].profile, at[q].customer, at[q].step)
  /\ End(q)
  /\ UNCHANGED <<tokens, counts, customers, proven>>

-----------------------------------------------------------------------------
(* UpdateProfile reads the whole row and saves the whole row.              *)

ReadProfile(q, c) ==
  /\ In(q, "IDLE")
  /\ c \in Accounts
  /\ at' = [at EXCEPT ![q] = [Idle EXCEPT !.step = "SAVE_PROFILE", !.customer = c,
                                          !.row = customers[c]]]
  /\ UNCHANGED <<accounts, tokens, counts, proven>>

SaveProfile(q) ==
  LET c == at[q].customer
      row == at[q].row IN
  /\ In(q, "SAVE_PROFILE")
  /\ IF row.phone = NoPhone \/ WithPhone(row.phone) \subseteq {c}
     THEN /\ customers' = [customers EXCEPT ![c] = row]
          /\ tries' = [tries EXCEPT ![c] = 0]
     ELSE UNCHANGED <<customers, tries>>
  /\ End(q)
  /\ UNCHANGED <<tokens, profileOf, guesses, uses, lost, proven, linkedBy>>

-----------------------------------------------------------------------------
(* Requests that end, time, and the worker.                                *)

\* The client hangs up or the process dies, or a statement fails: what was
\* done stays done.
Drop(q) ==
  /\ ~In(q, "IDLE")
  /\ IF In(q, "RECORD_CODE") \/ In(q, "RECORD_LOGIN") THEN lost < MaxLosses /\ lost' = lost + 1
     ELSE UNCHANGED lost
  /\ End(q)
  /\ UNCHANGED <<accounts, tokens, guesses, tries, uses, proven>>

Expire ==
  /\ \/ \E o \in CodeIds :
          /\ codes[o] # NoCode /\ ~codes[o].expired
          /\ codes' = [codes EXCEPT ![o].expired = TRUE]
          /\ UNCHANGED links
     \/ \E l \in LinkIds :
          /\ links[l] # NoLink /\ ~links[l].expired
          /\ links' = [links EXCEPT ![l].expired = TRUE]
          /\ UNCHANGED codes
  /\ UNCHANGED <<accounts, counts, at, proven>>

\* TokenRepo.SweepExpired, by the worker: the rows are gone.
Sweep ==
  /\ codes' = [o \in CodeIds |-> IF codes[o].expired THEN [NoCode EXCEPT !.expired = TRUE]
                                 ELSE codes[o]]
  /\ links' = [l \in LinkIds |-> IF links[l].expired THEN [NoLink EXCEPT !.expired = TRUE]
                                 ELSE links[l]]
  /\ UNCHANGED <<accounts, counts, at, proven>>

\* locked_until passes; the counter stays.
Unlock(c) ==
  /\ customers[c].locked
  /\ customers' = [customers EXCEPT ![c].locked = FALSE]
  /\ tries' = [tries EXCEPT ![c] = 0]
  /\ UNCHANGED <<tokens, profileOf, at, guesses, uses, lost, proven, linkedBy>>

-----------------------------------------------------------------------------
Registration(q) ==
  \/ \E e \in Emails : StartRegister(q, e)
  \/ Register(q) \/ SendLink(q)
  \/ \E l \in LinkIds : OpenLink(q, l)
  \/ ConsumeLink(q) \/ MarkEmail(q)

Login(q) ==
  \/ \E c \in Customers : FailLogin(q, c) \/ PassLogin(q, c)
  \/ RecordLogin(q) \/ ClearLogin(q)

VerifyOTP(q) ==
  \/ \E p \in Phones : FailCode(q, p)
  \/ \E p \in Phones, c \in Customers \cup {NoOne} : PassCode(q, p, c)
  \/ RecordCode(q) \/ ConsumeCode(q) \/ FindPhone(q) \/ CreatePhone(q)
  \/ MarkPhone(q)

OAuthCallback(q) ==
  \/ \E g \in Profiles : StartProfile(q, g)
  \/ FindEmail(q) \/ CreateProfile(q) \/ MarkProfile(q) \/ LinkProfile(q)

UpdateProfile(q) == (\E c \in Customers : ReadProfile(q, c)) \/ SaveProfile(q)

Next ==
  \/ \E q \in Requests : \/ Registration(q) \/ Login(q) \/ VerifyOTP(q)
                         \/ OAuthCallback(q) \/ UpdateProfile(q) \/ Drop(q)
  \/ \E p \in Phones : RequestOTP(p)
  \/ \E c \in Customers : Unlock(c)
  \/ Expire \/ Sweep

Spec == Init /\ [][Next]_vars

-----------------------------------------------------------------------------
(* What it promises.                                                       *)

TypeOK ==
  /\ customers \in [Customers -> CustomerRow]
  /\ profileOf \in [Profiles -> Customers \cup {NoOne}]
  /\ codes \in [CodeIds -> CodeRow]
  /\ links \in [LinkIds -> LinkRow]
  /\ at \in [Requests ->
       [step : Steps, customer : Customers \cup {NoOne}, email : Emails \cup {NoEmail},
        phone : Phones \cup {NoPhone}, id : Nat, profile : Profiles \cup {NoProfile},
        row : CustomerRow]]
  /\ guesses \in [CodeIds -> Nat]
  /\ tries \in [Customers -> Nat]
  /\ uses \in [CodeIds -> Nat]
  /\ lost \in Nat
  /\ proven \subseteq Emails \cup Phones
  /\ linkedBy \in [Profiles -> {"NOTHING", "LINK_CREATED", "LINK_FOUND"}]

\* A code is compared with no more wrong ones than the attempts it has and the
\* requests that read it at once, plus those whose attempt was never recorded:
\* Service.VerifyOTP drops that error, and a client that hangs up causes it
\* (BR-2.7.5, "attempt-capped"; authsvc.go:223).
GuessesBounded ==
  \A o \in CodeIds : guesses[o] <= MaxAttempts + Cardinality(Requests) - 1 + lost

\* The same of an account's password, between a success, the end of a lock and a
\* saved profile: UpdateProfile writes the whole row back and with it the counter
\* and the lock of an earlier moment (authsvc.go:171).
TriesBounded ==
  \A c \in Customers : tries[c] <= LockAfter + Cardinality(Requests) - 1 + lost

\* A code signs in nobody but the requests that had read it before it was first
\* consumed: ConsumeOTP's WHERE takes no second one, and its caller does not ask
\* whether it took one (identity.go:356-361).
UsesBounded ==
  \A o \in CodeIds : uses[o] <= Cardinality(Requests)

\* An address or a phone is marked verified for a customer only when somebody has
\* proved to hold it, whatever stale row a profile page writes back and wherever
\* a request stops (BR-2.7.2, BR-2.7.4).
VerifiedIsProven ==
  \A c \in Accounts :
    /\ customers[c].emailVerified => customers[c].email \in proven
    /\ customers[c].phoneVerified => customers[c].phone \in proven

\* A provider account belongs to a customer of its own address, and to one it did
\* not create only when the provider vouches for the address and the customer had
\* proved to hold it (BR-2.7.3).
LinkedOnVerified ==
  \A g \in Profiles :
    profileOf[g] # NoOne =>
      /\ customers[profileOf[g]].email = EmailOf[g]
      /\ linkedBy[g] = "LINK_FOUND" => g \in Vouched /\ EmailOf[g] \in proven
=============================================================================
