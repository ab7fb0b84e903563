---------------------------- MODULE OneTimeCodes ----------------------------
(* One-time codes and the accounts they open: AuthService (log in by phone, *)
(* by e-mail, with Google), UsersService (verify a phone or an e-mail of an *)
(* account) and the hourly clean-up.  Codes are rows of OtpLog; failed      *)
(* guesses are counted in the row and, beside it, in Redis.                 *)
(*                                                                          *)
(* A contact is a phone number or an e-mail address; its kind decides the   *)
(* OtpType of its codes.  BOUND: MaxCodes codes are ever sent.              *)
EXTENDS Integers, Sequences, FiniteSets, FiniteSetsExt

CONSTANTS
  Users,         \* ids of User rows
  Phones, Mails, \* the contacts
  Callers,       \* requests and jobs in flight: BOUND on concurrency
  GuessLimit,    \* 5 in the code: failed guesses per code, and per hour
  SendLimit,     \* 5 in the code: codes per contact and hour
  MaxCodes,      \* BOUND on the codes sent
  CodeOps,       \* the endpoints that are exercised, "time" if it passes
  Nobody         \* the null id

Contacts == Phones \cup Mails
Kind(c) == IF c \in Phones THEN "phone" ELSE "email"

ASSUME CodesAssumption ==
  /\ Phones \cap Mails = {}
  /\ Nobody \notin Users \cup Contacts
  /\ GuessLimit \in Nat \ {0}
  /\ SendLimit \in Nat \ {0}
  /\ MaxCodes \in Nat
  /\ IsFiniteSet(Callers)

VARIABLES
  otps,      \* the OtpLog rows, in the order of their creation
  cached,    \* the Redis counters of failed guesses, per row
  cooldown,  \* the live cooldown keys
  users,     \* the User rows
  compared,  \* wrong codes that were compared with a row (for the properties)
  accepted,  \* times a row's code was accepted
  proved,    \* the contacts whose owner entered a code, with the account
  request    \* what each caller is doing

codeVars == <<otps, cached, cooldown, users, compared, accepted, proved, request>>

\* A code is fresh for five minutes and counted for an hour; the clean-up and
\* nothing else deletes it.
Age == {"fresh", "expired", "old"}
OtpRow == [to: Contacts, attempts: Nat, isUsed: BOOLEAN, age: Age, deleted: BOOLEAN]

\* The cooldown keys of a log-in and of a verification are different keys.
Purpose == {"login", "verification"}

UserRow == [exists: BOOLEAN, phone: Phones \cup {Nobody}, email: Mails \cup {Nobody},
            isPhoneVerified: BOOLEAN, isEmailVerified: BOOLEAN, googleId: Mails \cup {Nobody}]

RequestPC == {"idle", "send", "guess", "spend", "count", "burn", "open", "link",
              "profile"}
\* `attempts`: those of the row, as they were when it was read.
Request == [pc: RequestPC, to: Contacts \cup {Nobody}, who: Users \cup {Nobody},
            row: Nat, attempts: Nat, right: BOOLEAN, purpose: Purpose]

NoRequest == [pc |-> "idle", to |-> Nobody, who |-> Nobody, row |-> 0,
              attempts |-> 0, right |-> FALSE, purpose |-> "login"]

NoUser == [exists |-> FALSE, phone |-> Nobody, email |-> Nobody,
           isPhoneVerified |-> FALSE, isEmailVerified |-> FALSE, googleId |-> Nobody]

CodesTypeOK ==
  /\ otps     \in Seq(OtpRow) /\ Len(otps) <= MaxCodes
  /\ cached   \in [DOMAIN otps -> Nat]
  /\ cooldown \subseteq Contacts \X Purpose
  /\ users    \in [Users -> UserRow]
  /\ compared \in [DOMAIN otps -> Nat]
  /\ accepted \in [DOMAIN otps -> Nat]
  /\ proved   \subseteq Users \X Contacts
  /\ request  \in [Callers -> Request]

CodesInit ==
  /\ otps = <<>> /\ cached = <<>> /\ compared = <<>> /\ accepted = <<>>
  /\ cooldown = {}
  /\ users = [u \in Users |-> NoUser]
  /\ proved = {}
  /\ request = [r \in Callers |-> NoRequest]

-----------------------------------------------------------------------------
(* Rows *)

Holds(u, c) == users[u].exists /\ c \in {users[u].phone, users[u].email}
Taken(c, by) == \E u \in Users \ {by} : Holds(u, c)   \* phone and email are @unique

\* The rows the hourly limits count: those of the hour that still exist.
Counted(c) == {i \in DOMAIN otps : otps[i].to = c /\ ~otps[i].deleted /\ otps[i].age # "old"}
Unused(c)  == {i \in DOMAIN otps : otps[i].to = c /\ ~otps[i].deleted /\ ~otps[i].isUsed}

GuessesThisHour(c) == MapThenSumSet(LAMBDA i : otps[i].attempts, Counted(c))

\* The latest unused code, which must not have expired.
Latest(c) == Max(Unused(c))
HasCode(c) == Unused(c) # {} /\ otps[Latest(c)].age = "fresh"

\* Updating a row that the clean-up has deleted fails; the request ends in 500.
UseUp(i) == [otps EXCEPT ![i].isUsed = TRUE]

Proceed(r, pc) == request' = [request EXCEPT ![r].pc = pc]
Finish(r) == request' = [request EXCEPT ![r] = NoRequest]

-----------------------------------------------------------------------------
(* Sending *)

\* The cooldown and the hourly limit, read side by side.
MaySend(c, purpose) == <<c, purpose>> \notin cooldown /\ Cardinality(Counted(c)) < SendLimit

AskCode(r, c, who, purpose) ==
  /\ request[r].pc = "idle"
  /\ Len(otps) < MaxCodes
  /\ MaySend(c, purpose)
  /\ request' = [request EXCEPT ![r] =
       [NoRequest EXCEPT !.pc = "send", !.to = c, !.who = who, !.purpose = purpose]]
  /\ UNCHANGED <<otps, cached, cooldown, users, compared, accepted, proved>>

SendOtp(r) == "phone" \in CodeOps /\ \E c \in Phones : AskCode(r, c, Nobody, "login")

SendEmailOtp(r) == "email" \in CodeOps /\ \E c \in Mails : AskCode(r, c, Nobody, "login")

\* An account verifies an address that no other account has.
SendEmailVerification(r) ==
  /\ "verification" \in CodeOps
  /\ \E c \in Mails, u \in Users :
       /\ users[u].exists /\ (c # users[u].email => ~Taken(c, u))
       /\ AskCode(r, c, u, "verification")

SendMobileVerification(r) ==
  /\ "verification" \in CodeOps
  /\ \E c \in Phones, u \in Users :
       /\ users[u].exists /\ (c # users[u].phone => ~Taken(c, u))
       /\ AskCode(r, c, u, "verification")

\* The row is created and the cooldown set; the message goes out in the
\* background.
CreateOtp(r) ==
  /\ request[r].pc = "send"
  /\ Len(otps) < MaxCodes
  /\ otps' = Append(otps, [to |-> request[r].to, attempts |-> 0, isUsed |-> FALSE,
                           age |-> "fresh", deleted |-> FALSE])
  /\ cached'   = Append(cached, 0)
  /\ compared' = Append(compared, 0)
  /\ accepted' = Append(accepted, 0)
  /\ cooldown' = cooldown \cup {<<request[r].to, request[r].purpose>>}
  /\ Finish(r)
  /\ UNCHANGED <<users, proved>>

-----------------------------------------------------------------------------
(* Checking a code: the reads, the comparison, the writes *)

\* The hour's guesses and the latest code are read in parallel.
ReadCode(r, c, who, purpose) ==
  /\ request[r].pc = "idle"
  /\ GuessesThisHour(c) < GuessLimit
  /\ HasCode(c)
  /\ \E right \in BOOLEAN :
       request' = [request EXCEPT ![r] =
         [pc |-> IF otps[Latest(c)].attempts >= GuessLimit THEN "burn" ELSE "guess",
          to |-> c, who |-> who, row |-> Latest(c), attempts |-> otps[Latest(c)].attempts,
          right |-> right, purpose |-> purpose]]
  /\ UNCHANGED <<otps, cached, cooldown, users, compared, accepted, proved>>

VerifyOtp(r) == "phone" \in CodeOps /\ \E c \in Phones : ReadCode(r, c, Nobody, "login")

\* With a log-in, or with the account whose address is being linked.
VerifyEmailOtp(r) ==
  /\ "email" \in CodeOps
  /\ \E c \in Mails, who \in {u \in Users : users[u].exists} \cup {Nobody} :
       ReadCode(r, c, who, "login")

VerifyEmail(r) ==
  /\ "verification" \in CodeOps
  /\ \E c \in Mails, u \in Users :
       /\ users[u].exists /\ (c # users[u].email => ~Taken(c, u))
       /\ ReadCode(r, c, u, "verification")

VerifyMobile(r) ==
  /\ "verification" \in CodeOps
  /\ \E c \in Phones, u \in Users :
       /\ users[u].exists /\ (c # users[u].phone => ~Taken(c, u))
       /\ ReadCode(r, c, u, "verification")

\* The counter in Redis is read, then the code is compared.
Compare(r) ==
  LET i == request[r].row IN
  /\ request[r].pc = "guess"
  /\ \/ /\ cached[i] >= GuessLimit
        /\ Proceed(r, "burn")
        /\ UNCHANGED compared
     \/ /\ cached[i] < GuessLimit
        /\ Proceed(r, IF request[r].right THEN "spend" ELSE "count")
        /\ compared' = IF request[r].right THEN compared ELSE [compared EXCEPT ![i] = @ + 1]
  /\ UNCHANGED <<otps, cached, cooldown, users, accepted, proved>>

\* Mutant: the failed guess is only counted in Redis, by a get and a set.
CountInRedis(i) == otps

\* A failed guess increments the row in the database.
CountInRow(i) == [otps EXCEPT ![i].attempts = @ + 1]

\* A wrong code: Redis and the row count it; at the limit of what Redis counts
\* now, or of what the row had counted when it was read, the code is used up.
\* Redis is read and set in two calls: what was read is what another caller
\* may have set since (any value up to now).
CountGuess(r) ==
  LET i == request[r].row IN
  /\ request[r].pc = "count"
  /\ \/ otps[i].deleted /\ Finish(r) /\ UNCHANGED <<otps, cached>>
     \/ /\ ~otps[i].deleted
        /\ otps' = CountInRow(i)
        /\ \E seen \in (IF Cardinality(Callers) = 1 THEN {cached[i]} ELSE 0..cached[i]) :
             /\ cached' = [cached EXCEPT ![i] = seen + 1]
             /\ IF seen + 1 >= GuessLimit \/ request[r].attempts + 1 >= GuessLimit
                THEN Proceed(r, "burn") ELSE Finish(r)
  /\ UNCHANGED <<cooldown, users, compared, accepted, proved>>

BurnCode(r) ==
  /\ request[r].pc = "burn"
  /\ otps' = IF otps[request[r].row].deleted THEN otps ELSE UseUp(request[r].row)
  /\ Finish(r)
  /\ UNCHANGED <<cached, cooldown, users, compared, accepted, proved>>

\* Mutant: the code stays valid until it expires.
KeepValid(i) == otps

\* An accepted code is used up.
Spend(i) == UseUp(i)

\* The right code is used up, whoever used it up before, and its counter reset.
SpendCode(r) ==
  LET i == request[r].row IN
  /\ request[r].pc = "spend"
  /\ \/ otps[i].deleted /\ Finish(r) /\ UNCHANGED <<otps, cached, accepted>>
     \/ /\ ~otps[i].deleted
        /\ otps'     = Spend(i)
        /\ cached'   = [cached EXCEPT ![i] = 0]
        /\ accepted' = [accepted EXCEPT ![i] = @ + 1]
        /\ Proceed(r, IF request[r].who = Nobody THEN "open" ELSE "link")
  /\ UNCHANGED <<cooldown, users, compared, proved>>

-----------------------------------------------------------------------------
(* What an accepted code does to the accounts *)

WithContact(u, c) ==
  IF c \in Phones
  THEN [users EXCEPT ![u].exists = TRUE, ![u].phone = c, ![u].isPhoneVerified = TRUE]
  ELSE [users EXCEPT ![u].exists = TRUE, ![u].email = c, ![u].isEmailVerified = TRUE]

\* A log-in finds the account of the contact or creates one; two callers that
\* both find none collide on the unique column and one of them fails.
OpenAccount(r) ==
  LET c == request[r].to IN
  /\ request[r].pc = "open"
  /\ \E u \in Users :
       /\ IF Taken(c, Nobody) THEN Holds(u, c) ELSE ~users[u].exists
       /\ users'  = WithContact(u, c)
       /\ proved' = proved \cup {<<u, c>>}
  /\ Finish(r)
  /\ UNCHANGED <<otps, cached, cooldown, compared, accepted>>

\* A verification writes the contact to the account; a contact that another
\* account took meanwhile is refused, by the check or by the unique column.
LinkContact(r) ==
  LET c == request[r].to  u == request[r].who IN
  /\ request[r].pc = "link"
  /\ \/ Taken(c, u) /\ UNCHANGED <<users, proved>>
     \/ /\ ~Taken(c, u)
        /\ users'  = WithContact(u, c)
        /\ proved' = proved \cup {<<u, c>>}
  /\ Finish(r)
  /\ UNCHANGED <<otps, cached, cooldown, compared, accepted>>

\* Google vouches for the address of the Google account c: the row is found by
\* its googleId or by that address, or created.
GoogleAuth(r) ==
  /\ "google" \in CodeOps
  /\ request[r].pc = "idle"
  /\ \E c \in Mails, u \in Users :
       LET found == {v \in Users : users[v].googleId = c \/ Holds(v, c)} IN
       /\ IF found = {} THEN ~users[u].exists ELSE u \in found
       /\ \A v \in Users \ {u} : users[v].googleId # c   \* googleId is @unique
       /\ users' = [users EXCEPT ![u].exists = TRUE, ![u].isEmailVerified = TRUE,
                                 ![u].googleId = c,
                                 ![u].email = IF found = {} THEN c ELSE @]
       /\ proved' = IF users'[u].email = c THEN proved \cup {<<u, c>>} ELSE proved
  /\ UNCHANGED <<otps, cached, cooldown, compared, accepted, request>>

\* Mutant: a verified address can be replaced like any other.
MailIsFree(u, c) == ~Taken(c, u)

\* updateBasicProfile: a verified address is read-only, another one must be free.
MayChangeMail(u, c) == ~users[u].isEmailVerified /\ ~Taken(c, u)

\* The checks and the write of POST /profile/basic are two steps.
EditContact(r) ==
  /\ "profile" \in CodeOps
  /\ request[r].pc = "idle"
  /\ \E u \in Users, c \in Contacts :
       /\ users[u].exists /\ ~Holds(u, c)
       /\ IF c \in Mails THEN MayChangeMail(u, c) ELSE ~Taken(c, u)
       /\ request' = [request EXCEPT ![r] =
            [NoRequest EXCEPT !.pc = "profile", !.to = c, !.who = u]]
  /\ UNCHANGED <<otps, cached, cooldown, users, compared, accepted, proved>>

EditContactSave(r) ==
  LET c == request[r].to  u == request[r].who IN
  /\ request[r].pc = "profile"
  /\ users' = IF Taken(c, u) THEN users
              ELSE IF c \in Mails THEN [users EXCEPT ![u].email = c]
              ELSE [users EXCEPT ![u].phone = c]
  /\ Finish(r)
  /\ UNCHANGED <<otps, cached, cooldown, compared, accepted, proved>>

-----------------------------------------------------------------------------
(* Time *)

\* A minute passes for a contact's cooldown.
CooldownEnds ==
  /\ "time" \in CodeOps
  /\ \E k \in cooldown : cooldown' = cooldown \ {k}
  /\ UNCHANGED <<otps, cached, users, compared, accepted, proved, request>>

\* Five minutes, or an hour, pass for a code; Redis forgets its counter at
\* five minutes after the last guess.
CodeAges ==
  /\ "time" \in CodeOps
  /\ \E i \in DOMAIN otps :
       /\ otps[i].age # "old" /\ ~otps[i].deleted
       /\ otps' = [otps EXCEPT ![i].age = IF @ = "fresh" THEN "expired" ELSE "old"]
       /\ cached' = [cached EXCEPT ![i] = 0]
  /\ UNCHANGED <<cooldown, users, compared, accepted, proved, request>>

\* cleanupExpiredOtpLogs: every hour, expired and used codes are deleted, and
\* with them what the hourly limits count.
CleanupExpiredOtpLogs ==
  /\ "cleanup" \in CodeOps
  /\ otps' = [i \in DOMAIN otps |->
       IF otps[i].isUsed \/ otps[i].age # "fresh"
       THEN [otps[i] EXCEPT !.deleted = TRUE] ELSE otps[i]]
  /\ UNCHANGED <<cached, cooldown, users, compared, accepted, proved, request>>

CodesNext ==
  \/ \E r \in Callers :
       \/ SendOtp(r) \/ SendEmailOtp(r) \/ SendEmailVerification(r)
       \/ SendMobileVerification(r) \/ CreateOtp(r)
       \/ VerifyOtp(r) \/ VerifyEmailOtp(r) \/ VerifyEmail(r) \/ VerifyMobile(r)
       \/ Compare(r) \/ CountGuess(r) \/ BurnCode(r) \/ SpendCode(r)
       \/ OpenAccount(r) \/ LinkContact(r) \/ GoogleAuth(r)
       \/ EditContact(r) \/ EditContactSave(r)
  \/ CooldownEnds \/ CodeAges \/ CleanupExpiredOtpLogs

CodesSpec == CodesInit /\ [][CodesNext]_codeVars

-----------------------------------------------------------------------------
(* Properties *)

\* A code is compared with at most GuessLimit wrong guesses, plus one for every
\* further request that passed the check before the last of them was counted:
\* verifyOtp's per-code limit, which the clean-up cannot reset, since it only
\* deletes codes that are of no more use.
GuessesBounded ==
  \A i \in DOMAIN otps : compared[i] <= GuessLimit + Cardinality(Callers) - 1

\* "Single-Use OTP": a code logs in once, and no more than once per request
\* that had read it before it was used up.
CodesUsedOnce ==
  \A i \in DOMAIN otps : accepted[i] <= Cardinality(Callers)

\* The address of an account that counts as verified was proved by a code or by
\* Google for that very account, whatever logging in, linking and editing the
\* profile came before: requests handled one at a time.
VerifiedMailWasProved ==
  \A u \in Users :
    users[u].isEmailVerified /\ users[u].email # Nobody => <<u, users[u].email>> \in proved
=============================================================================
