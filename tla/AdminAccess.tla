----------------------------- MODULE AdminAccess -----------------------------
(* The admin's AuthService: sessions that a refresh extends in place, and    *)
(* the way back in with a code by e-mail.  One admin; time is a day counter. *)
(*                                                                           *)
(* BOUND: MaxSessions log-ins with MaxRotations refreshes each, MaxResets     *)
(* codes, Horizon days in steps of DayStep.                                  *)
EXTENDS Integers, Sequences, FiniteSets

CONSTANTS
  Tabs,          \* requests in flight: BOUND on concurrency
  MaxSessions, MaxRotations, MaxResets, Horizon, DayStep,
  ShortStay, LongStay, StayThreshold,  \* 7, 30 and 14 days in the code
  ResetsPerHour, GuessesPerHour,       \* 3 and 5 in the code
  AdminOps       \* the endpoints that are exercised

ASSUME AdminAssumption ==
  /\ {MaxSessions, MaxRotations, MaxResets, Horizon, DayStep, ShortStay, LongStay,
      StayThreshold, ResetsPerHour, GuessesPerHour} \subseteq Nat \ {0}
  /\ ShortStay < StayThreshold /\ StayThreshold < LongStay /\ IsFiniteSet(Tabs)

VARIABLES
  today,      \* days since the start
  sessions,   \* the AdminSession rows
  held,       \* the refresh tokens handed out: the session and generation each is of
  resets,     \* the AdminResetToken rows, all of the same hour
  password,   \* how often the password was replaced
  tab         \* what each request is doing

adminVars == <<today, sessions, held, resets, password, tab>>

\* `generation` stands for refreshTokenHash: a refresh replaces it.  `asked` is
\* the rememberMe of the log-in, `used` the day of the last log-in or refresh.
SessionRow == [generation: Nat, created: Nat, expires: Nat, isRevoked: BOOLEAN,
               asked: BOOLEAN, used: Nat]

\* A token: its session, its generation and the rememberMe it carries.
Refresh == [session: Nat, generation: Nat, rememberMe: BOOLEAN]

\* `token`: the resetToken, 0 for none; a new one replaces it.
ResetRow == [attempts: Nat, token: Nat, isUsed: BOOLEAN, done: Nat]

TabPC == {"idle", "rotate", "create", "count", "approve", "reset"}
Tab == [pc: TabPC, row: Nat, token: Refresh, seen: Nat]

NoRefresh == [session |-> 0, generation |-> 0, rememberMe |-> FALSE]
NoTab == [pc |-> "idle", row |-> 0, token |-> NoRefresh, seen |-> 0]

AdminTypeOK ==
  /\ today \in Nat
  /\ sessions \in Seq(SessionRow)
  /\ held \subseteq Refresh
  /\ resets \in Seq(ResetRow)
  /\ password \in Nat
  /\ tab \in [Tabs -> Tab]

AdminInit ==
  /\ today = 0 /\ sessions = <<>> /\ held = {} /\ resets = <<>> /\ password = 0
  /\ tab = [t \in Tabs |-> NoTab]

Close(t) == tab' = [tab EXCEPT ![t] = NoTab]

-----------------------------------------------------------------------------
(* Sessions *)

Stay(remembered) == IF remembered THEN LongStay ELSE ShortStay

AdminLogin(t) ==
  /\ "login" \in AdminOps
  /\ tab[t].pc = "idle"
  /\ Len(sessions) < MaxSessions
  /\ \E rememberMe \in BOOLEAN :
       /\ sessions' = Append(sessions,
            [generation |-> 1, created |-> today, expires |-> today + Stay(rememberMe),
             isRevoked |-> FALSE, asked |-> rememberMe, used |-> today])
       /\ held' = held \cup {[session |-> Len(sessions) + 1, generation |-> 1,
                              rememberMe |-> rememberMe]}
  /\ UNCHANGED <<today, resets, password, tab>>

\* findFirst by the token's hash: only the newest generation is found.
Found(token) ==
  /\ sessions[token.session].generation = token.generation
  /\ ~sessions[token.session].isRevoked
  /\ sessions[token.session].expires > today

\* rememberMe is read from the token, or guessed from how far apart the row's
\* creation and expiry are.
IsRememberMe(token) ==
  \/ token.rememberMe
  \/ sessions[token.session].expires - sessions[token.session].created > StayThreshold

\* `tab.token` carries the rememberMe of the next token.
AdminRefresh(t) ==
  /\ "login" \in AdminOps
  /\ tab[t].pc = "idle"
  /\ \E token \in held :
       /\ Found(token) /\ token.generation <= MaxRotations
       /\ tab' = [tab EXCEPT ![t] =
            [pc |-> "rotate", row |-> token.session, seen |-> 0,
             token |-> [token EXCEPT !.rememberMe = IsRememberMe(token)]]]
  /\ UNCHANGED <<today, sessions, held, resets, password>>

\* The row that was read is updated by its id: a refresh that overtook this one
\* loses its token.
RotateSession(t) ==
  LET token == tab[t].token
      row   == tab[t].row
      next  == sessions[row].generation + 1
  IN
  /\ tab[t].pc = "rotate"
  /\ sessions' = [sessions EXCEPT ![row].generation = next,
                                  ![row].expires = today + Stay(token.rememberMe),
                                  ![row].used = today]
  /\ held' = {h \in held : h.session # row} \cup
       {[token EXCEPT !.generation = next]}
  /\ Close(t)
  /\ UNCHANGED <<today, resets, password>>

\* Logging out, or ending a session from the list.  deleteSession means to
\* refuse the current session, but compares the hash of an access token with
\* the hash of a refresh token: it never refuses.
RevokeSession(t) ==
  /\ "logout" \in AdminOps
  /\ tab[t].pc = "idle"
  /\ \E s \in DOMAIN sessions : sessions' = [sessions EXCEPT ![s].isRevoked = TRUE]
  /\ UNCHANGED <<today, held, resets, password, tab>>

\* A request takes less than a day.
DayPasses ==
  /\ "login" \in AdminOps
  /\ \A t \in Tabs : tab[t].pc = "idle"
  /\ today + DayStep <= Horizon
  /\ today' = today + DayStep
  /\ UNCHANGED <<sessions, held, resets, password, tab>>

-----------------------------------------------------------------------------
(* Forgotten passwords *)

MayForget == Len(resets) < ResetsPerHour

ForgotPassword(t) ==
  /\ "reset" \in AdminOps
  /\ tab[t].pc = "idle"
  /\ MayForget /\ Len(resets) < MaxResets
  /\ tab' = [tab EXCEPT ![t] = [NoTab EXCEPT !.pc = "create"]]
  /\ UNCHANGED <<today, sessions, held, resets, password>>

ForgotPasswordCreate(t) ==
  /\ tab[t].pc = "create"
  /\ resets' = Append(resets, [attempts |-> 0, token |-> 0, isUsed |-> FALSE, done |-> 0])
  /\ Close(t)
  /\ UNCHANGED <<today, sessions, held, password>>

Attempts[n \in Nat] == IF n = 0 THEN 0 ELSE Attempts[n - 1] + resets[n].attempts

\* The newest unused code.  A wrong one will count one more than was read.
VerifyResetOtp(t) ==
  LET unused == {i \in DOMAIN resets : ~resets[i].isUsed}
  IN
  /\ "reset" \in AdminOps
  /\ tab[t].pc = "idle"
  /\ Attempts[Len(resets)] < GuessesPerHour
  /\ \E i \in unused :
       /\ \A j \in unused : j <= i
       /\ \E right \in BOOLEAN :
            tab' = [tab EXCEPT ![t] = [NoTab EXCEPT !.pc = IF right THEN "approve" ELSE "count",
                                                    !.row = i, !.seen = resets[i].attempts]]
  /\ UNCHANGED <<today, sessions, held, resets, password>>

CountAttempt(t) ==
  /\ tab[t].pc = "count"
  /\ resets' = [resets EXCEPT ![tab[t].row].attempts = tab[t].seen + 1]
  /\ Close(t)
  /\ UNCHANGED <<today, sessions, held, password>>

\* The code may be entered again: each time the row gets a new resetToken.
ApproveReset(t) ==
  /\ tab[t].pc = "approve"
  /\ resets[tab[t].row].token < GuessesPerHour  \* BOUND: a code is entered that often
  /\ resets' = [resets EXCEPT ![tab[t].row].token = @ + 1]
  /\ Close(t)
  /\ UNCHANGED <<today, sessions, held, password>>

\* resetPassword finds the row by its token; a used one is refused (410).
ResetPassword(t) ==
  /\ "reset" \in AdminOps
  /\ tab[t].pc = "idle"
  /\ \E i \in DOMAIN resets :
       /\ resets[i].token # 0 /\ ~resets[i].isUsed
       /\ tab' = [tab EXCEPT ![t] = [NoTab EXCEPT !.pc = "reset", !.row = i]]
  /\ UNCHANGED <<today, sessions, held, resets, password>>

\* Mutant: the code is not used up.
KeepReset(row) == [row EXCEPT !.done = @ + 1]

\* One transaction sets the password and uses the code up.
UsedReset(row) == [row EXCEPT !.isUsed = TRUE, !.done = @ + 1]

ResetPasswordSave(t) ==
  /\ tab[t].pc = "reset"
  /\ password < MaxResets   \* BOUND
  /\ password' = password + 1
  /\ resets' = [resets EXCEPT ![tab[t].row] = UsedReset(@)]
  /\ Close(t)
  /\ UNCHANGED <<today, sessions, held>>

\* The sessions stay open, here and in ResetPasswordSave.
ChangePassword(t) ==
  /\ "change" \in AdminOps
  /\ tab[t].pc = "idle"
  /\ password < MaxResets   \* BOUND
  /\ password' = password + 1
  /\ UNCHANGED <<today, sessions, held, resets, tab>>

AdminNext ==
  \/ \E t \in Tabs :
       \/ AdminLogin(t) \/ AdminRefresh(t) \/ RotateSession(t) \/ RevokeSession(t)
       \/ ForgotPassword(t) \/ ForgotPasswordCreate(t) \/ VerifyResetOtp(t)
       \/ CountAttempt(t) \/ ApproveReset(t) \/ ResetPassword(t)
       \/ ResetPasswordSave(t) \/ ChangePassword(t)
  \/ DayPasses

AdminSpec == AdminInit /\ [][AdminNext]_adminVars

-----------------------------------------------------------------------------
(* Properties *)

\* A code by e-mail replaces the password once ("token already used"), and no
\* more than once per request that had read the row before it was used up; and
\* the hour's codes exceed their limit by the requests in flight at most.
ResetsAreBounded ==
  /\ \A i \in DOMAIN resets : resets[i].done <= Cardinality(Tabs)
  /\ Len(resets) < ResetsPerHour + Cardinality(Tabs)

-----------------------------------------------------------------------------
(* Promises of documents that TLC refutes; README.md, "Divergences", has the *)
(* instances.                                                                *)

\* "preserve 30d if originally rememberMe, else 7d": an admin who did not ask
\* to be remembered has to log in after ShortStay days without a refresh.
LifetimeKept ==
  \A s \in DOMAIN sessions :
    ~sessions[s].asked => sessions[s].expires <= sessions[s].used + ShortStay
=============================================================================
