-------------------------- MODULE CustomerSessions --------------------------
(* AuthService.refreshToken, logout, logoutAll and generateTokensAndRespond: *)
(* a log-in starts a family of refresh tokens, a refresh replaces its token  *)
(* by the next of the family, and a token that is presented again after it   *)
(* was replaced ends the family.  Blocking a customer is the admin's         *)
(* updateCustomerStatus, which ends every session too.                                *)
(*                                                                           *)
(* BOUND: MaxTokens tokens are ever issued, to one customer.                 *)
EXTENDS Integers, Sequences, FiniteSets

CONSTANTS
  Clients,      \* requests in flight: BOUND on concurrency
  MaxTokens,    \* BOUND on the tokens issued
  SessionOps    \* the endpoints that are exercised

ASSUME SessionsAssumption == MaxTokens \in Nat \ {0}

VARIABLES
  tokens,      \* the RefreshToken rows, in the order of their creation
  blocked,     \* the customer's isBlocked
  replayed,    \* the families in which a replaced token came back and was seen
  call         \* what each client's request is doing

sessionVars == <<tokens, blocked, replayed, call>>

Token == [family: Nat, isRevoked: BOOLEAN]
CallPC == {"idle", "revoke", "user", "create", "revoke_family"}
Call == [pc: CallPC, token: Nat, family: Nat]
NoCall == [pc |-> "idle", token |-> 0, family |-> 0]

SessionsTypeOK ==
  /\ tokens \in Seq(Token) /\ Len(tokens) <= MaxTokens
  /\ blocked \in BOOLEAN
  /\ replayed \subseteq 1..MaxTokens
  /\ call \in [Clients -> Call]

SessionsInit ==
  /\ tokens = <<>> /\ blocked = FALSE /\ replayed = {}
  /\ call = [k \in Clients |-> NoCall]

Live(t) == t \in DOMAIN tokens /\ ~tokens[t].isRevoked
RevokeAll(T) ==
  [t \in DOMAIN tokens |-> IF t \in T THEN [tokens[t] EXCEPT !.isRevoked = TRUE]
                           ELSE tokens[t]]

Hang(k) == call' = [call EXCEPT ![k] = NoCall]

\* A refreshed token stays in its family, a log-in starts one: families are
\* named after their first token.
FamilyOf(family) == IF family = 0 THEN Len(tokens) + 1 ELSE family

\* generateTokensAndRespond: the row is created and the cookie set.
CreateToken(k) ==
  /\ call[k].pc = "create"
  /\ Len(tokens) < MaxTokens
  /\ tokens' = Append(tokens, [family |-> FamilyOf(call[k].family), isRevoked |-> FALSE])
  /\ Hang(k)
  /\ UNCHANGED <<blocked, replayed>>

\* Any of the log-ins of module OneTimeCodes got as far as its tokens.
Login(k) ==
  /\ call[k].pc = "idle"
  /\ Len(tokens) < MaxTokens
  /\ call' = [call EXCEPT ![k] = [pc |-> "create", token |-> 0, family |-> 0]]
  /\ UNCHANGED <<tokens, blocked, replayed>>

\* The signature is good (a token outlives the run) and the row is read.
RefreshToken(k) ==
  /\ "refresh" \in SessionOps
  /\ call[k].pc = "idle"
  /\ Len(tokens) < MaxTokens
  /\ \E t \in DOMAIN tokens :
       call' = [call EXCEPT ![k] =
         [pc |-> IF Live(t) THEN "revoke" ELSE "revoke_family",
          token |-> t, family |-> tokens[t].family]]
  /\ UNCHANGED <<tokens, blocked, replayed>>

\* Mutant: only the token that came back stays revoked.
EndToken(family) == RevokeAll({})

\* A revoked token came back: updateMany on its family.
EndFamily(family) == RevokeAll({t \in DOMAIN tokens : tokens[t].family = family})

RevokeFamily(k) ==
  /\ call[k].pc = "revoke_family"
  /\ tokens' = EndFamily(call[k].family)
  /\ replayed' = replayed \cup {call[k].family}
  /\ Hang(k)
  /\ UNCHANGED blocked

\* The row that was read is revoked, whatever happened to it since.
RevokeToken(k) ==
  /\ call[k].pc = "revoke"
  /\ tokens' = [tokens EXCEPT ![call[k].token].isRevoked = TRUE]
  /\ call' = [call EXCEPT ![k].pc = "user"]
  /\ UNCHANGED <<blocked, replayed>>

\* The user row is read for the new token; isBlocked is not looked at.
ReadUser(k) ==
  /\ call[k].pc = "user"
  /\ call' = [call EXCEPT ![k].pc = "create"]
  /\ UNCHANGED <<tokens, blocked, replayed>>

\* JwtStrategy.validate lets the customer in: not when blocked.
SignedIn(k) == call[k].pc = "idle" /\ ~blocked

Logout(k) ==
  /\ "logout" \in SessionOps
  /\ SignedIn(k)
  /\ \E t \in DOMAIN tokens : tokens' = [tokens EXCEPT ![t].isRevoked = TRUE]
  /\ UNCHANGED <<blocked, replayed, call>>

LogoutAll(k) ==
  /\ "logout" \in SessionOps
  /\ SignedIn(k)
  /\ tokens' = RevokeAll(DOMAIN tokens)
  /\ UNCHANGED <<blocked, replayed, call>>

\* CustomersService.updateCustomerStatus: one transaction sets the flag and, when it
\* blocks, ends the sessions.
UpdateCustomerStatus ==
  /\ "block" \in SessionOps
  /\ blocked' = ~blocked
  /\ tokens' = IF blocked' THEN RevokeAll(DOMAIN tokens) ELSE tokens
  /\ UNCHANGED <<replayed, call>>

\* The process dies between two steps of a request.
SessionsCrash(k) ==
  /\ "crash" \in SessionOps
  /\ call[k].pc # "idle"
  /\ Hang(k)
  /\ UNCHANGED <<tokens, blocked, replayed>>

SessionsNext ==
  \/ \E k \in Clients :
       \/ Login(k) \/ CreateToken(k)
       \/ RefreshToken(k) \/ RevokeFamily(k) \/ RevokeToken(k) \/ ReadUser(k)
       \/ Logout(k) \/ LogoutAll(k) \/ SessionsCrash(k)
  \/ UpdateCustomerStatus

SessionsSpec == SessionsInit /\ [][SessionsNext]_sessionVars

-----------------------------------------------------------------------------
(* Properties *)

LiveOf(family) == {t \in DOMAIN tokens : Live(t) /\ tokens[t].family = family}
Families == {tokens[t].family : t \in DOMAIN tokens}

\* Refresh-token rotation, requests handled one at a time and dying anywhere:
\* a log-in has at most one token that works, its newest; and once a replaced
\* token came back the log-in has none.
RotationIsSound ==
  /\ \A f \in Families : Cardinality(LiveOf(f)) <= 1
  /\ \A f \in Families : \A t \in LiveOf(f) :
       \A s \in DOMAIN tokens : tokens[s].family = f => s <= t
  /\ \A f \in replayed : LiveOf(f) = {}
=============================================================================
