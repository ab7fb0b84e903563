--------------------------- MODULE AccountsProofs ---------------------------
(* What the areas of the run accounts promise, for every value of their     *)
(* constants: refresh tokens, one-time codes, and requests that are throttled. *)
EXTENDS MCAccounts, FiniteSetTheorems, WellFoundedInduction, TLAPS

-----------------------------------------------------------------------------
(* Refresh-token rotation is sound for any number of tokens, as long as the *)
(* customer's requests come one at a time: Clients is a singleton.  What is *)
(* inductive is that only the newest token of a log-in may work, and what a *)
(* refresh knows between its read, its revocation and its new row.          *)

Tokens == tokens \in Seq(Token)

\* A log-in is named after its first token.
FamiliesNamed == \A t \in DOMAIN tokens : tokens[t].family \in 1..t

OnlyNewestLives ==
  \A t, s \in DOMAIN tokens :
    ~tokens[t].isRevoked /\ tokens[s].family = tokens[t].family => s <= t

Ended(f) == \A t \in DOMAIN tokens : tokens[t].family = f => tokens[t].isRevoked

ReplayedEnded == replayed \subseteq 1..Len(tokens) /\ \A f \in replayed : Ended(f)

\* What the request of a client holds on to.
HoldsToken(c) ==
  c.token \in DOMAIN tokens /\ c.family = tokens[c.token].family

CallSound(c) ==
  /\ c.pc = "revoke" =>
       /\ HoldsToken(c)
       /\ c.family \notin replayed
       /\ \A t \in DOMAIN tokens :
            tokens[t].family = c.family /\ ~tokens[t].isRevoked => t = c.token
  /\ c.pc \in {"user", "create"} /\ c.family # 0 =>
       /\ c.family \in 1..Len(tokens)
       /\ c.family \notin replayed
       /\ Ended(c.family)
  /\ c.pc = "user" => c.family # 0
  /\ c.pc = "revoke_family" => HoldsToken(c)

SessionsInv(k) ==
  /\ Tokens /\ FamiliesNamed /\ OnlyNewestLives /\ ReplayedEnded
  /\ call \in [Clients -> Call] /\ CallSound(call[k])

-----------------------------------------------------------------------------
(* A step that only revokes tokens. *)

OnlyRevokes ==
  /\ tokens' \in Seq(Token)
  /\ DOMAIN tokens' = DOMAIN tokens
  /\ Len(tokens') = Len(tokens)
  /\ \A t \in DOMAIN tokens :
       /\ tokens'[t].family = tokens[t].family
       /\ tokens[t].isRevoked => tokens'[t].isRevoked

LEMMA RevokingAll ==
  ASSUME Tokens, NEW T, tokens' = RevokeAll(T)
  PROVE  /\ OnlyRevokes
         /\ \A t \in DOMAIN tokens : t \in T => tokens'[t].isRevoked
<1>1. /\ tokens \in Seq(Token) /\ Len(tokens) \in Nat /\ DOMAIN tokens = 1..Len(tokens)
  BY DEF Tokens
<1>2. \A t \in DOMAIN tokens : tokens[t] \in Token
  BY <1>1
<1>3. \A t \in DOMAIN tokens :
        /\ tokens'[t] = IF t \in T THEN [tokens[t] EXCEPT !.isRevoked = TRUE] ELSE tokens[t]
        /\ tokens'[t] \in Token
  BY <1>2 DEF RevokeAll, Token
<1>4. tokens' = [t \in 1..Len(tokens) |-> tokens'[t]]
  BY <1>1 DEF RevokeAll
<1>5. tokens' \in Seq(Token) /\ Len(tokens') = Len(tokens) /\ DOMAIN tokens' = DOMAIN tokens
  BY <1>1, <1>3, <1>4
<1>6. \A t \in DOMAIN tokens :
        /\ tokens'[t].family = tokens[t].family
        /\ tokens[t].isRevoked => tokens'[t].isRevoked
        /\ t \in T => tokens'[t].isRevoked
  BY <1>2, <1>3 DEF Token
<1> QED BY <1>5, <1>6 DEF OnlyRevokes

LEMMA RevokingOne ==
  ASSUME Tokens, NEW i \in DOMAIN tokens, tokens' = [tokens EXCEPT ![i].isRevoked = TRUE]
  PROVE  OnlyRevokes /\ tokens'[i].isRevoked
<1>1. tokens' = RevokeAll({i})
  BY DEF RevokeAll, Tokens
<1> QED BY <1>1, RevokingAll

LEMMA RevokingKeeps ==
  ASSUME Tokens, FamiliesNamed, OnlyNewestLives, ReplayedEnded, OnlyRevokes, UNCHANGED replayed
  PROVE  /\ Tokens' /\ FamiliesNamed' /\ OnlyNewestLives' /\ ReplayedEnded'
         /\ \A c \in Call : CallSound(c) => CallSound(c)'
<1> USE DEF OnlyRevokes
<1>1. Tokens' /\ FamiliesNamed' /\ OnlyNewestLives'
  BY DEF Tokens, FamiliesNamed, OnlyNewestLives
<1>2. \A f : Ended(f) => Ended(f)'
  BY DEF Ended
<1>3. ReplayedEnded'
  BY <1>2 DEF ReplayedEnded
<1>4. ASSUME NEW c \in Call, CallSound(c) PROVE CallSound(c)'
  BY <1>2, <1>4 DEF CallSound, HoldsToken
<1> QED BY <1>1, <1>3, <1>4

\* Neither the rows nor the request change otherwise.
LEMMA Hangs ==
  ASSUME NEW k \in Clients, call \in [Clients -> Call], Hang(k)
  PROVE  call' \in [Clients -> Call] /\ call'[k] = NoCall /\ CallSound(call[k])'
<1>1. NoCall \in Call
  BY DEF NoCall, Call, CallPC
<1>2. call' \in [Clients -> Call] /\ call'[k] = NoCall
  BY <1>1 DEF Hang
<1> QED BY <1>2 DEF CallSound, NoCall

\* A request moves on and keeps what it holds on to.
LEMMA MovesOn ==
  ASSUME NEW k \in Clients, call \in [Clients -> Call], NEW label \in CallPC,
         call' = [call EXCEPT ![k].pc = label]
  PROVE  /\ call' \in [Clients -> Call]
         /\ call'[k].pc = label /\ call'[k].token = call[k].token
         /\ call'[k].family = call[k].family
BY DEF Call

-----------------------------------------------------------------------------
(* The steps *)

LEMMA CreatingTokens ==
  ASSUME NEW k \in Clients, SessionsInv(k), CreateToken(k) PROVE SessionsInv(k)'
<1> DEFINE n == Len(tokens) + 1
           f == FamilyOf(call[k].family)
           row == [family |-> f, isRevoked |-> FALSE]
<1>1. /\ tokens \in Seq(Token) /\ Len(tokens) \in Nat /\ DOMAIN tokens = 1..Len(tokens)
      /\ call[k] \in Call /\ call[k].pc = "create"
  BY DEF SessionsInv, Tokens, CreateToken
<1>2. f \in 1..n
  BY <1>1 DEF SessionsInv, CallSound, FamilyOf, Call
<1>3. /\ tokens' = Append(tokens, row) /\ row \in Token
  BY <1>1, <1>2 DEF CreateToken, Token
<1>4. /\ Tokens' /\ Len(tokens') = n /\ DOMAIN tokens' = 1..n
      /\ \A t \in 1..Len(tokens) : tokens'[t] = tokens[t]
      /\ tokens'[n] = row
  BY <1>1, <1>3 DEF Tokens
<1>5. FamiliesNamed'
  BY <1>1, <1>2, <1>4 DEF SessionsInv, FamiliesNamed
<1>6. f \notin replayed /\ Ended(f)
  <2>1. CASE call[k].family = 0
    BY <1>1, <2>1 DEF FamilyOf, SessionsInv, ReplayedEnded, FamiliesNamed, Ended
  <2>2. CASE call[k].family # 0
    BY <1>1, <2>2 DEF FamilyOf, SessionsInv, CallSound
  <2> QED BY <2>1, <2>2
<1>7. OnlyNewestLives'
  <2> SUFFICES ASSUME NEW t \in 1..n, NEW s \in 1..n,
                      ~tokens'[t].isRevoked, tokens'[s].family = tokens'[t].family
               PROVE  s <= t
    BY <1>4 DEF OnlyNewestLives
  <2>1. CASE t = n
    BY <1>1, <2>1
  <2>2. CASE t # n /\ s # n
    <3>1. t \in DOMAIN tokens /\ s \in DOMAIN tokens
      BY <1>1, <2>2
    <3>2. ~tokens[t].isRevoked /\ tokens[s].family = tokens[t].family
      BY <1>1, <1>4, <3>1
    <3> QED BY <3>1, <3>2 DEF SessionsInv, OnlyNewestLives
  <2>3. CASE t # n /\ s = n
    BY <1>1, <1>4, <1>6, <2>3 DEF Ended
  <2> QED BY <2>1, <2>2, <2>3
<1>8. ReplayedEnded'
  BY <1>1, <1>4, <1>6 DEF CreateToken, SessionsInv, ReplayedEnded, Ended
<1>9. call' \in [Clients -> Call] /\ CallSound(call[k])'
  BY Hangs DEF SessionsInv, CreateToken
<1> QED BY <1>4, <1>5, <1>7, <1>8, <1>9 DEF SessionsInv

LEMMA RefreshReads ==
  ASSUME NEW k \in Clients, SessionsInv(k), Login(k) \/ RefreshToken(k) PROVE SessionsInv(k)'
<1>1. CASE Login(k)
  <2>1. call'[k] = [pc |-> "create", token |-> 0, family |-> 0] /\ call' \in [Clients -> Call]
    BY <1>1 DEF Login, SessionsInv, Call, CallPC
  <2>2. CallSound(call[k])'
    BY <2>1 DEF CallSound
  <2> QED BY <1>1, <2>1, <2>2
      DEF Login, SessionsInv, Tokens, FamiliesNamed, OnlyNewestLives, ReplayedEnded, Ended
<1>2. CASE RefreshToken(k)
  <2>1. PICK t \in DOMAIN tokens :
          call' = [call EXCEPT ![k] =
            [pc |-> IF Live(t) THEN "revoke" ELSE "revoke_family",
             token |-> t, family |-> tokens[t].family]]
    BY <1>2 DEF RefreshToken
  <2>2. /\ tokens \in Seq(Token) /\ Len(tokens) \in Nat /\ DOMAIN tokens = 1..Len(tokens)
        /\ tokens[t].family \in 1..t
    BY DEF SessionsInv, Tokens, FamiliesNamed
  <2>3. UNCHANGED <<tokens, blocked, replayed>>
    BY <1>2 DEF RefreshToken
  <2>4. [pc |-> IF Live(t) THEN "revoke" ELSE "revoke_family",
         token |-> t, family |-> tokens[t].family] \in Call
    BY <2>2 DEF Call, CallPC
  <2>5. /\ call' \in [Clients -> Call]
        /\ call'[k] = [pc |-> IF Live(t) THEN "revoke" ELSE "revoke_family",
                       token |-> t, family |-> tokens[t].family]
    BY <2>1, <2>4 DEF SessionsInv
  <2>6. CASE Live(t)
    <3>1. /\ call'[k].pc = "revoke" /\ call'[k].token = t
          /\ call'[k].family = tokens[t].family
      BY <2>5, <2>6
    <3>2. tokens[t].family \notin replayed
      BY <2>6 DEF Live, SessionsInv, ReplayedEnded, Ended
    <3>3. \A s \in DOMAIN tokens :
            tokens[s].family = tokens[t].family /\ ~tokens[s].isRevoked => s = t
      BY <2>2, <2>6 DEF Live, SessionsInv, OnlyNewestLives
    <3>4. CallSound(call[k])'
      BY <2>3, <3>1, <3>2, <3>3 DEF CallSound, HoldsToken
    <3> QED BY <2>3, <2>5, <3>4
        DEF SessionsInv, Tokens, FamiliesNamed, OnlyNewestLives, ReplayedEnded, Ended
  <2>7. CASE ~Live(t)
    <3>1. /\ call'[k].pc = "revoke_family" /\ call'[k].token = t
          /\ call'[k].family = tokens[t].family
      BY <2>5, <2>7
    <3>2. CallSound(call[k])'
      BY <2>3, <3>1 DEF CallSound, HoldsToken
    <3> QED BY <2>3, <2>5, <3>2
        DEF SessionsInv, Tokens, FamiliesNamed, OnlyNewestLives, ReplayedEnded, Ended
  <2> QED BY <2>6, <2>7
<1> QED BY <1>1, <1>2

LEMMA RefreshRevokes ==
  ASSUME NEW k \in Clients, SessionsInv(k), RevokeToken(k) \/ ReadUser(k) PROVE SessionsInv(k)'
<1> DEFINE c == call[k]
<1>0. c \in Call /\ tokens \in Seq(Token) /\ DOMAIN tokens = 1..Len(tokens)
  BY DEF SessionsInv, Tokens
<1>1. CASE RevokeToken(k)
  <2>1. /\ c.pc = "revoke" /\ HoldsToken(c) /\ c.family \notin replayed
        /\ \A t \in DOMAIN tokens :
             tokens[t].family = c.family /\ ~tokens[t].isRevoked => t = c.token
    BY <1>1 DEF RevokeToken, SessionsInv, CallSound
  <2>2. OnlyRevokes /\ tokens'[c.token].isRevoked
    BY <1>1, <2>1, RevokingOne DEF RevokeToken, HoldsToken, SessionsInv
  <2>3. Tokens' /\ FamiliesNamed' /\ OnlyNewestLives' /\ ReplayedEnded'
    BY <1>1, <2>2, RevokingKeeps DEF RevokeToken, SessionsInv
  <2>4. /\ call' \in [Clients -> Call] /\ call'[k].pc = "user"
        /\ call'[k].family = c.family
    <3>1. "user" \in CallPC
      BY DEF CallPC
    <3> QED BY <1>1, <3>1, MovesOn DEF RevokeToken, SessionsInv
  <2>5. Ended(c.family)'
    BY <2>1, <2>2, <2>4 DEF Ended, OnlyRevokes
  <2>6. c.family \in 1..Len(tokens)
    BY <1>0, <2>1 DEF HoldsToken, SessionsInv, FamiliesNamed
  <2>7. CallSound(call[k])'
    BY <1>1, <2>1, <2>2, <2>4, <2>5, <2>6 DEF CallSound, RevokeToken, OnlyRevokes
  <2> QED BY <2>3, <2>4, <2>7 DEF SessionsInv
<1>2. CASE ReadUser(k)
  <2>1. /\ call' \in [Clients -> Call] /\ call'[k].pc = "create"
        /\ call'[k].family = c.family
    <3>1. "create" \in CallPC
      BY DEF CallPC
    <3> QED BY <1>2, <3>1, MovesOn DEF ReadUser, SessionsInv
  <2>2. c.pc = "user" /\ UNCHANGED <<tokens, replayed>>
    BY <1>2 DEF ReadUser
  <2>3. CallSound(call[k])'
    BY <2>1, <2>2 DEF SessionsInv, CallSound, Ended
  <2> QED BY <2>1, <2>2, <2>3
      DEF SessionsInv, Tokens, FamiliesNamed, OnlyNewestLives, ReplayedEnded, Ended
<1> QED BY <1>1, <1>2

LEMMA RefreshEndsFamily ==
  ASSUME NEW k \in Clients, SessionsInv(k), RevokeFamily(k) PROVE SessionsInv(k)'
<1> DEFINE f == call[k].family
<1>1. call[k] \in Call /\ HoldsToken(call[k])
  BY DEF RevokeFamily, SessionsInv, CallSound
<1>2. f \in 1..Len(tokens)
  BY <1>1 DEF HoldsToken, SessionsInv, Tokens, FamiliesNamed
<1>3. tokens' = RevokeAll({t \in DOMAIN tokens : tokens[t].family = f})
  BY DEF RevokeFamily, EndFamily
<1>4. /\ OnlyRevokes
      /\ \A t \in DOMAIN tokens : tokens[t].family = f => tokens'[t].isRevoked
  <2>1. Tokens
    BY DEF SessionsInv
  <2> QED BY <1>3, <2>1, RevokingAll
<1>5. Tokens' /\ FamiliesNamed' /\ OnlyNewestLives'
  BY <1>4 DEF OnlyRevokes, SessionsInv, Tokens, FamiliesNamed, OnlyNewestLives
<1>6. ReplayedEnded'
  BY <1>2, <1>4 DEF RevokeFamily, OnlyRevokes, SessionsInv, ReplayedEnded, Ended
<1>7. call' \in [Clients -> Call] /\ CallSound(call[k])'
  BY Hangs DEF SessionsInv, RevokeFamily
<1> QED BY <1>5, <1>6, <1>7 DEF SessionsInv

LEMMA LogoutsRevoke ==
  ASSUME NEW k \in Clients, SessionsInv(k), Logout(k) \/ LogoutAll(k) \/ UpdateCustomerStatus
  PROVE  SessionsInv(k)'
<1>1. Tokens /\ UNCHANGED <<replayed, call>>
  BY DEF SessionsInv, Logout, LogoutAll, UpdateCustomerStatus
<1>2. CASE UNCHANGED tokens
  BY <1>1, <1>2
  DEF SessionsInv, Tokens, FamiliesNamed, OnlyNewestLives, ReplayedEnded, Ended, CallSound, HoldsToken
<1>3. CASE OnlyRevokes
  <2>1. call[k] \in Call
    BY DEF SessionsInv
  <2> QED BY <1>1, <1>3, <2>1, RevokingKeeps DEF SessionsInv
<1>4. CASE Logout(k)
  BY <1>1, <1>3, <1>4, RevokingOne DEF Logout
<1>5. CASE tokens' = RevokeAll(DOMAIN tokens)
  BY <1>1, <1>3, <1>5, RevokingAll
<1> QED BY <1>2, <1>4, <1>5 DEF LogoutAll, UpdateCustomerStatus

LEMMA SessionsStep ==
  ASSUME NEW k, Clients = {k}
  PROVE  SessionsInv(k) /\ [SessionsNext]_sessionVars => SessionsInv(k)'
<1> SUFFICES ASSUME SessionsInv(k), [SessionsNext]_sessionVars PROVE SessionsInv(k)'
  OBVIOUS
<1>0. k \in Clients
  OBVIOUS
<1>1. CASE SessionsCrash(k)
  <2>1. call' \in [Clients -> Call] /\ CallSound(call[k])'
    BY <1>0, <1>1, Hangs DEF SessionsInv, SessionsCrash
  <2> QED BY <1>1, <2>1
      DEF SessionsCrash, SessionsInv, Tokens, FamiliesNamed, OnlyNewestLives, ReplayedEnded, Ended
<1>2. CASE UNCHANGED sessionVars
  BY <1>2 DEF sessionVars, SessionsInv, Tokens, FamiliesNamed, OnlyNewestLives, ReplayedEnded,
     Ended, CallSound, HoldsToken
<1> QED BY <1>0, <1>1, <1>2, CreatingTokens, RefreshReads, RefreshRevokes, RefreshEndsFamily,
        LogoutsRevoke DEF SessionsNext

-----------------------------------------------------------------------------
(* Theorems *)

\* Requests of a customer that come one at a time and may die anywhere: of a
\* log-in's tokens only the newest ever works, and none does after a replaced
\* one was presented again.
THEOREM RotationSound ==
  ASSUME NEW k, Clients = {k} PROVE SessionsSpec => []RotationIsSound
<1>1. SessionsInit => SessionsInv(k)
  <2> SUFFICES ASSUME SessionsInit PROVE SessionsInv(k)
    OBVIOUS
  <2>1. NoCall \in Call
    BY DEF NoCall, Call, CallPC
  <2>2. call \in [Clients -> Call] /\ call[k] = NoCall
    BY <2>1 DEF SessionsInit
  <2>3. CallSound(call[k])
    BY <2>2 DEF CallSound, NoCall
  <2>4. tokens \in Seq(Token) /\ DOMAIN tokens = {}
    BY DEF SessionsInit
  <2> QED BY <2>2, <2>3, <2>4
      DEF SessionsInit, SessionsInv, Tokens, FamiliesNamed, OnlyNewestLives, ReplayedEnded
<1>2. SessionsInv(k) => RotationIsSound
  <2> SUFFICES ASSUME SessionsInv(k) PROVE RotationIsSound
    OBVIOUS
  <2>1. \A f \in Families : \A t \in LiveOf(f) :
          \A s \in DOMAIN tokens : tokens[s].family = f => s <= t
    BY DEF SessionsInv, OnlyNewestLives, LiveOf, Live
  <2>2. ASSUME NEW f \in Families PROVE Cardinality(LiveOf(f)) <= 1
    <3>1. \A t, s \in LiveOf(f) : s = t
      <4>1. \A t \in LiveOf(f) : t \in Nat /\ t \in DOMAIN tokens /\ tokens[t].family = f
        BY DEF LiveOf, SessionsInv, Tokens
      <4> QED BY <2>1, <4>1
    <3>2. CASE LiveOf(f) = {}
      BY <3>2, FS_EmptySet
    <3>3. ASSUME NEW t \in LiveOf(f) PROVE Cardinality(LiveOf(f)) <= 1
      <4>1. LiveOf(f) = {t}
        BY <3>1, <3>3
      <4> QED BY <4>1, FS_Singleton
    <3> QED BY <3>2, <3>3
  <2>3. \A f \in replayed : LiveOf(f) = {}
    BY DEF SessionsInv, ReplayedEnded, Ended, LiveOf, Live
  <2> QED BY <2>1, <2>2, <2>3 DEF RotationIsSound
<1> QED BY <1>1, <1>2, SessionsStep, PTL DEF SessionsSpec

-----------------------------------------------------------------------------
(* Guesses at one-time codes are bounded and codes are accepted once per    *)
(* request that had read them, for any number of callers and codes.  Both   *)
(* count the requests that are between reading a row and writing it.        *)

\* The requests that stand at one of the steps P and work on row i.
At(P, i) == {r \in Callers : request[r].pc \in P /\ request[r].row = i}

Guessing(i)  == At({"guess"}, i)
Counting(i)  == At({"count"}, i)
Accepting(i) == At({"guess", "spend"}, i)

RowSteps == {"guess", "spend", "count", "burn"}

SoundRequest(q) ==
  /\ q.pc # "idle" => q.to \in Contacts
  /\ q.pc \in RowSteps => q.row \in DOMAIN otps

RowsAndRequests ==
  /\ otps \in Seq(OtpRow)
  /\ compared \in [DOMAIN otps -> Nat]
  /\ accepted \in [DOMAIN otps -> Nat]
  /\ request \in [Callers -> Request]
  /\ \A r \in Callers : SoundRequest(request[r])

\* A row that was read with guesses left may be compared once more by every
\* request that has read it by then; the row counts all that were compared
\* but those that are on their way to count.
GuessesAccounted(i) ==
  /\ compared[i] + Cardinality(Guessing(i)) <= GuessLimit - 1 + Cardinality(Callers)
  /\ ~otps[i].deleted => compared[i] = otps[i].attempts + Cardinality(Counting(i))

\* A row that was accepted is used, so no further request reads it.
AcceptsAccounted(i) ==
  /\ accepted[i] + Cardinality(Accepting(i)) <= Cardinality(Callers)
  /\ accepted[i] > 0 => otps[i].isUsed

CodesInv ==
  /\ RowsAndRequests
  /\ \A i \in DOMAIN otps : GuessesAccounted(i) /\ AcceptsAccounted(i)

-----------------------------------------------------------------------------
(* Counting requests *)

LEMMA CountingRequests ==
  ASSUME NEW P, NEW i
  PROVE  /\ IsFiniteSet(At(P, i)) /\ Cardinality(At(P, i)) \in Nat
         /\ IsFiniteSet(Callers) /\ Cardinality(Callers) \in Nat
         /\ Cardinality(At(P, i)) <= Cardinality(Callers)
<1>1. IsFiniteSet(Callers) /\ At(P, i) \in SUBSET Callers
  BY CodesAssumption DEF At
<1> QED BY <1>1, FS_Subset, FS_CardinalityType

\* A request goes on to q.
GoesTo(r, q) == request' = [request EXCEPT ![r] = q]

\* What its move does to the number of requests at P.
LEMMA MovesCount ==
  ASSUME request \in [Callers -> Request], NEW r \in Callers, NEW q, GoesTo(r, q), NEW P, NEW i
  PROVE  /\ Cardinality(At(P, i)) \in Nat
         /\ Cardinality(At(P, i)') =
              Cardinality(At(P, i)) + (IF q.pc \in P /\ q.row = i THEN 1 ELSE 0)
                - (IF request[r].pc \in P /\ request[r].row = i THEN 1 ELSE 0)
<1> DEFINE S == At(P, i)
<1>1. IsFiniteSet(S) /\ Cardinality(S) \in Nat
  BY CountingRequests
<1>2. r \in S <=> request[r].pc \in P /\ request[r].row = i
  BY DEF At
<1>3. CASE q.pc \in P /\ q.row = i
  <2>1. At(P, i)' = S \cup {r}
    BY <1>3 DEF At, GoesTo
  <2>2. Cardinality(S \cup {r}) = IF r \in S THEN Cardinality(S) ELSE Cardinality(S) + 1
    <3> HIDE DEF S
    <3> QED BY <1>1, FS_AddElement
  <2> QED BY <1>1, <1>2, <1>3, <2>1, <2>2
<1>4. CASE ~(q.pc \in P /\ q.row = i)
  <2>1. At(P, i)' = S \ {r}
    BY <1>4 DEF At, GoesTo
  <2>2. Cardinality(S \ {r}) = IF r \in S THEN Cardinality(S) - 1 ELSE Cardinality(S)
    <3> HIDE DEF S
    <3> QED BY <1>1, FS_RemoveElement
  <2> QED BY <1>1, <1>2, <1>4, <2>1, <2>2
<1> QED BY <1>3, <1>4

\* A request that stands elsewhere leaves room for itself.
LEMMA RoomForOne ==
  ASSUME NEW r \in Callers, request[r].pc = "idle", NEW i
  PROVE  /\ Cardinality(Guessing(i)) + Cardinality(Counting(i)) + 1 <= Cardinality(Callers)
         /\ Cardinality(Accepting(i)) + 1 <= Cardinality(Callers)
<1> DEFINE G == Guessing(i)  K == Counting(i)  A == Accepting(i)
<1>1. /\ IsFiniteSet(G) /\ IsFiniteSet(K) /\ IsFiniteSet(A) /\ IsFiniteSet(Callers)
      /\ Cardinality(G) \in Nat /\ Cardinality(K) \in Nat /\ Cardinality(A) \in Nat
  BY CountingRequests DEF Guessing, Counting, Accepting
<1>2. /\ G \cap K = {} /\ r \notin G \cup K /\ r \notin A
      /\ G \cup K \cup {r} \in SUBSET Callers /\ A \cup {r} \in SUBSET Callers
  BY DEF Guessing, Counting, Accepting, At
<1>3. IsFiniteSet(G \cup K) /\ Cardinality(G \cup K) = Cardinality(G) + Cardinality(K)
  <2>1. Cardinality({}) = 0
    BY FS_EmptySet
  <2> HIDE DEF G, K
  <2>2. /\ IsFiniteSet(G \cup K)
        /\ Cardinality(G \cup K) = Cardinality(G) + Cardinality(K) - Cardinality(G \cap K)
    BY <1>1, FS_Union
  <2>3. Cardinality(G \cap K) = 0
    BY <1>2, <2>1
  <2> QED BY <1>1, <2>2, <2>3
<1>4. Cardinality((G \cup K) \cup {r}) = Cardinality(G) + Cardinality(K) + 1
  <2> HIDE DEF G, K
  <2> QED BY <1>1, <1>2, <1>3, FS_AddElement
<1>5. Cardinality(A \cup {r}) = Cardinality(A) + 1
  <2> HIDE DEF A
  <2> QED BY <1>1, <1>2, FS_AddElement
<1>6. /\ Cardinality((G \cup K) \cup {r}) <= Cardinality(Callers)
      /\ Cardinality(A \cup {r}) <= Cardinality(Callers)
  <2> HIDE DEF G, K, A
  <2> QED BY <1>1, <1>2, FS_Subset
<1> QED BY <1>4, <1>5, <1>6

\* The latest of some rows is one of them.
LEMMA LatestIsUnused ==
  ASSUME RowsAndRequests, NEW c, Unused(c) # {}
  PROVE  /\ Latest(c) \in DOMAIN otps
         /\ ~otps[Latest(c)].deleted /\ ~otps[Latest(c)].isUsed
<1> DEFINE U == Unused(c)  n == Len(otps)  T == {n - i : i \in U}
<1>1. U \subseteq 1..n /\ n \in Nat
  BY DEF RowsAndRequests, Unused
<1>2. T \subseteq Nat /\ T # {}
  BY <1>1
<1>3. PICK m \in T : \A y \in T : ~(<<y, m>> \in OpToRel(<, Nat))
  <2> HIDE DEF T
  <2> QED BY <1>2, NatLessThanWellFounded, WFMin
<1>4. \A y \in T : ~(y < m)
  BY <1>2, <1>3 DEF OpToRel
<1>5. PICK x \in U : m = n - x
  OBVIOUS
<1>6. ASSUME NEW y \in U PROVE x >= y
  <2>1. ~(n - y < m)
    BY <1>4
  <2> QED BY <1>1, <1>5, <2>1
<1>7. Max(U) \in U
  <2> HIDE DEF U
  <2> QED BY <1>6 DEF Max
<1> QED BY <1>7 DEF Latest, Unused

-----------------------------------------------------------------------------
(* Steps that count nothing *)

\* Rows are used up and deleted, never the other way round.
RowsAge ==
  /\ otps' \in Seq(OtpRow) /\ DOMAIN otps' = DOMAIN otps
  /\ \A i \in DOMAIN otps :
       /\ otps'[i].attempts = otps[i].attempts
       /\ otps[i].isUsed => otps'[i].isUsed
       /\ otps[i].deleted => otps'[i].deleted

LEMMA SameRows == ASSUME RowsAndRequests, UNCHANGED otps PROVE RowsAge
BY DEF RowsAge, RowsAndRequests

LEMMA UsedUp ==
  ASSUME RowsAndRequests, NEW i \in DOMAIN otps, otps' = UseUp(i)
  PROVE  RowsAge /\ otps'[i].isUsed
<1>1. /\ otps \in Seq(OtpRow) /\ Len(otps) \in Nat /\ DOMAIN otps = 1..Len(otps)
      /\ \A j \in DOMAIN otps : otps[j] \in OtpRow
  BY DEF RowsAndRequests
<1>2. [otps[i] EXCEPT !.isUsed = TRUE] \in OtpRow
  BY <1>1 DEF OtpRow
<1>3. otps' = [otps EXCEPT ![i] = [otps[i] EXCEPT !.isUsed = TRUE]]
  BY DEF UseUp
<1>4. otps' \in Seq(OtpRow) /\ DOMAIN otps' = DOMAIN otps
  BY <1>1, <1>2, <1>3
<1>5. \A j \in DOMAIN otps :
        otps'[j] = IF j = i THEN [otps[i] EXCEPT !.isUsed = TRUE] ELSE otps[j]
  BY <1>1, <1>3
<1> QED BY <1>1, <1>4, <1>5 DEF RowsAge, OtpRow

LEMMA GoesSoundly ==
  ASSUME RowsAndRequests, NEW r \in Callers, NEW q \in Request, GoesTo(r, q),
         DOMAIN otps \subseteq DOMAIN otps', SoundRequest(q)'
  PROVE  request' \in [Callers -> Request] /\ \A x \in Callers : SoundRequest(request[x])'
BY DEF RowsAndRequests, GoesTo, SoundRequest

LEMMA ProceedGoes ==
  ASSUME RowsAndRequests, NEW r \in Callers, NEW label \in RequestPC, Proceed(r, label)
  PROVE  LET q == [request[r] EXCEPT !.pc = label] IN
         /\ q \in Request /\ GoesTo(r, q)
         /\ q.pc = label /\ q.row = request[r].row /\ q.to = request[r].to
<1>1. request[r] \in Request
  BY DEF RowsAndRequests
<1> QED BY <1>1 DEF Proceed, GoesTo, Request

LEMMA FinishGoes ==
  ASSUME NEW r \in Callers, Finish(r)
  PROVE  NoRequest \in Request /\ GoesTo(r, NoRequest) /\ SoundRequest(NoRequest)'
BY DEF Finish, GoesTo, NoRequest, Request, RequestPC, Purpose, SoundRequest, RowSteps

LEMMA RowsAgeOnly ==
  ASSUME CodesInv, RowsAge, UNCHANGED <<compared, accepted, request>>
  PROVE  CodesInv'
<1>1. RowsAndRequests'
  BY DEF CodesInv, RowsAndRequests, RowsAge, SoundRequest
<1>2. ASSUME NEW i \in DOMAIN otps' PROVE GuessesAccounted(i)' /\ AcceptsAccounted(i)'
  BY DEF CodesInv, GuessesAccounted, AcceptsAccounted, RowsAge, Guessing, Counting, Accepting, At
<1> QED BY <1>1, <1>2 DEF CodesInv

-----------------------------------------------------------------------------
(* Steps that count *)

LEMMA Counts ==
  ASSUME CodesInv, NEW r \in Callers, NEW q, GoesTo(r, q), NEW i
  PROVE  /\ Cardinality(Guessing(i)) \in Nat /\ Cardinality(Counting(i)) \in Nat
         /\ Cardinality(Accepting(i)) \in Nat
         /\ Cardinality(Guessing(i)') =
              Cardinality(Guessing(i)) + (IF q.pc = "guess" /\ q.row = i THEN 1 ELSE 0)
                - (IF request[r].pc = "guess" /\ request[r].row = i THEN 1 ELSE 0)
         /\ Cardinality(Counting(i)') =
              Cardinality(Counting(i)) + (IF q.pc = "count" /\ q.row = i THEN 1 ELSE 0)
                - (IF request[r].pc = "count" /\ request[r].row = i THEN 1 ELSE 0)
         /\ Cardinality(Accepting(i)') =
              Cardinality(Accepting(i)) +
                (IF q.pc \in {"guess", "spend"} /\ q.row = i THEN 1 ELSE 0)
                - (IF request[r].pc \in {"guess", "spend"} /\ request[r].row = i THEN 1 ELSE 0)
<1>1. request \in [Callers -> Request]
  BY DEF CodesInv, RowsAndRequests
<1>2. /\ Cardinality(Guessing(i)) \in Nat
      /\ Cardinality(Guessing(i)') =
              Cardinality(Guessing(i)) + (IF q.pc \in {"guess"} /\ q.row = i THEN 1 ELSE 0)
                - (IF request[r].pc \in {"guess"} /\ request[r].row = i THEN 1 ELSE 0)
  BY <1>1, MovesCount DEF Guessing
<1>3. /\ Cardinality(Counting(i)) \in Nat
      /\ Cardinality(Counting(i)') =
              Cardinality(Counting(i)) + (IF q.pc \in {"count"} /\ q.row = i THEN 1 ELSE 0)
                - (IF request[r].pc \in {"count"} /\ request[r].row = i THEN 1 ELSE 0)
  BY <1>1, MovesCount DEF Counting
<1>4. /\ Cardinality(Accepting(i)) \in Nat
      /\ Cardinality(Accepting(i)') =
              Cardinality(Accepting(i)) +
                (IF q.pc \in {"guess", "spend"} /\ q.row = i THEN 1 ELSE 0)
                - (IF request[r].pc \in {"guess", "spend"} /\ request[r].row = i THEN 1 ELSE 0)
  BY <1>1, MovesCount DEF Accepting
<1> QED BY <1>2, <1>3, <1>4

LEMMA RowFacts ==
  ASSUME CodesInv, NEW i \in DOMAIN otps
  PROVE  /\ compared[i] \in Nat /\ accepted[i] \in Nat
         /\ otps[i] \in OtpRow /\ otps[i].attempts \in Nat
         /\ GuessesAccounted(i) /\ AcceptsAccounted(i)
         /\ GuessLimit \in Nat \ {0} /\ Cardinality(Callers) \in Nat
<1>1. GuessLimit \in Nat \ {0} /\ Cardinality(Callers) \in Nat
  BY CodesAssumption, CountingRequests
<1>2. otps[i] \in OtpRow
  BY DEF CodesInv, RowsAndRequests
<1> QED BY <1>1, <1>2 DEF CodesInv, RowsAndRequests, OtpRow

\* A request that had no guess to count, unless its row is deleted, and that
\* gets no row to compare.
LEMMA RequestLeaves ==
  ASSUME CodesInv, RowsAge, UNCHANGED <<compared, accepted>>,
         NEW r \in Callers, NEW q \in Request, GoesTo(r, q), SoundRequest(q)',
         request[r].pc = "count" => otps[request[r].row].deleted,
         q.pc \notin {"guess", "spend", "count"}
  PROVE  CodesInv'
<1>1. RowsAndRequests'
  <2>1. request' \in [Callers -> Request] /\ \A x \in Callers : SoundRequest(request[x])'
    BY GoesSoundly DEF CodesInv, RowsAge
  <2> QED BY <2>1 DEF CodesInv, RowsAndRequests, RowsAge
<1>2. ASSUME NEW i \in DOMAIN otps PROVE GuessesAccounted(i)' /\ AcceptsAccounted(i)'
  <2>1. /\ Cardinality(Guessing(i)) \in Nat /\ Cardinality(Counting(i)) \in Nat
        /\ Cardinality(Accepting(i)) \in Nat
        /\ Cardinality(Guessing(i)') \in {Cardinality(Guessing(i)), Cardinality(Guessing(i)) - 1}
        /\ ~otps[i].deleted => Cardinality(Counting(i)') = Cardinality(Counting(i))
        /\ Cardinality(Accepting(i)') \in {Cardinality(Accepting(i)), Cardinality(Accepting(i)) - 1}
    BY Counts
  <2>2. /\ compared'[i] = compared[i] /\ accepted'[i] = accepted[i]
        /\ otps'[i].attempts = otps[i].attempts
        /\ ~otps'[i].deleted => ~otps[i].deleted
        /\ otps[i].isUsed => otps'[i].isUsed
    BY DEF RowsAge
  <2> QED BY <2>1, <2>2, RowFacts DEF GuessesAccounted, AcceptsAccounted
<1>3. DOMAIN otps' = DOMAIN otps
  BY DEF RowsAge
<1> QED BY <1>1, <1>2, <1>3 DEF CodesInv

\* A step of request r to q that leaves the rows' number alone.
LEMMA RowsAndRequestsStep ==
  ASSUME CodesInv, otps' \in Seq(OtpRow), DOMAIN otps' = DOMAIN otps,
         compared' \in [DOMAIN otps -> Nat], accepted' \in [DOMAIN otps -> Nat],
         NEW r \in Callers, NEW q \in Request, GoesTo(r, q), SoundRequest(q)'
  PROVE  RowsAndRequests'
<1>1. request' \in [Callers -> Request] /\ \A x \in Callers : SoundRequest(request[x])'
  BY GoesSoundly DEF CodesInv
<1> QED BY <1>1 DEF RowsAndRequests

-----------------------------------------------------------------------------
(* The actions *)

LEMMA AskStep ==
  ASSUME CodesInv, NEW r \in Callers, NEW c \in Contacts, NEW who \in Users \cup {Nobody},
         NEW purpose \in Purpose, AskCode(r, c, who, purpose)
  PROVE  CodesInv'
<1> DEFINE q == [NoRequest EXCEPT !.pc = "send", !.to = c, !.who = who, !.purpose = purpose]
<1>1. q \in Request /\ GoesTo(r, q) /\ SoundRequest(q)'
  BY DEF AskCode, GoesTo, NoRequest, Request, RequestPC, SoundRequest, RowSteps
<1>2. /\ RowsAge /\ UNCHANGED <<compared, accepted>> /\ request[r].pc = "idle"
      /\ q.pc = "send"
  BY SameRows DEF AskCode, CodesInv, NoRequest
<1> HIDE DEF q
<1> QED BY <1>1, <1>2, RequestLeaves

LEMMA CreateStep ==
  ASSUME CodesInv, NEW r \in Callers, CreateOtp(r)
  PROVE  CodesInv'
<1>0. PICK n : n = Len(otps) + 1
  OBVIOUS
<1> DEFINE row == [to |-> request[r].to, attempts |-> 0, isUsed |-> FALSE,
                  age |-> "fresh", deleted |-> FALSE]
<1>1. RowsAndRequests /\ Len(otps) \in Nat /\ DOMAIN otps = 1..Len(otps)
  BY DEF CodesInv, RowsAndRequests
<1>2. NoRequest \in Request /\ GoesTo(r, NoRequest) /\ SoundRequest(NoRequest)'
  BY FinishGoes DEF CreateOtp
<1>3. request[r].pc = "send" /\ NoRequest.pc = "idle" /\ request[r] \in Request
  BY <1>1 DEF CreateOtp, RowsAndRequests, NoRequest
<1>4. row \in OtpRow
  BY <1>1, <1>3 DEF RowsAndRequests, SoundRequest, OtpRow, Age
<1>5. /\ otps' \in Seq(OtpRow) /\ DOMAIN otps' = DOMAIN otps \cup {n} /\ n \notin DOMAIN otps
      /\ \A i \in DOMAIN otps : otps'[i] = otps[i]
      /\ otps'[n] = row
  BY <1>0, <1>1, <1>4 DEF CreateOtp, RowsAndRequests
<1>6. /\ DOMAIN compared = 1..Len(otps) /\ DOMAIN accepted = 1..Len(otps)
      /\ compared \in Seq(Nat) /\ accepted \in Seq(Nat)
  <2>1. \A f \in [1..Len(otps) -> Nat] : f \in Seq(Nat) /\ Len(f) = Len(otps)
    BY <1>1
  <2> QED BY <1>1, <2>1 DEF RowsAndRequests
<1>7. /\ compared' \in [DOMAIN otps' -> Nat] /\ compared'[n] = 0
      /\ accepted' \in [DOMAIN otps' -> Nat] /\ accepted'[n] = 0
      /\ \A i \in DOMAIN otps : compared'[i] = compared[i] /\ accepted'[i] = accepted[i]
  <2>1. compared' = Append(compared, 0) /\ accepted' = Append(accepted, 0)
    BY DEF CreateOtp
  <2>2. Len(compared) = Len(otps) /\ Len(accepted) = Len(otps)
    BY <1>1, <1>6
  <2>3. ASSUME NEW f \in Seq(Nat), Len(f) = Len(otps)
        PROVE  /\ Append(f, 0) \in [DOMAIN otps' -> Nat] /\ Append(f, 0)[n] = 0
               /\ \A i \in DOMAIN otps : Append(f, 0)[i] = f[i]
    <3>1. DOMAIN otps' = 1..(Len(otps) + 1)
      BY <1>0, <1>1, <1>5
    <3>2. /\ Append(f, 0) \in Seq(Nat) /\ Len(Append(f, 0)) = n /\ Append(f, 0)[n] = 0
          /\ \A i \in 1..Len(otps) : Append(f, 0)[i] = f[i]
      BY <1>0, <1>1, <2>3
    <3>3. Append(f, 0) \in [1..n -> Nat]
      <4>1. \A g \in Seq(Nat) : g \in [1..Len(g) -> Nat]
        OBVIOUS
      <4> QED BY <3>2, <4>1
    <3> QED BY <1>0, <1>1, <3>1, <3>2, <3>3
  <2> QED BY <1>6, <2>1, <2>2, <2>3
<1>8. RowsAndRequests'
  <2>1. request' \in [Callers -> Request] /\ \A x \in Callers : SoundRequest(request[x])'
    BY <1>1, <1>2, <1>5, GoesSoundly
  <2> QED BY <1>5, <1>7, <2>1 DEF RowsAndRequests
<1>9. ASSUME NEW i \in DOMAIN otps PROVE GuessesAccounted(i)' /\ AcceptsAccounted(i)'
  <2>1. /\ Cardinality(Guessing(i)') = Cardinality(Guessing(i))
        /\ Cardinality(Counting(i)') = Cardinality(Counting(i))
        /\ Cardinality(Accepting(i)') = Cardinality(Accepting(i))
        /\ Cardinality(Guessing(i)) \in Nat /\ Cardinality(Counting(i)) \in Nat
        /\ Cardinality(Accepting(i)) \in Nat
    BY <1>2, <1>3, Counts
  <2> QED BY <1>5, <1>7, <2>1, RowFacts DEF GuessesAccounted, AcceptsAccounted
<1>10. GuessesAccounted(n)' /\ AcceptsAccounted(n)'
  <2>1. \A x \in Callers : request[x].pc \in RowSteps => request[x].row # n
    BY <1>1, <1>5 DEF RowsAndRequests, SoundRequest
  <2>2. \A x \in Callers : request'[x] = request[x] \/ request'[x].pc = "idle"
    BY <1>1, <1>2, <1>3 DEF GoesTo, RowsAndRequests
  <2>3. Guessing(n)' = {} /\ Counting(n)' = {} /\ Accepting(n)' = {}
    BY <2>1, <2>2 DEF Guessing, Counting, Accepting, At, RowSteps
  <2>4. Cardinality({}) = 0 /\ Cardinality(Callers) \in Nat /\ GuessLimit \in Nat \ {0}
    BY FS_EmptySet, CountingRequests, CodesAssumption
  <2> QED BY <1>5, <1>7, <2>3, <2>4 DEF GuessesAccounted, AcceptsAccounted
<1> QED BY <1>5, <1>8, <1>9, <1>10 DEF CodesInv

LEMMA ReadStep ==
  ASSUME CodesInv, NEW r \in Callers, NEW c \in Contacts, NEW who \in Users \cup {Nobody},
         NEW purpose \in Purpose, ReadCode(r, c, who, purpose)
  PROVE  CodesInv'
<1>0. PICK k : k = Latest(c)
  OBVIOUS
<1>1. /\ k \in DOMAIN otps /\ ~otps[k].deleted /\ ~otps[k].isUsed /\ k \in Nat
  <2>1. RowsAndRequests /\ Unused(c) # {}
    BY DEF CodesInv, ReadCode, HasCode
  <2>2. \A i \in DOMAIN otps : i \in Nat
    BY DEF CodesInv, RowsAndRequests
  <2> QED BY <1>0, <2>1, <2>2, LatestIsUnused
<1>2. PICK right \in BOOLEAN :
        GoesTo(r, [pc |-> IF otps[k].attempts >= GuessLimit THEN "burn" ELSE "guess",
                   to |-> c, who |-> who, row |-> k, attempts |-> otps[k].attempts,
                   right |-> right, purpose |-> purpose])
  BY <1>0 DEF ReadCode, GoesTo
<1>q. PICK q : q = [pc |-> IF otps[k].attempts >= GuessLimit THEN "burn" ELSE "guess",
                    to |-> c, who |-> who, row |-> k, attempts |-> otps[k].attempts,
                    right |-> right, purpose |-> purpose]
  OBVIOUS
<1>3. /\ q \in Request /\ q.row = k /\ q.to = c /\ q.pc \in {"burn", "guess"}
      /\ q.pc = "guess" => otps[k].attempts < GuessLimit
  BY <1>1, <1>q, RowFacts DEF Request, RequestPC
<1>4. /\ UNCHANGED <<otps, compared, accepted>> /\ RowsAge /\ request[r].pc = "idle"
  BY SameRows DEF ReadCode, CodesInv
<1>5. SoundRequest(q)' /\ GoesTo(r, q)
  <2>1. GoesTo(r, q)
    BY <1>2, <1>q
  <2>2. SoundRequest(q)'
    BY <1>1, <1>3, <1>4 DEF SoundRequest
  <2> QED BY <2>1, <2>2
<1>6. CASE q.pc = "burn"
  BY <1>3, <1>4, <1>5, <1>6, RequestLeaves
<1>7. CASE q.pc = "guess"
  <2>1. RowsAndRequests'
    BY <1>3, <1>4, <1>5, RowsAndRequestsStep DEF CodesInv, RowsAndRequests
  <2>2. ASSUME NEW i \in DOMAIN otps PROVE GuessesAccounted(i)' /\ AcceptsAccounted(i)'
    <3>1. /\ Cardinality(Guessing(i)) \in Nat /\ Cardinality(Counting(i)) \in Nat
          /\ Cardinality(Accepting(i)) \in Nat
          /\ Cardinality(Guessing(i)') = Cardinality(Guessing(i)) + (IF i = k THEN 1 ELSE 0)
          /\ Cardinality(Counting(i)') = Cardinality(Counting(i))
          /\ Cardinality(Accepting(i)') = Cardinality(Accepting(i)) + (IF i = k THEN 1 ELSE 0)
      BY <1>3, <1>4, <1>5, <1>7, Counts
    <3>2. /\ Cardinality(Guessing(i)) + Cardinality(Counting(i)) + 1 <= Cardinality(Callers)
          /\ Cardinality(Accepting(i)) + 1 <= Cardinality(Callers)
      BY <1>4, RoomForOne
    <3> QED BY <1>1, <1>3, <1>4, <1>7, <3>1, <3>2, RowFacts DEF GuessesAccounted, AcceptsAccounted
  <2> QED BY <1>4, <2>1, <2>2 DEF CodesInv
<1> QED BY <1>3, <1>6, <1>7

LEMMA CompareStep ==
  ASSUME CodesInv, NEW r \in Callers, Compare(r)
  PROVE  CodesInv'
<1>0. PICK k : k = request[r].row
  OBVIOUS
<1>1. /\ request[r].pc = "guess" /\ k \in DOMAIN otps /\ request[r].to \in Contacts
      /\ request[r] \in Request
  BY <1>0 DEF CodesInv, RowsAndRequests, Compare, SoundRequest, RowSteps
<1>2. /\ UNCHANGED <<otps, accepted>> /\ RowsAge
  BY SameRows DEF Compare, CodesInv
<1>3. ASSUME NEW label \in {"burn", "spend", "count"}, Proceed(r, label)
      PROVE  \E q \in Request : /\ GoesTo(r, q) /\ SoundRequest(q)'
                                /\ q.pc = label /\ q.row = k
  <2>1. \E q \in Request : /\ GoesTo(r, q) /\ q.pc = label /\ q.row = request[r].row
                           /\ q.to = request[r].to
    <3>1. label \in RequestPC /\ RowsAndRequests
      BY DEF RequestPC, CodesInv
    <3> QED BY ZenonT(30), <1>3, <3>1, ProceedGoes
  <2> QED BY <1>0, <1>1, <1>2, <2>1 DEF SoundRequest
<1>4. CASE Proceed(r, "burn") /\ UNCHANGED compared
  <2>1. PICK q \in Request : GoesTo(r, q) /\ SoundRequest(q)' /\ q.pc = "burn"
    BY <1>3, <1>4
  <2> QED BY <1>1, <1>2, <1>4, <2>1, RequestLeaves
<1>5. CASE request[r].right /\ Proceed(r, "spend") /\ UNCHANGED compared
  <2>1. PICK q \in Request : GoesTo(r, q) /\ SoundRequest(q)' /\ q.pc = "spend" /\ q.row = k
    BY <1>3, <1>5
  <2>2. RowsAndRequests'
    BY <1>2, <1>5, <2>1, RowsAndRequestsStep DEF CodesInv, RowsAndRequests
  <2>3. ASSUME NEW i \in DOMAIN otps PROVE GuessesAccounted(i)' /\ AcceptsAccounted(i)'
    <3>1. /\ Cardinality(Guessing(i)) \in Nat /\ Cardinality(Counting(i)) \in Nat
          /\ Cardinality(Accepting(i)) \in Nat
          /\ Cardinality(Guessing(i)') = Cardinality(Guessing(i)) - (IF i = k THEN 1 ELSE 0)
          /\ Cardinality(Counting(i)') = Cardinality(Counting(i))
          /\ Cardinality(Accepting(i)') = Cardinality(Accepting(i))
      BY <1>0, <1>1, <2>1, Counts
    <3> QED BY <1>2, <1>5, <3>1, RowFacts DEF GuessesAccounted, AcceptsAccounted
  <2> QED BY <1>2, <2>2, <2>3 DEF CodesInv
<1>6. CASE Proceed(r, "count") /\ compared' = [compared EXCEPT ![k] = @ + 1]
  <2>1. PICK q \in Request : GoesTo(r, q) /\ SoundRequest(q)' /\ q.pc = "count" /\ q.row = k
    BY <1>3, <1>6
  <2>2. /\ compared' \in [DOMAIN otps -> Nat]
        /\ \A i \in DOMAIN otps : compared'[i] = compared[i] + (IF i = k THEN 1 ELSE 0)
    BY <1>1, <1>6 DEF CodesInv, RowsAndRequests
  <2>3. RowsAndRequests'
    BY <1>2, <2>1, <2>2, RowsAndRequestsStep DEF CodesInv, RowsAndRequests
  <2>4. ASSUME NEW i \in DOMAIN otps PROVE GuessesAccounted(i)' /\ AcceptsAccounted(i)'
    <3>1. /\ Cardinality(Guessing(i)) \in Nat /\ Cardinality(Counting(i)) \in Nat
          /\ Cardinality(Accepting(i)) \in Nat
          /\ Cardinality(Guessing(i)') = Cardinality(Guessing(i)) - (IF i = k THEN 1 ELSE 0)
          /\ Cardinality(Counting(i)') = Cardinality(Counting(i)) + (IF i = k THEN 1 ELSE 0)
          /\ Cardinality(Accepting(i)') = Cardinality(Accepting(i)) - (IF i = k THEN 1 ELSE 0)
      BY <1>0, <1>1, <2>1, Counts
    <3> QED BY <1>2, <2>2, <3>1, RowFacts DEF GuessesAccounted, AcceptsAccounted
  <2> QED BY <1>2, <2>3, <2>4 DEF CodesInv
<1>7. request[r].right \in BOOLEAN
  BY <1>1 DEF Request
<1> QED BY <1>0, <1>4, <1>5, <1>6, <1>7 DEF Compare

LEMMA CountStep ==
  ASSUME CodesInv, NEW r \in Callers, CountGuess(r)
  PROVE  CodesInv'
<1>0. PICK k : k = request[r].row
  OBVIOUS
<1>1. /\ request[r].pc = "count" /\ k \in DOMAIN otps /\ request[r].to \in Contacts
      /\ UNCHANGED <<compared, accepted>>
  BY <1>0 DEF CodesInv, RowsAndRequests, CountGuess, SoundRequest, RowSteps
<1>2. CASE otps[k].deleted /\ Finish(r) /\ UNCHANGED otps
  <2>1. /\ NoRequest \in Request /\ GoesTo(r, NoRequest) /\ SoundRequest(NoRequest)'
        /\ NoRequest.pc = "idle"
    BY <1>2, FinishGoes DEF NoRequest
  <2> QED BY <1>0, <1>1, <1>2, <2>1, SameRows, RequestLeaves DEF CodesInv
<1>3. CASE /\ ~otps[k].deleted /\ otps' = CountInRow(k)
           /\ Proceed(r, "burn") \/ Finish(r)
  <2>1. /\ otps \in Seq(OtpRow) /\ DOMAIN otps = 1..Len(otps) /\ Len(otps) \in Nat
        /\ otps[k] \in OtpRow
    BY <1>1 DEF CodesInv, RowsAndRequests
  <2>2. [otps[k] EXCEPT !.attempts = @ + 1] \in OtpRow
    BY SMTT(30), <2>1 DEF OtpRow
  <2>3. otps' = [otps EXCEPT ![k] = [otps[k] EXCEPT !.attempts = @ + 1]]
    BY <1>3 DEF CountInRow
  <2>4. /\ otps' \in Seq(OtpRow) /\ DOMAIN otps' = DOMAIN otps
        /\ \A i \in DOMAIN otps :
             otps'[i] = IF i = k THEN [otps[k] EXCEPT !.attempts = @ + 1] ELSE otps[i]
    BY <1>1, <2>1, <2>2, <2>3
  <2>5. \A i \in DOMAIN otps :
          /\ otps'[i].attempts = otps[i].attempts + (IF i = k THEN 1 ELSE 0)
          /\ otps'[i].deleted = otps[i].deleted /\ otps'[i].isUsed = otps[i].isUsed
    <3>1. \A i \in DOMAIN otps : otps[i].attempts \in Nat
      BY RowFacts
    <3> QED BY <1>1, <2>1, <2>4, <3>1 DEF OtpRow
  <2>6. \E q \in Request : GoesTo(r, q) /\ SoundRequest(q)' /\ q.pc \in {"burn", "idle"}
    <3>1. CASE Finish(r)
      BY <3>1, FinishGoes DEF NoRequest
    <3>2. CASE Proceed(r, "burn")
      <4>1. \E q \in Request : /\ GoesTo(r, q) /\ q.pc = "burn" /\ q.row = request[r].row
                               /\ q.to = request[r].to
        BY <3>2, ProceedGoes DEF RequestPC, CodesInv
      <4> QED BY <1>0, <1>1, <2>4, <4>1 DEF SoundRequest
    <3> QED BY <1>3, <3>1, <3>2
  <2>7. PICK q \in Request : GoesTo(r, q) /\ SoundRequest(q)' /\ q.pc \in {"burn", "idle"}
    BY <2>6
  <2>8. RowsAndRequests'
    BY <1>1, <2>4, <2>7, RowsAndRequestsStep DEF CodesInv, RowsAndRequests
  <2>9. ASSUME NEW i \in DOMAIN otps PROVE GuessesAccounted(i)' /\ AcceptsAccounted(i)'
    <3>1. /\ Cardinality(Guessing(i)) \in Nat /\ Cardinality(Counting(i)) \in Nat
          /\ Cardinality(Accepting(i)) \in Nat
          /\ Cardinality(Guessing(i)') = Cardinality(Guessing(i))
          /\ Cardinality(Counting(i)') = Cardinality(Counting(i)) - (IF i = k THEN 1 ELSE 0)
          /\ Cardinality(Accepting(i)') = Cardinality(Accepting(i))
      BY <1>0, <1>1, <2>7, Counts
    <3> QED BY <1>1, <2>5, <3>1, RowFacts DEF GuessesAccounted, AcceptsAccounted
  <2> QED BY <2>4, <2>8, <2>9 DEF CodesInv
<1> QED BY <1>0, <1>2, <1>3 DEF CountGuess

LEMMA BurnStep ==
  ASSUME CodesInv, NEW r \in Callers, BurnCode(r)
  PROVE  CodesInv'
<1>0. PICK k : k = request[r].row
  OBVIOUS
<1>1. /\ request[r].pc = "burn" /\ k \in DOMAIN otps /\ UNCHANGED <<compared, accepted>>
  BY <1>0 DEF CodesInv, RowsAndRequests, BurnCode, SoundRequest, RowSteps
<1>2. RowsAge
  <2>1. otps' = otps \/ otps' = UseUp(k)
    BY <1>0 DEF BurnCode
  <2> QED BY <1>1, <2>1, SameRows, UsedUp DEF CodesInv
<1>3. /\ NoRequest \in Request /\ GoesTo(r, NoRequest) /\ SoundRequest(NoRequest)'
      /\ NoRequest.pc = "idle"
  BY FinishGoes DEF BurnCode, NoRequest
<1> QED BY <1>1, <1>2, <1>3, RequestLeaves

LEMMA SpendStep ==
  ASSUME CodesInv, NEW r \in Callers, SpendCode(r)
  PROVE  CodesInv'
<1>0. PICK k : k = request[r].row
  OBVIOUS
<1>1. /\ request[r].pc = "spend" /\ k \in DOMAIN otps /\ request[r].to \in Contacts
      /\ UNCHANGED compared
  BY <1>0 DEF CodesInv, RowsAndRequests, SpendCode, SoundRequest, RowSteps
<1>2. CASE Finish(r) /\ UNCHANGED <<otps, accepted>>
  <2>1. /\ NoRequest \in Request /\ GoesTo(r, NoRequest) /\ SoundRequest(NoRequest)'
        /\ NoRequest.pc = "idle"
    BY <1>2, FinishGoes DEF NoRequest
  <2> QED BY <1>1, <1>2, <2>1, SameRows, RequestLeaves DEF CodesInv
<1>3. CASE /\ otps' = UseUp(k) /\ accepted' = [accepted EXCEPT ![k] = @ + 1]
           /\ Proceed(r, "open") \/ Proceed(r, "link")
  <2>1. RowsAge /\ otps'[k].isUsed
    BY <1>1, <1>3, UsedUp DEF CodesInv
  <2>2. /\ accepted' \in [DOMAIN otps -> Nat]
        /\ \A i \in DOMAIN otps : accepted'[i] = accepted[i] + (IF i = k THEN 1 ELSE 0)
    BY <1>1, <1>3 DEF CodesInv, RowsAndRequests
  <2>3. \E q \in Request : GoesTo(r, q) /\ SoundRequest(q)' /\ q.pc \in {"open", "link"}
    <3>1. \E q \in Request : /\ GoesTo(r, q) /\ q.pc \in {"open", "link"}
                             /\ q.to = request[r].to
      BY <1>3, ProceedGoes DEF RequestPC, CodesInv
    <3> QED BY <1>1, <3>1 DEF SoundRequest, RowSteps
  <2>4. PICK q \in Request : GoesTo(r, q) /\ SoundRequest(q)' /\ q.pc \in {"open", "link"}
    BY <2>3
  <2>5. RowsAndRequests'
    BY <1>1, <2>1, <2>2, <2>4, RowsAndRequestsStep DEF CodesInv, RowsAndRequests, RowsAge
  <2>6. ASSUME NEW i \in DOMAIN otps PROVE GuessesAccounted(i)' /\ AcceptsAccounted(i)'
    <3>1. /\ Cardinality(Guessing(i)) \in Nat /\ Cardinality(Counting(i)) \in Nat
          /\ Cardinality(Accepting(i)) \in Nat
          /\ Cardinality(Guessing(i)') = Cardinality(Guessing(i))
          /\ Cardinality(Counting(i)') = Cardinality(Counting(i))
          /\ Cardinality(Accepting(i)') = Cardinality(Accepting(i)) - (IF i = k THEN 1 ELSE 0)
      BY <1>0, <1>1, <2>4, Counts
    <3>2. /\ otps'[i].attempts = otps[i].attempts
          /\ ~otps'[i].deleted => ~otps[i].deleted
          /\ otps[i].isUsed => otps'[i].isUsed
          /\ i = k => otps'[i].isUsed
      BY <2>1 DEF RowsAge
    <3>3. GuessesAccounted(i)'
      BY <1>1, <3>1, <3>2, RowFacts DEF GuessesAccounted
    <3>4. AcceptsAccounted(i)'
      BY <2>2, <3>1, <3>2, RowFacts DEF AcceptsAccounted
    <3> QED BY <3>3, <3>4
  <2> QED BY <2>1, <2>5, <2>6 DEF CodesInv, RowsAge
<1> QED BY <1>0, <1>2, <1>3 DEF SpendCode, Spend

\* What a request does to the accounts leaves its codes alone.
LEMMA AccountStep ==
  ASSUME CodesInv, NEW r \in Callers,
         OpenAccount(r) \/ LinkContact(r) \/ EditContactSave(r)
  PROVE  CodesInv'
<1>1. /\ NoRequest \in Request /\ GoesTo(r, NoRequest) /\ SoundRequest(NoRequest)'
      /\ NoRequest.pc = "idle"
  BY FinishGoes DEF OpenAccount, LinkContact, EditContactSave, NoRequest
<1>2. UNCHANGED <<otps, compared, accepted>> /\ request[r].pc # "count"
  BY DEF OpenAccount, LinkContact, EditContactSave
<1> QED BY <1>1, <1>2, SameRows, RequestLeaves DEF CodesInv

LEMMA EditStep ==
  ASSUME CodesInv, NEW r \in Callers, EditContact(r)
  PROVE  CodesInv'
<1>1. PICK u \in Users, c \in Contacts :
        GoesTo(r, [NoRequest EXCEPT !.pc = "profile", !.to = c, !.who = u])
  BY DEF EditContact, GoesTo
<1>2. PICK q : q = [NoRequest EXCEPT !.pc = "profile", !.to = c, !.who = u]
  OBVIOUS
<1>3. q \in Request /\ q.pc = "profile" /\ q.to = c
  BY <1>2 DEF NoRequest, Request, RequestPC, Purpose
<1>4. GoesTo(r, q) /\ SoundRequest(q)'
  BY <1>1, <1>2, <1>3 DEF SoundRequest, RowSteps
<1>5. UNCHANGED <<otps, compared, accepted>> /\ request[r].pc # "count"
  BY DEF EditContact
<1> QED BY <1>3, <1>4, <1>5, SameRows, RequestLeaves DEF CodesInv

LEMMA TimeStep ==
  ASSUME CodesInv,
         \/ CooldownEnds \/ CodeAges \/ CleanupExpiredOtpLogs
         \/ \E r \in Callers : GoogleAuth(r)
         \/ UNCHANGED codeVars
  PROVE  CodesInv'
<1>1. UNCHANGED <<compared, accepted, request>>
  BY DEF CooldownEnds, CodeAges, CleanupExpiredOtpLogs, GoogleAuth, codeVars
<1>2. /\ RowsAndRequests /\ otps \in Seq(OtpRow) /\ Len(otps) \in Nat
      /\ DOMAIN otps = 1..Len(otps) /\ \A i \in DOMAIN otps : otps[i] \in OtpRow
  BY DEF CodesInv, RowsAndRequests
<1>3. CASE UNCHANGED otps
  BY <1>1, <1>2, <1>3, SameRows, RowsAgeOnly
<1>4. CASE CodeAges
  <2>1. PICK k \in DOMAIN otps :
          otps' = [otps EXCEPT ![k].age = IF @ = "fresh" THEN "expired" ELSE "old"]
    BY <1>4 DEF CodeAges
  <2>2. PICK row : row = [otps[k] EXCEPT !.age = IF @ = "fresh" THEN "expired" ELSE "old"]
    OBVIOUS
  <2>3. /\ row \in OtpRow /\ row.attempts = otps[k].attempts /\ row.isUsed = otps[k].isUsed
        /\ row.deleted = otps[k].deleted
    BY <1>2, <2>2 DEF OtpRow, Age
  <2>4. otps' = [otps EXCEPT ![k] = row]
    BY <2>1, <2>2
  <2>5. RowsAge
    BY <1>2, <2>3, <2>4 DEF RowsAge
  <2> QED BY <1>1, <2>5, RowsAgeOnly
<1>5. CASE CleanupExpiredOtpLogs
  <2>1. otps' = [i \in DOMAIN otps |->
                   IF otps[i].isUsed \/ otps[i].age # "fresh"
                   THEN [otps[i] EXCEPT !.deleted = TRUE] ELSE otps[i]]
    BY <1>5 DEF CleanupExpiredOtpLogs
  <2>2. \A i \in DOMAIN otps :
          /\ otps'[i] \in OtpRow /\ otps'[i].attempts = otps[i].attempts
          /\ otps'[i].isUsed = otps[i].isUsed
          /\ otps[i].deleted => otps'[i].deleted
    BY <1>2, <2>1 DEF OtpRow
  <2>3. otps' \in Seq(OtpRow) /\ DOMAIN otps' = DOMAIN otps
    <3>1. DOMAIN otps' = 1..Len(otps) /\ otps' \in [1..Len(otps) -> OtpRow]
      BY <1>2, <2>1, <2>2
    <3> QED BY <1>2, <3>1
  <2>4. RowsAge
    BY <2>2, <2>3 DEF RowsAge
  <2> QED BY <1>1, <2>4, RowsAgeOnly
<1> QED BY <1>3, <1>4, <1>5 DEF CooldownEnds, GoogleAuth, codeVars

-----------------------------------------------------------------------------
(* The theorem *)

LEMMA InitiallyCounted == CodesInit => CodesInv
<1> SUFFICES ASSUME CodesInit PROVE CodesInv
  OBVIOUS
<1>1. otps = <<>> /\ compared = <<>> /\ accepted = <<>> /\ DOMAIN otps = {}
  BY DEF CodesInit
<1>2. otps \in Seq(OtpRow) /\ compared \in [DOMAIN otps -> Nat] /\ accepted \in [DOMAIN otps -> Nat]
  BY <1>1
<1>3. request \in [Callers -> Request] /\ \A r \in Callers : request[r].pc = "idle"
  BY DEF CodesInit, NoRequest, Request, RequestPC, Purpose
<1> QED BY <1>1, <1>2, <1>3 DEF CodesInv, RowsAndRequests, SoundRequest, RowSteps

LEMMA StepsAreCounted == CodesInv /\ [CodesNext]_codeVars => CodesInv'
<1> SUFFICES ASSUME CodesInv, [CodesNext]_codeVars PROVE CodesInv'
  OBVIOUS
<1>1. Phones \subseteq Contacts /\ Mails \subseteq Contacts /\ {"login", "verification"} \subseteq Purpose
  BY DEF Contacts, Purpose
<1>2. ASSUME NEW r \in Callers,
             SendOtp(r) \/ SendEmailOtp(r) \/ SendEmailVerification(r) \/ SendMobileVerification(r)
      PROVE  CodesInv'
  <2>1. \E c \in Contacts, who \in Users \cup {Nobody}, purpose \in Purpose :
          AskCode(r, c, who, purpose)
    BY <1>1, <1>2 DEF SendOtp, SendEmailOtp, SendEmailVerification, SendMobileVerification
  <2> QED BY <2>1, AskStep
<1>3. ASSUME NEW r \in Callers,
             VerifyOtp(r) \/ VerifyEmailOtp(r) \/ VerifyEmail(r) \/ VerifyMobile(r)
      PROVE  CodesInv'
  <2>1. \E c \in Contacts, who \in Users \cup {Nobody}, purpose \in Purpose :
          ReadCode(r, c, who, purpose)
    BY <1>1, <1>3 DEF VerifyOtp, VerifyEmailOtp, VerifyEmail, VerifyMobile
  <2> QED BY <2>1, ReadStep
<1> QED BY <1>2, <1>3, CreateStep, CompareStep, CountStep, BurnStep, SpendStep, AccountStep,
           EditStep, TimeStep DEF CodesNext

\* A code takes at most GuessLimit wrong guesses and one more for every further
\* request at the same moment (GuessesBounded), and is accepted at most once
\* per request at the same moment (CodesUsedOnce): AuthService and UsersService,
\* however sending, guessing, ageing and the clean-up overlap.
THEOREM GuessesAreBounded == CodesSpec => [](GuessesBounded /\ CodesUsedOnce)
<1>1. CodesInv => GuessesBounded /\ CodesUsedOnce
  <2> SUFFICES ASSUME CodesInv, NEW i \in DOMAIN otps
               PROVE  /\ compared[i] <= GuessLimit + Cardinality(Callers) - 1
                      /\ accepted[i] <= Cardinality(Callers)
    BY DEF GuessesBounded, CodesUsedOnce
  <2>1. /\ Cardinality(Guessing(i)) \in Nat /\ Cardinality(Accepting(i)) \in Nat
    BY CountingRequests DEF Guessing, Accepting
  <2> QED BY <2>1, RowFacts DEF GuessesAccounted, AcceptsAccounted
<1> QED BY <1>1, InitiallyCounted, StepsAreCounted, PTL DEF CodesSpec

-----------------------------------------------------------------------------
(* An hour's password resets stay within their limit but for the requests   *)
(* that were in flight, and each replaces the password once per request     *)
(* that had read it.  As with the codes, the requests between reading and   *)
(* writing are counted.                                                     *)

\* One element of S moves in or out of a part of S.
LEMMA OneMoves ==
  ASSUME NEW S, IsFiniteSet(S), NEW x \in S, NEW A \in SUBSET S, NEW B \in SUBSET S,
         \A y \in S \ {x} : y \in A <=> y \in B
  PROVE  /\ Cardinality(A) \in Nat /\ Cardinality(B) \in Nat
         /\ Cardinality(B) = Cardinality(A) + (IF x \in B THEN 1 ELSE 0)
                               - (IF x \in A THEN 1 ELSE 0)
<1>1. IsFiniteSet(A) /\ IsFiniteSet(B)
  BY FS_Subset
<1>2. Cardinality(A) \in Nat /\ Cardinality(B) \in Nat
  BY <1>1, FS_CardinalityType
<1>3. Cardinality(A \cup {x}) = IF x \in A THEN Cardinality(A) ELSE Cardinality(A) + 1
  BY <1>1, FS_AddElement
<1>4. Cardinality(A \ {x}) = IF x \in A THEN Cardinality(A) - 1 ELSE Cardinality(A)
  BY <1>1, FS_RemoveElement
<1>5. CASE x \in B
  <2>1. B = A \cup {x}
    BY <1>5
  <2> QED BY <1>2, <1>3, <1>5, <2>1
<1>6. CASE x \notin B
  <2>1. B = A \ {x}
    BY <1>6
  <2> QED BY <1>2, <1>4, <1>6, <2>1
<1> QED BY <1>5, <1>6

\* A part of S has room for an element of S that is not in it.
LEMMA RoomToJoin ==
  ASSUME NEW S, IsFiniteSet(S), NEW A \in SUBSET S
  PROVE  /\ Cardinality(A) \in Nat /\ Cardinality(S) \in Nat
         /\ Cardinality(A) <= Cardinality(S)
         /\ \A x \in S \ A : Cardinality(A) + 1 <= Cardinality(S)
<1>1. IsFiniteSet(A) /\ Cardinality(A) <= Cardinality(S)
  BY FS_Subset
<1>2. Cardinality(A) \in Nat /\ Cardinality(S) \in Nat
  BY <1>1, FS_CardinalityType
<1>3. ASSUME NEW x \in S \ A PROVE Cardinality(A) + 1 <= Cardinality(S)
  <2>1. Cardinality(A \cup {x}) = Cardinality(A) + 1
    BY <1>1, FS_AddElement
  <2>2. Cardinality(A \cup {x}) <= Cardinality(S)
    BY FS_Subset
  <2> QED BY <2>1, <2>2
<1> QED BY <1>1, <1>2, <1>3

Creating == {t \in Tabs : tab[t].pc = "create"}
Resetting(i) == {t \in Tabs : tab[t].pc = "reset" /\ tab[t].row = i}

ResetRows ==
  /\ resets \in Seq(ResetRow)
  /\ tab = [t \in Tabs |-> tab[t]]
  /\ \A t \in Tabs : tab[t].pc \in {"count", "approve", "reset"} =>
       tab[t].row \in DOMAIN resets /\ tab[t].seen \in Nat

ResetAccounted(i) ==
  /\ resets[i].done + Cardinality(Resetting(i)) <= Cardinality(Tabs)
  /\ resets[i].done > 0 => resets[i].isUsed

ResetsInv ==
  /\ ResetRows
  /\ Len(resets) + Cardinality(Creating) < ResetsPerHour + Cardinality(Tabs)
  /\ \A i \in DOMAIN resets : ResetAccounted(i)

LEMMA ResetsAreRows ==
  ASSUME ResetRows
  PROVE  /\ Len(resets) \in Nat /\ DOMAIN resets = 1..Len(resets) /\ DOMAIN resets \subseteq Nat
         /\ \A i \in DOMAIN resets :
              resets[i] \in ResetRow /\ resets[i].attempts \in Nat /\ resets[i].done \in Nat
<1>1. /\ Len(resets) \in Nat /\ DOMAIN resets = 1..Len(resets)
      /\ \A i \in DOMAIN resets : resets[i] \in ResetRow
  BY DEF ResetRows
<1>2. \A row \in ResetRow : row.attempts \in Nat /\ row.done \in Nat
  BY DEF ResetRow
<1> QED BY <1>1, <1>2

\* A request of the admin goes on to q.
TabGoes(t, q) == tab' = [tab EXCEPT ![t] = q]

\* What its move adds to the counts.
LEMMA TabsCount ==
  ASSUME ResetRows, NEW t \in Tabs, NEW q, TabGoes(t, q)
  PROVE  /\ Cardinality(Tabs) \in Nat
         /\ Cardinality(Creating) \in Nat /\ Cardinality(Creating') \in Nat
         /\ tab[t].pc = "create" /\ q.pc # "create" =>
              Cardinality(Creating') = Cardinality(Creating) - 1
         /\ tab[t].pc # "create" =>
              /\ Cardinality(Creating) + 1 <= Cardinality(Tabs)
              /\ q.pc = "create" => Cardinality(Creating') = Cardinality(Creating) + 1
              /\ q.pc # "create" => Cardinality(Creating') = Cardinality(Creating)
         /\ \A i \in Nat :
              /\ Cardinality(Resetting(i)) \in Nat /\ Cardinality(Resetting(i)') \in Nat
              /\ tab[t].pc = "reset" /\ tab[t].row = i /\ q.pc # "reset" =>
                   Cardinality(Resetting(i)') = Cardinality(Resetting(i)) - 1
              /\ ~(tab[t].pc = "reset" /\ tab[t].row = i) =>
                   /\ Cardinality(Resetting(i)) + 1 <= Cardinality(Tabs)
                   /\ q.pc = "reset" /\ q.row = i =>
                        Cardinality(Resetting(i)') = Cardinality(Resetting(i)) + 1
                   /\ ~(q.pc = "reset" /\ q.row = i) =>
                        Cardinality(Resetting(i)') = Cardinality(Resetting(i))
<1>1. IsFiniteSet(Tabs)
  BY AdminAssumption
<1>2. tab'[t] = q /\ \A u \in Tabs \ {t} : tab'[u] = tab[u]
  BY DEF ResetRows, TabGoes
<1>3. /\ Creating \in SUBSET Tabs /\ Creating' \in SUBSET Tabs
      /\ \A u \in Tabs \ {t} : u \in Creating <=> u \in Creating'
      /\ t \in Creating <=> tab[t].pc = "create"
      /\ t \in Creating' <=> q.pc = "create"
  BY <1>2 DEF Creating
<1>4. /\ Cardinality(Tabs) \in Nat
      /\ Cardinality(Creating) \in Nat /\ Cardinality(Creating') \in Nat
      /\ Cardinality(Creating') = Cardinality(Creating) + (IF t \in Creating' THEN 1 ELSE 0)
           - (IF t \in Creating THEN 1 ELSE 0)
      /\ t \notin Creating => Cardinality(Creating) + 1 <= Cardinality(Tabs)
  BY <1>1, <1>3, OneMoves, RoomToJoin
<1>5. ASSUME NEW i \in Nat
      PROVE  /\ Cardinality(Resetting(i)) \in Nat /\ Cardinality(Resetting(i)') \in Nat
             /\ tab[t].pc = "reset" /\ tab[t].row = i /\ q.pc # "reset" =>
                  Cardinality(Resetting(i)') = Cardinality(Resetting(i)) - 1
             /\ ~(tab[t].pc = "reset" /\ tab[t].row = i) =>
                  /\ Cardinality(Resetting(i)) + 1 <= Cardinality(Tabs)
                  /\ q.pc = "reset" /\ q.row = i =>
                       Cardinality(Resetting(i)') = Cardinality(Resetting(i)) + 1
                  /\ ~(q.pc = "reset" /\ q.row = i) =>
                       Cardinality(Resetting(i)') = Cardinality(Resetting(i))
  <2>1. /\ Resetting(i) \in SUBSET Tabs /\ Resetting(i)' \in SUBSET Tabs
        /\ \A u \in Tabs \ {t} : u \in Resetting(i) <=> u \in Resetting(i)'
        /\ t \in Resetting(i) <=> tab[t].pc = "reset" /\ tab[t].row = i
        /\ t \in Resetting(i)' <=> q.pc = "reset" /\ q.row = i
    BY <1>2 DEF Resetting
  <2>2. /\ Cardinality(Resetting(i)) \in Nat /\ Cardinality(Resetting(i)') \in Nat
        /\ Cardinality(Resetting(i)') = Cardinality(Resetting(i))
             + (IF t \in Resetting(i)' THEN 1 ELSE 0) - (IF t \in Resetting(i) THEN 1 ELSE 0)
        /\ t \notin Resetting(i) => Cardinality(Resetting(i)) + 1 <= Cardinality(Tabs)
    BY <1>1, <2>1, OneMoves, RoomToJoin
  <2> QED BY <2>1, <2>2
<1> QED BY <1>3, <1>4, <1>5

\* A request that goes on without touching a reset row, and without taking one
\* that was used.
LEMMA TabMoves ==
  ASSUME ResetsInv, NEW t \in Tabs, NEW q, TabGoes(t, q), UNCHANGED resets,
         tab[t].pc \notin {"create", "reset"},
         q.pc \in {"count", "approve", "reset"} => q.row \in DOMAIN resets /\ q.seen \in Nat,
         q.pc = "create" => Len(resets) < ResetsPerHour,
         q.pc = "reset" => ~resets[q.row].isUsed
  PROVE  ResetsInv'
<1>1. ResetRows'
  BY DEF ResetsInv, ResetRows, TabGoes
<1>2. /\ Len(resets) \in Nat /\ DOMAIN resets \subseteq Nat /\ ResetsPerHour \in Nat
      /\ ResetRows /\ Cardinality(Tabs) \in Nat
  BY ResetsAreRows, AdminAssumption, FS_CardinalityType DEF ResetsInv
<1>3. (Len(resets) + Cardinality(Creating) < ResetsPerHour + Cardinality(Tabs))'
  <2>1. /\ Cardinality(Creating) \in Nat
        /\ q.pc = "create" => Cardinality(Creating') = Cardinality(Creating) + 1
        /\ q.pc # "create" => Cardinality(Creating') = Cardinality(Creating)
        /\ Cardinality(Creating) + 1 <= Cardinality(Tabs)
    BY <1>2, TabsCount
  <2> QED BY <1>2, <2>1 DEF ResetsInv
<1>4. ASSUME NEW i \in DOMAIN resets PROVE ResetAccounted(i)'
  <2>1. resets[i].done \in Nat /\ i \in Nat /\ ResetAccounted(i)
    BY <1>2, ResetsAreRows DEF ResetsInv
  <2>2. /\ Cardinality(Resetting(i)) \in Nat
        /\ q.pc = "reset" /\ q.row = i =>
             Cardinality(Resetting(i)') = Cardinality(Resetting(i)) + 1
        /\ ~(q.pc = "reset" /\ q.row = i) =>
             Cardinality(Resetting(i)') = Cardinality(Resetting(i))
        /\ Cardinality(Resetting(i)) + 1 <= Cardinality(Tabs)
    <3>1. i \in Nat /\ ~(tab[t].pc = "reset" /\ tab[t].row = i)
      BY <2>1
    <3> QED BY ZenonT(60), <1>2, <3>1, TabsCount
  <2>3. resets'[i].done = resets[i].done /\ resets'[i].isUsed = resets[i].isUsed
    OBVIOUS
  <2>4. CASE q.pc = "reset" /\ q.row = i
    <3>1. resets[i].done = 0
      BY <2>1, <2>4 DEF ResetAccounted
    <3> QED BY <1>2, <2>2, <2>3, <2>4, <3>1 DEF ResetAccounted
  <2>5. CASE ~(q.pc = "reset" /\ q.row = i)
    BY <2>1, <2>2, <2>3, <2>5 DEF ResetAccounted
  <2> QED BY <2>4, <2>5
<1> QED BY <1>1, <1>3, <1>4 DEF ResetsInv

\* A code is requested.
LEMMA ForgotStep ==
  ASSUME ResetsInv, NEW t \in Tabs, ForgotPasswordCreate(t) PROVE ResetsInv'
<1> DEFINE row == [attempts |-> 0, token |-> 0, isUsed |-> FALSE, done |-> 0]
<1>1. /\ tab[t].pc = "create" /\ TabGoes(t, NoTab)
      /\ resets' = Append(resets, row) /\ NoTab.pc = "idle"
  BY DEF ForgotPasswordCreate, Close, NoTab, TabGoes
<1>2. row \in ResetRow /\ row.done = 0
  BY DEF ResetRow
<1> HIDE DEF row
<1>3. /\ resets' \in Seq(ResetRow) /\ Len(resets') = Len(resets) + 1
      /\ Len(resets) \in Nat /\ DOMAIN resets = 1..Len(resets) /\ DOMAIN resets' = 1..Len(resets')
      /\ \A i \in DOMAIN resets : resets'[i] = resets[i]
      /\ resets'[Len(resets) + 1] = row
  BY <1>1, <1>2 DEF ResetsInv, ResetRows
<1>4. ResetRows'
  BY <1>1, <1>3 DEF ResetsInv, ResetRows, TabGoes
<1>5. ResetRows /\ ResetsPerHour \in Nat /\ Cardinality(Tabs) \in Nat
  BY AdminAssumption, FS_CardinalityType DEF ResetsInv
<1>6. (Len(resets) + Cardinality(Creating) < ResetsPerHour + Cardinality(Tabs))'
  <2>1. /\ Cardinality(Creating) \in Nat
        /\ Cardinality(Creating') = Cardinality(Creating) - 1
    BY <1>1, <1>5, TabsCount
  <2> QED BY <1>3, <1>5, <2>1 DEF ResetsInv
<1>7. ASSUME NEW i \in DOMAIN resets' PROVE ResetAccounted(i)'
  <2>1. i \in Nat
    BY <1>3
  <2>4. /\ Cardinality(Resetting(i)) \in Nat
        /\ Cardinality(Resetting(i)') = Cardinality(Resetting(i))
    BY <1>1, <1>5, <2>1, TabsCount
  <2>2. CASE i \in DOMAIN resets
    BY <1>3, <2>2, <2>4 DEF ResetsInv, ResetAccounted
  <2>3. CASE i = Len(resets) + 1
    <3>1. Resetting(i) = {}
      BY <1>3, <1>5, <2>3 DEF ResetRows, Resetting
    <3>2. Cardinality(Resetting(i)) = 0 /\ Cardinality(Tabs) \in Nat
      BY <1>5, <3>1, FS_EmptySet
    <3> QED BY <1>2, <1>3, <2>3, <2>4, <3>2 DEF ResetAccounted
  <2> QED BY <1>3, <2>2, <2>3
<1> QED BY <1>4, <1>6, <1>7 DEF ResetsInv

\* A request writes the row it works on: a wrong guess, a right one, the reset.
LEMMA ResetWritten ==
  ASSUME ResetsInv, NEW t \in Tabs, CountAttempt(t) \/ ApproveReset(t) \/ ResetPasswordSave(t)
  PROVE  ResetsInv'
<1> DEFINE k == tab[t].row
<1>1. /\ TabGoes(t, NoTab) /\ NoTab.pc = "idle"
      /\ tab[t].pc \in {"count", "approve", "reset"}
      /\ k \in DOMAIN resets /\ tab[t].seen \in Nat
  BY DEF CountAttempt, ApproveReset, ResetPasswordSave, Close, NoTab, ResetsInv, ResetRows, TabGoes
<1>2. /\ resets \in Seq(ResetRow) /\ Len(resets) \in Nat /\ DOMAIN resets = 1..Len(resets)
      /\ resets[k] \in ResetRow /\ ResetRows /\ ResetsPerHour \in Nat
  <2>1. ResetRows /\ resets \in Seq(ResetRow)
    BY DEF ResetsInv, ResetRows
  <2> QED BY <1>1, <2>1, AdminAssumption, ResetsAreRows
<1>3. PICK row \in ResetRow :
        /\ resets' = [resets EXCEPT ![k] = row]
        /\ resets[k].isUsed => row.isUsed
        /\ tab[t].pc # "reset" => row.done = resets[k].done
        /\ tab[t].pc = "reset" => row.done = resets[k].done + 1 /\ row.isUsed
  <2>1. CASE CountAttempt(t)
    <3> DEFINE row == [resets[k] EXCEPT !.attempts = tab[t].seen + 1]
    <3>1. row \in ResetRow /\ row.isUsed = resets[k].isUsed /\ row.done = resets[k].done
      <4>1. \A r \in ResetRow, n \in Nat :
              LET w == [r EXCEPT !.attempts = n]
              IN  w \in ResetRow /\ w.isUsed = r.isUsed /\ w.done = r.done
        BY DEF ResetRow
      <4>2. tab[t].seen + 1 \in Nat
        BY <1>1
      <4> QED BY <1>2, <4>1, <4>2
    <3>2. resets' = [resets EXCEPT ![k] = row] /\ tab[t].pc = "count"
      BY <2>1 DEF CountAttempt
    <3> QED BY <3>1, <3>2
  <2>2. CASE ApproveReset(t)
    <3> DEFINE row == [resets[k] EXCEPT !.token = resets[k].token + 1]
    <3>1. row \in ResetRow /\ row.isUsed = resets[k].isUsed /\ row.done = resets[k].done
      <4>1. \A r \in ResetRow :
              LET w == [r EXCEPT !.token = r.token + 1]
              IN  w \in ResetRow /\ w.isUsed = r.isUsed /\ w.done = r.done
        BY DEF ResetRow
      <4> QED BY <1>2, <4>1
    <3>2. resets' = [resets EXCEPT ![k] = row] /\ tab[t].pc = "approve"
      BY <2>2 DEF ApproveReset
    <3> QED BY <3>1, <3>2
  <2>3. CASE ResetPasswordSave(t)
    <3> DEFINE row == UsedReset(resets[k])
    <3>1. row \in ResetRow /\ row.isUsed /\ row.done = resets[k].done + 1
      <4>1. \A r \in ResetRow :
              /\ UsedReset(r) \in ResetRow /\ UsedReset(r).isUsed
              /\ UsedReset(r).done = r.done + 1
        <5>1. ASSUME NEW r \in ResetRow
              PROVE  UsedReset(r) = [r EXCEPT !.isUsed = TRUE, !.done = r.done + 1] /\ r.done \in Nat
          BY DEF ResetRow, UsedReset
        <5>2. \A r \in ResetRow, n \in Nat :
                LET w == [r EXCEPT !.isUsed = TRUE, !.done = n]
                IN  w \in ResetRow /\ w.isUsed /\ w.done = n
          BY DEF ResetRow
        <5>3. \A r \in ResetRow : r.done + 1 \in Nat
          BY DEF ResetRow
        <5>4. ASSUME NEW r \in ResetRow
              PROVE  /\ UsedReset(r) \in ResetRow /\ UsedReset(r).isUsed
                     /\ UsedReset(r).done = r.done + 1
          <6>1. PICK n \in Nat : n = r.done + 1
            BY <5>3
          <6>2. UsedReset(r) = [r EXCEPT !.isUsed = TRUE, !.done = n]
            BY <5>1, <6>1
          <6> QED BY ZenonT(30), <5>2, <6>1, <6>2
        <5> QED BY <5>4
      <4> QED BY <1>2, <4>1
    <3>2. resets' = [resets EXCEPT ![k] = row] /\ tab[t].pc = "reset"
      BY <2>3 DEF ResetPasswordSave
    <3> QED BY <3>1, <3>2
  <2> QED BY <2>1, <2>2, <2>3
<1> HIDE DEF k
<1>4. /\ resets' \in Seq(ResetRow) /\ Len(resets') = Len(resets) /\ DOMAIN resets' = DOMAIN resets
      /\ resets'[k] = row /\ \A i \in DOMAIN resets \ {k} : resets'[i] = resets[i]
  BY <1>1, <1>2, <1>3
<1>5. ResetRows'
  BY <1>1, <1>2, <1>4 DEF ResetRows, TabGoes
<1>6. (Len(resets) + Cardinality(Creating) < ResetsPerHour + Cardinality(Tabs))'
  <2>1. /\ Cardinality(Creating) \in Nat /\ Cardinality(Tabs) \in Nat
        /\ Cardinality(Creating') = Cardinality(Creating)
    BY <1>1, <1>2, TabsCount
  <2> QED BY <1>2, <1>4, <2>1 DEF ResetsInv
<1>7. ASSUME NEW i \in DOMAIN resets PROVE ResetAccounted(i)'
  <2>3. i \in Nat /\ resets[i].done \in Nat /\ row.done \in Nat
    BY <1>2, ResetsAreRows DEF ResetRow
  <2>1. /\ Cardinality(Resetting(i)) \in Nat /\ Cardinality(Tabs) \in Nat
        /\ tab[t].pc = "reset" /\ k = i =>
             Cardinality(Resetting(i)') = Cardinality(Resetting(i)) - 1
        /\ ~(tab[t].pc = "reset" /\ k = i) =>
             Cardinality(Resetting(i)') = Cardinality(Resetting(i))
    BY <1>1, <1>2, <2>3, TabsCount DEF k, NoTab
  <2>2. ResetAccounted(i)
    BY DEF ResetsInv
  <2> QED BY <1>1, <1>3, <1>4, <2>1, <2>2, <2>3 DEF ResetAccounted
<1> QED BY <1>4, <1>5, <1>6, <1>7 DEF ResetsInv

LEMMA ResetsNext == ResetsInv /\ [AdminNext]_adminVars => ResetsInv'
<1> SUFFICES ASSUME ResetsInv, [AdminNext]_adminVars PROVE ResetsInv'
  OBVIOUS
<1>1. /\ NoTab.pc = "idle" /\ tab = [t \in Tabs |-> tab[t]]
      /\ \A i \in DOMAIN resets : resets[i].attempts \in Nat
  BY ResetsAreRows DEF NoTab, ResetsInv, ResetRows
<1>2. ASSUME UNCHANGED <<resets, tab>> PROVE ResetsInv'
  BY <1>2 DEF ResetsInv, ResetRows, ResetAccounted, Creating, Resetting
<1>3. ASSUME NEW t \in Tabs, AdminLogin(t) \/ RevokeSession(t) \/ ChangePassword(t)
      PROVE  UNCHANGED <<resets, tab>>
  BY <1>3 DEF AdminLogin, RevokeSession, ChangePassword
<1>4. ASSUME NEW t \in Tabs, AdminRefresh(t) PROVE ResetsInv'
  <2>1. PICK token \in held : tab' = [tab EXCEPT ![t] =
            [pc |-> "rotate", row |-> token.session, seen |-> 0,
             token |-> [token EXCEPT !.rememberMe = IsRememberMe(token)]]]
    BY <1>4 DEF AdminRefresh
  <2> DEFINE q == [pc |-> "rotate", row |-> token.session, seen |-> 0,
                   token |-> [token EXCEPT !.rememberMe = IsRememberMe(token)]]
  <2>2. UNCHANGED resets /\ tab[t].pc = "idle" /\ TabGoes(t, q) /\ q.pc = "rotate"
    BY <1>4, <2>1 DEF AdminRefresh, TabGoes
  <2> HIDE DEF q
  <2> QED BY <2>1, <2>2, TabMoves
<1>5. ASSUME NEW t \in Tabs, RotateSession(t) PROVE ResetsInv'
  BY <1>1, <1>5, TabMoves DEF RotateSession, Close, TabGoes
<1>6. ASSUME NEW t \in Tabs, ForgotPassword(t) PROVE ResetsInv'
  <2>1. [NoTab EXCEPT !.pc = "create"].pc = "create"
    BY DEF NoTab
  <2> QED BY <1>6, <2>1, TabMoves DEF ForgotPassword, MayForget, TabGoes
<1>7. ASSUME NEW t \in Tabs, VerifyResetOtp(t) PROVE ResetsInv'
  <2>1. PICK i \in DOMAIN resets, right \in BOOLEAN : tab' = [tab EXCEPT ![t] =
            [NoTab EXCEPT !.pc = IF right THEN "approve" ELSE "count",
                          !.row = i, !.seen = resets[i].attempts]]
    BY <1>7 DEF VerifyResetOtp
  <2> DEFINE q == [NoTab EXCEPT !.pc = IF right THEN "approve" ELSE "count",
                                !.row = i, !.seen = resets[i].attempts]
  <2>2. q.pc \in {"count", "approve"} /\ q.row = i /\ q.seen = resets[i].attempts
    BY DEF NoTab
  <2>3. UNCHANGED resets /\ tab[t].pc = "idle" /\ TabGoes(t, q)
    BY <1>7, <2>1 DEF VerifyResetOtp, TabGoes
  <2> HIDE DEF q
  <2> QED BY <1>1, <2>2, <2>3, TabMoves
<1>8. ASSUME NEW t \in Tabs, ResetPassword(t) PROVE ResetsInv'
  <2>1. PICK i \in DOMAIN resets :
          ~resets[i].isUsed /\ tab' = [tab EXCEPT ![t] = [NoTab EXCEPT !.pc = "reset", !.row = i]]
    BY <1>8 DEF ResetPassword
  <2> DEFINE q == [NoTab EXCEPT !.pc = "reset", !.row = i]
  <2>2. q.pc = "reset" /\ q.row = i /\ q.seen = 0
    BY DEF NoTab
  <2>3. UNCHANGED resets /\ tab[t].pc = "idle" /\ TabGoes(t, q)
    BY <1>8, <2>1 DEF ResetPassword, TabGoes
  <2> HIDE DEF q
  <2> QED BY <2>1, <2>2, <2>3, TabMoves
<1> QED BY <1>2, <1>3, <1>4, <1>5, <1>6, <1>7, <1>8, ForgotStep, ResetWritten
    DEF AdminNext, adminVars, DayPasses

\* Customers' codes (GuessesAreBounded above) and an admin's resets work once, and an
\* hour's resets stay within their limit: the admin's forgotPassword,
\* verifyOtp and resetPassword, whatever sessions and other resets do meanwhile.
THEOREM ResetsWorkOnce == CodesSpec /\ AdminSpec => []CodesWorkOnce
<1>1. AdminInit => ResetsInv
  <2> SUFFICES ASSUME AdminInit PROVE ResetsInv
    OBVIOUS
  <2>1. /\ resets = <<>> /\ resets \in Seq(ResetRow) /\ Len(resets) = 0 /\ DOMAIN resets = {}
        /\ tab = [t \in Tabs |-> NoTab] /\ NoTab.pc = "idle"
    BY DEF AdminInit, NoTab
  <2>2. Creating = {} /\ Cardinality(Creating) = 0
    BY <2>1, FS_EmptySet DEF Creating
  <2>3. ResetsPerHour \in Nat \ {0} /\ Cardinality(Tabs) \in Nat
    BY AdminAssumption, FS_CardinalityType
  <2> QED BY <2>1, <2>2, <2>3 DEF ResetsInv, ResetRows
<1>2. ResetsInv => ResetsAreBounded
  <2> SUFFICES ASSUME ResetsInv PROVE ResetsAreBounded
    OBVIOUS
  <2>1. /\ Cardinality(Creating) \in Nat /\ Cardinality(Tabs) \in Nat
        /\ \A i \in DOMAIN resets : Cardinality(Resetting(i)) \in Nat
    BY AdminAssumption, RoomToJoin DEF Creating, Resetting
  <2>2. /\ Len(resets) \in Nat /\ ResetsPerHour \in Nat
        /\ \A i \in DOMAIN resets : resets[i].done \in Nat
    BY AdminAssumption, ResetsAreRows DEF ResetsInv
  <2> QED BY <2>1, <2>2 DEF ResetsInv, ResetAccounted, ResetsAreBounded
<1> QED BY <1>1, <1>2, ResetsNext, GuessesAreBounded, PTL DEF AdminSpec, CodesWorkOnce

-----------------------------------------------------------------------------
(* While Redis answers, the requests let through in a window stay within    *)
(* the limit.  Inductive is what the counter covers: what was let through   *)
(* and what is on its way through was counted, in this window or, once per  *)
(* request, in one that has ended.                                          *)

\* The larger of two numbers.
LEMMA MaxOfTwo ==
  ASSUME NEW m \in Nat, NEW n \in Nat
  PROVE  /\ Max({m, n}) \in {m, n} /\ m <= Max({m, n}) /\ n <= Max({m, n})
<1>1. \E x \in {m, n} : \A y \in {m, n} : x >= y
  BY SMT
<1> QED BY <1>1 DEF Max

\* Every route belongs to a throttler of the table.
LEMMA RoutesAreOwned ==
  ASSUME NEW h PROVE Applicable(h) \subseteq Names
<1> DEFINE path == Handlers[h].has
           M == {i \in DOMAIN Rules : Rules[i].has \cap path # {}}
<1>0. /\ RouteThrottler(h) = LET owner == IF M = {} THEN "default" ELSE Rules[Min(M)].owner
                             IN CASE owner = "address" ->
                                       IF Handlers[h].isRead THEN "address_read" ELSE "address_mutation"
                                  [] owner = "search" ->
                                       IF "suggestions" \in path THEN "search_suggestions" ELSE "search"
                                  [] OTHER -> owner
  BY DEF RouteThrottler
<1> HIDE DEF path
<1>1. DOMAIN Rules = 1..13
  BY DEF Rules
<1>2. \A i \in 1..13 : Rules[i].owner \in Names \cup {"otp", "address"}
  BY DEF Rules, Names, Throttlers
<1>3. ASSUME M # {} PROVE Min(M) \in 1..13
  <2>1. M \subseteq Nat
    BY <1>1
  <2>2. PICK m \in M : \A y \in M : ~(<<y, m>> \in OpToRel(<, Nat))
    <3> HIDE DEF M
    <3> QED BY <1>3, <2>1, NatLessThanWellFounded, WFMin
  <2>3. \A y \in M : m <= y
    <3> HIDE DEF M
    <3>1. \A y \in M : y \in Nat /\ m \in Nat /\ ~(y < m)
      BY <2>1, <2>2 DEF OpToRel
    <3> QED BY <3>1
  <2>4. Min(M) \in M
    <3> HIDE DEF M
    <3> QED BY <2>3 DEF Min
  <2> QED BY <1>1, <2>4
<1>4. (IF M = {} THEN "default" ELSE Rules[Min(M)].owner) \in Names \cup {"otp", "address"}
  BY <1>2, <1>3 DEF Names, Throttlers
<1>5. RouteThrottler(h) \in Names \cup {"otp"}
  <2> HIDE DEF M
  <2> QED BY <1>0, <1>4 DEF Names, Throttlers
<1>6. OtpNames \subseteq Names
  BY DEF OtpNames, Names, Throttlers
<1> QED BY <1>5, <1>6 DEF Applicable

\* A limit is a number of at least one.
LEMMA LimitsAreNumbers ==
  ASSUME NEW k \in Keys
  PROVE  LimitOf(k) \in Nat \ {0}
<1>1. PICK h \in Routes, name \in Names : k[2] = <<h, name>>
  BY RoutesAreOwned DEF Keys, Counters, CountersOf
<1> DEFINE isAuthUser == k[1] \in AuthUsers
           limit ==
      CASE name = "products" -> IF isAuthUser THEN 120 ELSE 60
        [] name = "search" -> IF isAuthUser THEN 60 ELSE 30
        [] name = "search_suggestions" -> IF isAuthUser THEN 120 ELSE 30
        [] name = "delivery_estimate" -> IF isAuthUser THEN 60 ELSE 30
        [] name = "cart" -> IF isAuthUser THEN 120 ELSE 20
        [] name \in {"orders", "wishlist"} /\ Handlers[h].isRead -> IF isAuthUser THEN 240 ELSE 60
        [] OTHER -> Configured(name, h)
<1>2. Configured(name, h) \in Nat
  <2>1. Throttlers[name] \in Nat
    BY DEF Names, Throttlers
  <2> QED BY <2>1 DEF Configured
<1>3. limit \in Nat
  BY <1>2
<1>4. LimitOf(k) = Max({1, limit \div Scale})
  BY <1>1 DEF LimitOf, EffectiveLimit
<1> HIDE DEF limit
<1>5. limit \div Scale \in Nat
  BY <1>3, ThrottleAssumption
<1> QED BY <1>4, <1>5, MaxOfTwo

\* The requests that were counted for k and are on their way through.
OnItsWay(k) ==
  {q \in Requests :
     /\ throttled[q].who = k[1]
     /\ \/ k[2] \in throttled[q].done
        \/ throttled[q].pc = "expire" /\ k[2] = Current(q)}

\* A request waits for throttlers that know its caller.
SoundThrottled(c) ==
  c.pc # "idle" =>
    /\ c.who \in Trackers
    /\ \A n \in c.todo \cup c.done : <<c.who, n>> \in Keys
    /\ c.pc # "refused" => c.todo # {}

Covered(k) ==
  served[k] + Cardinality(OnItsWay(k)) <=
    Cardinality(Requests) + (IF hits[k] < LimitOf(k) THEN hits[k] ELSE LimitOf(k))

ThrottleInv ==
  /\ ThrottleTypeOK
  /\ \A q \in Requests : SoundThrottled(throttled[q])
  /\ \A k \in Keys : Covered(k)

\* A request goes on as c.
Waits(q, c) == throttled' = [throttled EXCEPT ![q] = c]

\* What a request that is tried stands at.
LEMMA CurrentLimit ==
  ASSUME ThrottleInv, NEW q \in Requests, throttled[q].pc \in {"check", "incr", "expire", "block"}
  PROVE  /\ Current(q) \in throttled[q].todo /\ KeyOf(q) \in Keys
         /\ LimitOf(KeyOf(q)) \in Nat \ {0}
<1>1. throttled[q].todo # {} /\ SoundThrottled(throttled[q])
  BY DEF ThrottleInv, SoundThrottled
<1>2. Current(q) \in throttled[q].todo
  BY <1>1 DEF Current
<1>3. KeyOf(q) \in Keys /\ KeyOf(q)[1] = throttled[q].who /\ KeyOf(q)[2] = Current(q)
  BY <1>1, <1>2 DEF SoundThrottled, KeyOf
<1> QED BY <1>2, <1>3, LimitsAreNumbers

\* What a request's move does to the number of those on their way.
LEMMA WaitingCounts ==
  ASSUME ThrottleInv, NEW q \in Requests, NEW c, Waits(q, c), NEW k \in Keys
  PROVE  /\ Cardinality(OnItsWay(k)) \in Nat /\ Cardinality(OnItsWay(k)') \in Nat
         /\ Cardinality(OnItsWay(k)') <= Cardinality(OnItsWay(k)) + 1
         /\ (q \in OnItsWay(k)' => q \in OnItsWay(k)) =>
              Cardinality(OnItsWay(k)') <= Cardinality(OnItsWay(k))
         /\ q \in OnItsWay(k) /\ q \notin OnItsWay(k)' =>
              Cardinality(OnItsWay(k)') + 1 = Cardinality(OnItsWay(k))
<1>1. throttled'[q] = c /\ \A p \in Requests \ {q} : throttled'[p] = throttled[p]
  BY DEF ThrottleInv, ThrottleTypeOK, Waits
<1>2. \A p \in Requests \ {q} : p \in OnItsWay(k) <=> p \in OnItsWay(k)'
  BY <1>1 DEF OnItsWay, Current
<1>3. OnItsWay(k) \in SUBSET Requests /\ OnItsWay(k)' \in SUBSET Requests /\ IsFiniteSet(Requests)
  BY ThrottleAssumption DEF OnItsWay
<1>4. /\ Cardinality(OnItsWay(k)) \in Nat /\ Cardinality(OnItsWay(k)') \in Nat
      /\ Cardinality(OnItsWay(k)') = Cardinality(OnItsWay(k))
           + (IF q \in OnItsWay(k)' THEN 1 ELSE 0) - (IF q \in OnItsWay(k) THEN 1 ELSE 0)
  BY <1>2, <1>3, OneMoves
<1> QED BY <1>4

\* A step that counts nobody and lets nobody through.
LEMMA NobodyPasses ==
  ASSUME ThrottleInv, NEW q \in Requests, NEW c \in Throttled, Waits(q, c), SoundThrottled(c),
         UNCHANGED <<hits, served>>, expiring' \subseteq Keys, blockedFor' \subseteq Keys,
         \A k \in Keys : q \in OnItsWay(k)' => q \in OnItsWay(k)
  PROVE  ThrottleInv'
<1>1. ThrottleTypeOK' /\ \A p \in Requests : SoundThrottled(throttled'[p])
  BY DEF ThrottleInv, ThrottleTypeOK, Waits
<1>2. ASSUME NEW k \in Keys PROVE Covered(k)'
  <2>1. /\ Cardinality(OnItsWay(k)) \in Nat /\ Cardinality(OnItsWay(k)') \in Nat
        /\ Cardinality(OnItsWay(k)') <= Cardinality(OnItsWay(k))
    BY WaitingCounts
  <2>2. /\ served[k] \in Nat /\ hits[k] \in Nat /\ LimitOf(k) \in Nat
        /\ Cardinality(Requests) \in Nat /\ Covered(k)
    BY LimitsAreNumbers, ThrottleAssumption, FS_CardinalityType DEF ThrottleInv, ThrottleTypeOK
  <2>3. LimitOf(k)' = LimitOf(k)
    BY DEF LimitOf
  <2> QED BY <2>1, <2>2, <2>3 DEF Covered
<1>3. (\A p \in Requests : SoundThrottled(throttled[p]))'
  BY <1>1
<1> QED BY <1>1, <1>2, <1>3 DEF ThrottleInv

\* A throttler lets a request pass, which it has counted or counts now.
LEMMA OnePasses ==
  ASSUME ThrottleInv, NEW q \in Requests, throttled[q].pc \in {"check", "incr", "expire"},
         PassedTo(q)
  PROVE  /\ served' \in [Keys -> Nat] /\ throttled' \in [Requests -> Throttled]
         /\ (\A p \in Requests : SoundThrottled(throttled[p]))'
         /\ \A k \in Keys :
              /\ Cardinality(OnItsWay(k)) \in Nat /\ Cardinality(OnItsWay(k)') \in Nat
              /\ served'[k] + Cardinality(OnItsWay(k)') <= served[k] + Cardinality(OnItsWay(k)) + 1
              /\ k # KeyOf(q) \/ throttled[q].pc = "expire" =>
                   served'[k] + Cardinality(OnItsWay(k)') <= served[k] + Cardinality(OnItsWay(k))
<1> DEFINE rest == throttled[q].todo \ {Current(q)}
           passed == throttled[q].done \cup {Current(q)}
<1>1. /\ served \in [Keys -> Nat] /\ throttled \in [Requests -> Throttled]
      /\ throttled[q] \in Throttled /\ SoundThrottled(throttled[q])
      /\ Current(q) \in throttled[q].todo
  BY CurrentLimit DEF ThrottleInv, ThrottleTypeOK
<1>2. throttled[q].todo \in SUBSET Counters /\ throttled[q].done \in SUBSET Counters
  BY <1>1 DEF Throttled
<1>3. ASSUME NEW k \in Keys, k[1] = throttled[q].who, k[2] \in passed,
             k # KeyOf(q) \/ throttled[q].pc = "expire"
      PROVE  q \in OnItsWay(k)
  <2>1. k = <<k[1], k[2]>>
    BY DEF Keys
  <2>2. k[2] \in throttled[q].done \/ (throttled[q].pc = "expire" /\ k[2] = Current(q))
    BY <1>3, <2>1 DEF KeyOf
  <2> QED BY <1>3, <2>2 DEF OnItsWay
<1>4. CASE rest # {}
  <2> DEFINE c == [throttled[q] EXCEPT !.pc = "check", !.todo = rest, !.done = passed]
  <2>1. UNCHANGED served /\ Waits(q, c)
    <3>1. throttled' = [throttled EXCEPT ![q].pc = "check", ![q].todo = rest, ![q].done = passed]
      BY <1>4 DEF PassedTo
    <3> QED BY <1>1, <1>4, <3>1 DEF PassedTo, Waits
  <2>2. c \in Throttled /\ c.pc = "check" /\ c.who = throttled[q].who /\ c.todo = rest /\ c.done = passed
    BY <1>1, <1>2 DEF Throttled, ThrottledPC
  <2>3. SoundThrottled(c)
    BY <1>1, <1>4, <2>2 DEF SoundThrottled
  <2> HIDE DEF c
  <2>4. throttled' \in [Requests -> Throttled] /\ \A p \in Requests : SoundThrottled(throttled'[p])
    BY <1>1, <2>1, <2>2, <2>3 DEF Waits, ThrottleInv
  <2>5. (\A p \in Requests : SoundThrottled(throttled[p]))'
    BY <2>4
  <2>6. ASSUME NEW k \in Keys, q \in OnItsWay(k)' PROVE k[1] = throttled[q].who /\ k[2] \in passed
    BY <1>1, <2>1, <2>2, <2>6 DEF OnItsWay, Waits
  <2>7. ASSUME NEW k \in Keys
        PROVE  /\ Cardinality(OnItsWay(k)) \in Nat /\ Cardinality(OnItsWay(k)') \in Nat
               /\ Cardinality(OnItsWay(k)') <= Cardinality(OnItsWay(k)) + 1
               /\ k # KeyOf(q) \/ throttled[q].pc = "expire" =>
                    Cardinality(OnItsWay(k)') <= Cardinality(OnItsWay(k))
    BY <1>3, <2>1, <2>6, WaitingCounts
  <2>8. \A k \in Keys : served'[k] = served[k] /\ served[k] \in Nat
    BY <1>1, <2>1
  <2> QED BY <1>1, <2>1, <2>4, <2>5, <2>7, <2>8
<1>5. CASE rest = {}
  <2>1. /\ Waits(q, NotThrottled)
        /\ served' = [k \in Keys |-> IF k[1] = throttled[q].who /\ k[2] \in passed
                                     THEN served[k] + 1 ELSE served[k]]
    BY <1>5 DEF PassedTo, Waits
  <2>2. /\ NotThrottled \in Throttled /\ NotThrottled.pc = "idle" /\ NotThrottled.done = {}
        /\ NotThrottled.who = NoTracker
    BY DEF Throttled, ThrottledPC, NotThrottled
  <2>3. SoundThrottled(NotThrottled)
    BY <2>2 DEF SoundThrottled
  <2>4. throttled' \in [Requests -> Throttled] /\ \A p \in Requests : SoundThrottled(throttled'[p])
    BY <1>1, <2>1, <2>2, <2>3 DEF Waits, ThrottleInv
  <2>5. (\A p \in Requests : SoundThrottled(throttled[p]))'
    BY <2>4
  <2>6. \A k \in Keys : q \notin OnItsWay(k)'
    BY <1>1, <2>1, <2>2 DEF OnItsWay, Waits
  <2>7. ASSUME NEW k \in Keys
        PROVE  /\ Cardinality(OnItsWay(k)) \in Nat /\ Cardinality(OnItsWay(k)') \in Nat
               /\ Cardinality(OnItsWay(k)') <= Cardinality(OnItsWay(k))
               /\ q \in OnItsWay(k) =>
                    Cardinality(OnItsWay(k)') + 1 = Cardinality(OnItsWay(k))
    BY <2>1, <2>6, WaitingCounts
  <2>8. ASSUME NEW k \in Keys
        PROVE  /\ served[k] \in Nat /\ served'[k] \in Nat /\ served'[k] <= served[k] + 1
               /\ ~(k[1] = throttled[q].who /\ k[2] \in passed) => served'[k] = served[k]
    <3> HIDE DEF passed
    <3> QED BY <1>1, <2>1
  <2>9. served' \in [Keys -> Nat]
    BY <2>1, <2>8
  <2>10. ASSUME NEW k \in Keys, k # KeyOf(q) \/ throttled[q].pc = "expire"
         PROVE  served'[k] + Cardinality(OnItsWay(k)') <= served[k] + Cardinality(OnItsWay(k))
    <3>1. CASE k[1] = throttled[q].who /\ k[2] \in passed
      BY <1>3, <2>7, <2>8, <2>10, <3>1
    <3>2. CASE ~(k[1] = throttled[q].who /\ k[2] \in passed)
      BY <2>7, <2>8, <3>2
    <3> QED BY <3>1, <3>2
  <2>11. \A k \in Keys :
           served'[k] + Cardinality(OnItsWay(k)') <= served[k] + Cardinality(OnItsWay(k)) + 1
    BY <2>7, <2>8
  <2> QED BY <2>4, <2>5, <2>7, <2>9, <2>10, <2>11
<1> QED BY <1>4, <1>5

\* INCR covers whoever it lets pass.
LEMMA IncrCounts ==
  ASSUME ThrottleInv, NEW q \in Requests, Incr(q) PROVE ThrottleInv'
<1>0. PICK K \in Keys : K = KeyOf(q)
  BY CurrentLimit DEF Incr
<1> DEFINE n == hits[K] + 1
<1>1. throttled[q].pc = "incr" /\ K \in Keys /\ LimitOf(K) \in Nat \ {0}
  BY <1>0, CurrentLimit DEF Incr
<1>2. /\ hits \in [Keys -> Nat] /\ served \in [Keys -> Nat] /\ throttled \in [Requests -> Throttled]
      /\ expiring \subseteq Keys /\ blockedFor \subseteq Keys /\ Cardinality(Requests) \in Nat
      /\ \A k \in Keys : LimitOf(k) \in Nat \ {0} /\ LimitOf(k)' = LimitOf(k)
  BY LimitsAreNumbers, ThrottleAssumption, FS_CardinalityType
     DEF ThrottleInv, ThrottleTypeOK, LimitOf
<1>3. /\ hits' = [hits EXCEPT ![K] = n] /\ hits' \in [Keys -> Nat]
      /\ expiring' \subseteq Keys /\ blockedFor' \subseteq Keys
  BY <1>0, <1>1, <1>2 DEF Incr, Incremented
<1>4. /\ hits'[K] = hits[K] + 1 /\ hits[K] \in Nat
      /\ \A k \in Keys : hits[k] \in Nat /\ (k # K => hits'[k] = hits[k])
  BY <1>1, <1>2, <1>3
<1> DEFINE OneMore(k) ==
      served'[k] + Cardinality(OnItsWay(k)') <= served[k] + Cardinality(OnItsWay(k)) + 1
         AsMany(k) ==
      served'[k] + Cardinality(OnItsWay(k)') <= served[k] + Cardinality(OnItsWay(k))
<1>5. SUFFICES
        /\ served' \in [Keys -> Nat] /\ throttled' \in [Requests -> Throttled]
        /\ (\A p \in Requests : SoundThrottled(throttled[p]))'
        /\ \A k \in Keys : /\ Cardinality(OnItsWay(k)) \in Nat
                           /\ Cardinality(OnItsWay(k)') \in Nat
        /\ \A k \in Keys \ {K} : AsMany(k)
        /\ AsMany(K) \/ (OneMore(K) /\ n <= LimitOf(K))
  <2>1. ThrottleTypeOK'
    BY <1>3, <1>5 DEF ThrottleTypeOK
  <2>2. ASSUME NEW k \in Keys PROVE Covered(k)'
    <3>1. /\ Covered(k) /\ served[k] \in Nat /\ served'[k] \in Nat
      BY <1>2, <1>5 DEF ThrottleInv
    <3>2. CASE k # K
      BY <1>2, <1>4, <1>5, <3>1, <3>2 DEF Covered
    <3>3. CASE k = K
      <4>1. /\ hits[k] \in Nat /\ hits'[k] = hits[k] + 1
            /\ LimitOf(k) \in Nat /\ LimitOf(k)' = LimitOf(k)
            /\ Cardinality(Requests) \in Nat
            /\ Cardinality(OnItsWay(k)) \in Nat /\ Cardinality(OnItsWay(k)') \in Nat
        BY <1>2, <1>4, <1>5, <3>3
      <4>2. \/ AsMany(k)
            \/ OneMore(k) /\ hits[k] + 1 <= LimitOf(k)
        BY <1>5, <3>3
      <4> QED BY <3>1, <4>1, <4>2 DEF Covered
    <3> QED BY <3>2, <3>3
  <2> QED BY <1>5, <2>1, <2>2 DEF ThrottleInv
<1>6. ASSUME NEW c, c \in {[throttled[q] EXCEPT !.pc = "expire"], [throttled[q] EXCEPT !.pc = "block"]}
      PROVE  /\ c \in Throttled /\ c.pc \in {"expire", "block"} /\ c.who = throttled[q].who
             /\ c.todo = throttled[q].todo /\ c.done = throttled[q].done /\ SoundThrottled(c)
  <2>1. /\ c \in Throttled /\ c.pc \in {"expire", "block"} /\ c.who = throttled[q].who
        /\ c.todo = throttled[q].todo /\ c.done = throttled[q].done
    BY <1>2, <1>6 DEF Throttled, ThrottledPC
  <2> QED BY <1>1, <2>1 DEF ThrottleInv, SoundThrottled
<1>7. CASE n = 1
  <2> DEFINE c == [throttled[q] EXCEPT !.pc = "expire"]
  <2>1. Waits(q, c) /\ UNCHANGED served
    BY <1>0, <1>7 DEF Incr, Step, Waits
  <2>2. throttled' \in [Requests -> Throttled] /\ \A p \in Requests : SoundThrottled(throttled'[p])
    <3>1. c \in Throttled /\ SoundThrottled(c)
      BY <1>6
    <3> HIDE DEF c
    <3> QED BY <1>2, <2>1, <3>1 DEF Waits, ThrottleInv
  <2>3. (\A p \in Requests : SoundThrottled(throttled[p]))'
    BY <2>2
  <2>4. ASSUME NEW k \in Keys, k # K, q \in OnItsWay(k)' PROVE q \in OnItsWay(k)
    <3>1. k = <<k[1], k[2]>>
      BY DEF Keys
    <3>2. throttled'[q] = c /\ c.who = throttled[q].who /\ c.todo = throttled[q].todo /\ c.done = throttled[q].done
      BY <1>2, <1>6, <2>1 DEF Waits
    <3>3. Current(q)' = Current(q)
      BY <3>2 DEF Current
    <3> HIDE DEF c
    <3> QED BY <1>0, <2>4, <3>1, <3>2, <3>3 DEF OnItsWay, KeyOf
  <2>5. ASSUME NEW k \in Keys
        PROVE  /\ Cardinality(OnItsWay(k)) \in Nat /\ Cardinality(OnItsWay(k)') \in Nat
               /\ Cardinality(OnItsWay(k)') <= Cardinality(OnItsWay(k)) + 1
               /\ k # K => Cardinality(OnItsWay(k)') <= Cardinality(OnItsWay(k))
    <3> HIDE DEF c
    <3> QED BY <2>1, <2>4, WaitingCounts
  <2>6. \A k \in Keys : served'[k] = served[k] /\ served[k] \in Nat
    BY <1>2, <2>1
  <2>7. n <= LimitOf(K)
    BY <1>1, <1>7
  <2> HIDE DEF c
  <2>8. \A k \in Keys : OneMore(k) /\ (k # K => AsMany(k))
    BY <2>5, <2>6
  <2>9. served' \in [Keys -> Nat]
    BY <1>2, <2>1
  <2> QED BY <1>1, <2>2, <2>3, <2>5, <2>7, <2>8, <2>9
<1>8. CASE n # 1 /\ n > LimitOf(K)
  <2> DEFINE c == [throttled[q] EXCEPT !.pc = "block"]
  <2>1. Waits(q, c) /\ UNCHANGED served
    BY <1>0, <1>8 DEF Incr, Step, Waits
  <2>2. throttled' \in [Requests -> Throttled] /\ \A p \in Requests : SoundThrottled(throttled'[p])
    <3>1. c \in Throttled /\ SoundThrottled(c)
      BY <1>6
    <3> HIDE DEF c
    <3> QED BY <1>2, <2>1, <3>1 DEF Waits, ThrottleInv
  <2>3. (\A p \in Requests : SoundThrottled(throttled[p]))'
    BY <2>2
  <2>4. ASSUME NEW k \in Keys, q \in OnItsWay(k)' PROVE q \in OnItsWay(k)
    <3>1. throttled'[q] = c /\ c.who = throttled[q].who /\ c.done = throttled[q].done /\ c.pc = "block"
      BY <1>2, <2>1 DEF Waits, Throttled
    <3> HIDE DEF c
    <3> QED BY <2>4, <3>1 DEF OnItsWay
  <2>5. ASSUME NEW k \in Keys
        PROVE  /\ Cardinality(OnItsWay(k)) \in Nat /\ Cardinality(OnItsWay(k)') \in Nat
               /\ Cardinality(OnItsWay(k)') <= Cardinality(OnItsWay(k))
    <3> HIDE DEF c
    <3> QED BY <2>1, <2>4, WaitingCounts
  <2>6. \A k \in Keys : served'[k] = served[k] /\ served[k] \in Nat
    BY <1>2, <2>1
  <2> HIDE DEF c
  <2>7. \A k \in Keys : AsMany(k)
    BY <2>5, <2>6
  <2>8. served' \in [Keys -> Nat]
    BY <1>2, <2>1
  <2> QED BY <1>1, <2>2, <2>3, <2>5, <2>7, <2>8
<1>9. CASE n # 1 /\ ~(n > LimitOf(K))
  <2>1. PassedTo(q)
    BY <1>0, <1>9 DEF Incr
  <2>2. n <= LimitOf(K)
    <3> QED BY <1>1, <1>4, <1>9
  <2>3. /\ served' \in [Keys -> Nat] /\ throttled' \in [Requests -> Throttled]
        /\ (\A p \in Requests : SoundThrottled(throttled[p]))'
        /\ \A k \in Keys : /\ Cardinality(OnItsWay(k)) \in Nat /\ Cardinality(OnItsWay(k)') \in Nat
                           /\ OneMore(k) /\ (k # K => AsMany(k))
    BY <1>0, <1>1, <2>1, OnePasses
  <2> HIDE DEF OneMore, AsMany
  <2> QED BY <1>1, <2>2, <2>3
<1> QED BY <1>7, <1>8, <1>9

\* EXPIRE lets a request pass that INCR has covered.
LEMMA ExpireCounts ==
  ASSUME ThrottleInv, NEW q \in Requests, Expire(q) PROVE ThrottleInv'
<1>1. throttled[q].pc = "expire" /\ PassedTo(q) /\ KeyOf(q) \in Keys /\ UNCHANGED hits
  BY CurrentLimit DEF Expire
<1>2. /\ served' \in [Keys -> Nat] /\ throttled' \in [Requests -> Throttled]
      /\ (\A p \in Requests : SoundThrottled(throttled[p]))'
      /\ \A k \in Keys :
           /\ Cardinality(OnItsWay(k)) \in Nat /\ Cardinality(OnItsWay(k)') \in Nat
           /\ served'[k] + Cardinality(OnItsWay(k)') <= served[k] + Cardinality(OnItsWay(k))
  BY <1>1, OnePasses
<1>3. /\ hits' \in [Keys -> Nat] /\ served \in [Keys -> Nat]
      /\ expiring' \subseteq Keys /\ blockedFor' \subseteq Keys
  BY <1>1 DEF ThrottleInv, ThrottleTypeOK, Expire, WithTtl
<1>4. ASSUME NEW k \in Keys PROVE Covered(k)'
  <2>1. /\ served[k] \in Nat /\ served'[k] \in Nat /\ hits'[k] = hits[k] /\ hits'[k] \in Nat
        /\ LimitOf(k) \in Nat /\ LimitOf(k)' = LimitOf(k)
        /\ Cardinality(Requests) \in Nat /\ Covered(k)
    BY <1>1, <1>2, <1>3, LimitsAreNumbers, ThrottleAssumption, FS_CardinalityType
       DEF ThrottleInv, LimitOf
  <2> QED BY <1>2, <2>1 DEF Covered
<1> QED BY <1>2, <1>3, <1>4 DEF ThrottleInv, ThrottleTypeOK

\* A request that arrives, is refused, or dies.
LEMMA ArrivalsAndRefusals ==
  ASSUME ThrottleInv, NEW q \in Requests,
         HandleRequest(q) \/ CheckBlocked(q) \/ Block(q) \/ Refuse(q) \/ ThrottleCrash(q)
  PROVE  ThrottleInv'
<1>1. /\ throttled[q] \in Throttled /\ SoundThrottled(throttled[q])
      /\ throttled \in [Requests -> Throttled]
      /\ expiring \subseteq Keys /\ blockedFor \subseteq Keys
  BY DEF ThrottleInv, ThrottleTypeOK
<1>2. CASE HandleRequest(q)
  <2>1. PICK h \in Routes, who \in Trackers :
          /\ CountersOf(h) # {}
          /\ throttled' = [throttled EXCEPT ![q] =
               [pc |-> "check", who |-> who, todo |-> CountersOf(h), done |-> {}]]
    BY <1>2 DEF HandleRequest
  <2> DEFINE c == [pc |-> "check", who |-> who, todo |-> CountersOf(h), done |-> {}]
  <2>2. /\ c \in Throttled /\ c.pc = "check" /\ c.who = who /\ c.done = {}
        /\ c.todo = CountersOf(h)
    BY DEF Throttled, ThrottledPC, Counters
  <2>3. \A n \in CountersOf(h) : <<who, n>> \in Keys
    BY DEF Keys, Counters
  <2>4. Waits(q, c) /\ UNCHANGED <<hits, expiring, blockedFor, served>>
    BY <1>2, <2>1 DEF HandleRequest, Waits
  <2> HIDE DEF c
  <2>5. SoundThrottled(c)
    BY <2>1, <2>2, <2>3 DEF SoundThrottled
  <2>6. \A k \in Keys : q \notin OnItsWay(k)'
    BY <1>1, <2>2, <2>4 DEF OnItsWay, Waits
  <2> QED BY <1>1, <2>2, <2>4, <2>5, <2>6, NobodyPasses
<1>3. ASSUME NEW pc \in {"refused", "incr"}, Step(q, pc), throttled[q].pc \in {"check", "block"},
             UNCHANGED <<hits, served>>, expiring' \subseteq Keys, blockedFor' \subseteq Keys
      PROVE  ThrottleInv'
  <2> DEFINE c == [throttled[q] EXCEPT !.pc = pc]
  <2>1. /\ c \in Throttled /\ c.pc = pc /\ c.who = throttled[q].who
        /\ c.todo = throttled[q].todo /\ c.done = throttled[q].done
    BY <1>1 DEF Throttled, ThrottledPC
  <2>2. Waits(q, c)
    BY <1>3 DEF Step, Waits
  <2> HIDE DEF c
  <2>3. SoundThrottled(c)
    BY <1>1, <1>3, <2>1 DEF SoundThrottled
  <2>4. \A k \in Keys : q \in OnItsWay(k)' => q \in OnItsWay(k)
    BY <1>1, <2>1, <2>2 DEF OnItsWay, Waits
  <2> QED BY <1>3, <2>1, <2>2, <2>3, <2>4, NobodyPasses
<1>4. CASE CheckBlocked(q)
  BY <1>1, <1>3, <1>4 DEF CheckBlocked
<1>5. CASE Block(q)
  <2>1. KeyOf(q) \in Keys
    BY <1>5, CurrentLimit DEF Block
  <2> QED BY <1>1, <1>3, <1>5, <2>1 DEF Block
<1>6. CASE Refuse(q) \/ ThrottleCrash(q)
  <2>1. /\ NotThrottled \in Throttled /\ NotThrottled.pc = "idle" /\ NotThrottled.done = {}
        /\ SoundThrottled(NotThrottled)
    BY DEF Throttled, ThrottledPC, NotThrottled, SoundThrottled
  <2>2. Waits(q, NotThrottled) /\ UNCHANGED <<hits, expiring, blockedFor, served>>
    BY <1>6 DEF Refuse, ThrottleCrash, Waits
  <2>3. \A k \in Keys : q \notin OnItsWay(k)'
    BY <1>1, <2>1, <2>2 DEF OnItsWay, Waits
  <2> QED BY <1>1, <2>1, <2>2, <2>3, NobodyPasses
<1> QED BY <1>2, <1>4, <1>5, <1>6

\* A window or a block ends.
LEMMA WindowsAndBlocks ==
  ASSUME ThrottleInv, NEW k \in Keys, WindowEnds(k) \/ BlockEnds(k) PROVE ThrottleInv'
<1>1. /\ hits \in [Keys -> Nat] /\ served \in [Keys -> Nat] /\ UNCHANGED throttled
      /\ expiring \subseteq Keys /\ blockedFor \subseteq Keys
  BY DEF ThrottleInv, ThrottleTypeOK, WindowEnds, BlockEnds
<1>2. /\ hits' \in [Keys -> Nat] /\ served' \in [Keys -> Nat]
      /\ expiring' \subseteq Keys /\ blockedFor' \subseteq Keys
      /\ \A h \in Keys : \/ hits'[h] = 0 /\ served'[h] = 0
                         \/ hits'[h] = hits[h] /\ served'[h] = served[h]
  BY <1>1 DEF WindowEnds, BlockEnds
<1>3. ASSUME NEW h \in Keys PROVE Covered(h)'
  <2>1. /\ OnItsWay(h)' = OnItsWay(h) /\ LimitOf(h)' = LimitOf(h)
        /\ Covered(h) /\ LimitOf(h) \in Nat /\ hits[h] \in Nat /\ served[h] \in Nat
    BY <1>1, LimitsAreNumbers DEF OnItsWay, Current, LimitOf, ThrottleInv
  <2>2. /\ Cardinality(OnItsWay(h)) \in Nat /\ Cardinality(Requests) \in Nat
        /\ Cardinality(OnItsWay(h)) <= Cardinality(Requests)
    BY ThrottleAssumption, RoomToJoin DEF OnItsWay
  <2> QED BY <1>2, <2>1, <2>2 DEF Covered
<1>4. ThrottleTypeOK' /\ (\A q \in Requests : SoundThrottled(throttled[q]))'
  BY <1>1, <1>2 DEF ThrottleInv, ThrottleTypeOK
<1> QED BY <1>3, <1>4 DEF ThrottleInv

LEMMA ThrottleSteps ==
  ASSUME "redis" \notin ThrottleFaults, ThrottleInv, ThrottleNext PROVE ThrottleInv'
<1>1. \A q \in Requests : ~RedisDown(q)
  BY DEF RedisDown
<1> QED BY <1>1, IncrCounts, ExpireCounts, ArrivalsAndRefusals, WindowsAndBlocks DEF ThrottleNext

\* As long as Redis answers, a throttler lets no more requests through in a
\* window than its limit and one per request in flight: AppThrottlerGuard and
\* RedisThrottlerStorage, for any callers, handlers, limits and crashes, in the
\* composition that the run checks.
THEOREM LimitsHold ==
  ASSUME "redis" \notin ThrottleFaults PROVE MCSpec => []ThrottledWhileRedisIsUp
<1> DEFINE Inv == area = "throttle" => ThrottleInv
<1>1. MCInit => Inv
  <2> SUFFICES ASSUME MCInit, area = "throttle" PROVE ThrottleInv
    OBVIOUS
  <2>1. ThrottleInit
    BY DEF MCInit
  <2>2. /\ NotThrottled \in Throttled /\ NotThrottled.done = {} /\ NotThrottled.pc = "idle"
        /\ SoundThrottled(NotThrottled)
    BY DEF Throttled, ThrottledPC, NotThrottled, SoundThrottled
  <2>3. ThrottleTypeOK /\ \A q \in Requests : SoundThrottled(throttled[q])
    BY <2>1, <2>2 DEF ThrottleInit, ThrottleTypeOK
  <2>4. ASSUME NEW k \in Keys PROVE Covered(k)
    <3>1. OnItsWay(k) = {} /\ Cardinality(OnItsWay(k)) = 0
      BY <2>1, <2>2, FS_EmptySet DEF OnItsWay, ThrottleInit
    <3>2. served[k] = 0 /\ hits[k] = 0 /\ LimitOf(k) \in Nat \ {0} /\ Cardinality(Requests) \in Nat
      BY <2>1, LimitsAreNumbers, ThrottleAssumption, FS_CardinalityType DEF ThrottleInit
    <3> QED BY <3>1, <3>2 DEF Covered
  <2> QED BY <2>3, <2>4 DEF ThrottleInv
<1>2. Inv /\ [MCNext]_<<allVars, area>> => Inv'
  <2> SUFFICES ASSUME Inv, [MCNext]_<<allVars, area>>, area' = "throttle" PROVE ThrottleInv'
    OBVIOUS
  <2>1. area = "throttle" /\ ThrottleInv
    BY DEF MCNext
  <2>2. CASE ThrottleNext
    BY <2>1, <2>2, ThrottleSteps
  <2>3. CASE UNCHANGED throttleVars
    BY <2>1, <2>3 DEF throttleVars, ThrottleInv, ThrottleTypeOK, Covered, OnItsWay, Current,
                      LimitOf
  <2> QED BY <2>1, <2>2, <2>3 DEF MCNext, allVars
<1>3. Inv => ThrottledWhileRedisIsUp
  <2> SUFFICES ASSUME ThrottleInv, NEW k \in Keys
               PROVE  served[k] <= LimitOf(k) + Cardinality(Requests)
    BY DEF ThrottledWhileRedisIsUp, ServedWithinLimit
  <2>1. /\ Covered(k) /\ served[k] \in Nat /\ hits[k] \in Nat /\ LimitOf(k) \in Nat
        /\ Cardinality(Requests) \in Nat
    BY LimitsAreNumbers, ThrottleAssumption, FS_CardinalityType DEF ThrottleInv, ThrottleTypeOK
  <2>2. Cardinality(OnItsWay(k)) \in Nat
    BY ThrottleAssumption, RoomToJoin DEF OnItsWay
  <2> QED BY <2>1, <2>2 DEF Covered
<1> QED BY <1>1, <1>2, <1>3, PTL DEF MCSpec

-----------------------------------------------------------------------------
(* Requests for codes that come one at a time: an address that counts as    *)
(* verified was proved.  What is inductive is that only an unverified        *)
(* address waits to be replaced through the profile, and that an account     *)
(* that Google vouched for is verified.                                      *)

People == {"ann", "bob"}
ContactsInTurn == SomePhones \cup SomeMails

\* A request, but for the row and the code it looks at.
AskShaped(q) ==
  /\ q \in [pc: InTurn!RequestPC, to: ContactsInTurn \cup {Nobody}, who: People \cup {Nobody},
            row: {q.row}, attempts: {q.attempts}, right: {q.right}, purpose: {q.purpose}]
  /\ q.pc # "idle" => q.to \in ContactsInTurn
  /\ q.pc \in {"link", "profile"} => q.who \in People

\* The row of an account, and what its requests may not forget.
AccountSound(u) ==
  /\ users[u].isEmailVerified /\ users[u].email # Nobody => <<u, users[u].email>> \in proved
  /\ users[u].googleId # Nobody => users[u].isEmailVerified

VerifiedInv(r) ==
  /\ users \in [People -> InTurn!UserRow]
  /\ request = [x \in {r} |-> request[x]] /\ AskShaped(request[r])
  /\ \A u \in People : AccountSound(u)
  /\ request[r].pc = "profile" /\ request[r].to \in SomeMails => ~users[request[r].who].isEmailVerified

LEMMA InTurnShapes ==
  /\ InTurn!Contacts = ContactsInTurn
  /\ AskShaped(InTurn!NoRequest) /\ InTurn!NoRequest.pc = "idle"
  /\ InTurn!UserRow = [exists: BOOLEAN, phone: SomePhones \cup {Nobody}, email: SomeMails \cup {Nobody},
                       isPhoneVerified: BOOLEAN, isEmailVerified: BOOLEAN, googleId: SomeMails \cup {Nobody}]
BY DEF InTurn!Contacts, ContactsInTurn, AskShaped, InTurn!NoRequest, InTurn!RequestPC, InTurn!UserRow

\* The request goes on as `q`, and no account changes.
LEMMA AskMoves ==
  ASSUME NEW r, VerifiedInv(r), NEW q, request' = [request EXCEPT ![r] = q], AskShaped(q),
         UNCHANGED <<users, proved>>,
         q.pc = "profile" /\ q.to \in SomeMails => ~users[q.who].isEmailVerified
  PROVE  VerifiedInv(r)'
<1>1. request' = [x \in {r} |-> request'[x]] /\ request'[r] = q
  BY DEF VerifiedInv
<1>2. \A u \in People : AccountSound(u)'
  BY DEF VerifiedInv, AccountSound
<1>3. AskShaped(request[r])'
  BY <1>1 DEF AskShaped, InTurn!RequestPC, ContactsInTurn
<1>4. (users \in [People -> InTurn!UserRow])'
  BY DEF VerifiedInv, InTurn!UserRow
<1> QED BY <1>1, <1>2, <1>3, <1>4 DEF VerifiedInv

LEMMA AskProceeds ==
  ASSUME NEW r, VerifiedInv(r), NEW pc \in InTurn!RequestPC \ {"link", "profile"}, InTurn!Proceed(r, pc),
         request[r].pc # "idle", UNCHANGED <<users, proved>>
  PROVE  VerifiedInv(r)'
<1> DEFINE q == [request[r] EXCEPT !.pc = pc]
<1>1. request' = [request EXCEPT ![r] = q] /\ AskShaped(request[r])
  BY DEF InTurn!Proceed, VerifiedInv
<1>2. AskShaped(q) /\ q.pc = pc
  BY <1>1 DEF AskShaped
<1> HIDE DEF q
<1> QED BY <1>1, <1>2, AskMoves

LEMMA AskEnds ==
  ASSUME NEW r, VerifiedInv(r), InTurn!Finish(r), UNCHANGED <<users, proved>> PROVE VerifiedInv(r)'
BY InTurnShapes, AskMoves DEF InTurn!Finish

\* The request ends with a change of one account.
LEMMA AccountChanges ==
  ASSUME NEW r, VerifiedInv(r), NEW u \in People, NEW row \in InTurn!UserRow,
         users' = [users EXCEPT ![u] = row], proved \subseteq proved',
         request' = [request EXCEPT ![r] = InTurn!NoRequest] \/ (request[r].pc = "idle" /\ UNCHANGED request),
         row.isEmailVerified /\ row.email # Nobody => <<u, row.email>> \in proved',
         row.googleId # Nobody => row.isEmailVerified
  PROVE  VerifiedInv(r)'
<1>1. users' \in [People -> InTurn!UserRow]
  BY DEF VerifiedInv
<1>2. /\ users'[u] = row
      /\ \A v \in People : v # u => users'[v] = users[v]
  BY DEF VerifiedInv
<1>3. \A v \in People : AccountSound(v)'
  BY <1>2 DEF VerifiedInv, AccountSound
<1>4. request' = [x \in {r} |-> request'[x]] /\ AskShaped(request'[r]) /\ request'[r].pc = "idle"
  BY InTurnShapes DEF VerifiedInv
<1>5. AskShaped(request[r])'
  BY <1>4 DEF AskShaped, InTurn!RequestPC, ContactsInTurn
<1>6. (users \in [People -> InTurn!UserRow])'
  BY <1>1 DEF InTurn!UserRow
<1> QED BY <1>3, <1>4, <1>5, <1>6 DEF VerifiedInv

LEMMA SendingKeepsProofs ==
  ASSUME NEW r, VerifiedInv(r),
         \/ InTurn!SendOtp(r) \/ InTurn!SendEmailOtp(r) \/ InTurn!SendEmailVerification(r)
         \/ InTurn!SendMobileVerification(r) \/ InTurn!CreateOtp(r)
  PROVE  VerifiedInv(r)'
<1>1. ASSUME NEW c \in ContactsInTurn, NEW who \in People \cup {Nobody}, NEW p, InTurn!AskCode(r, c, who, p)
      PROVE  VerifiedInv(r)'
  <2> DEFINE q == [InTurn!NoRequest EXCEPT !.pc = "send", !.to = c, !.who = who, !.purpose = p]
  <2>1. request' = [request EXCEPT ![r] = q] /\ UNCHANGED <<users, proved>>
    BY <1>1 DEF InTurn!AskCode
  <2>2. AskShaped(q) /\ q.pc = "send"
    BY DEF AskShaped, InTurn!RequestPC, InTurn!NoRequest
  <2> HIDE DEF q
  <2> QED BY <2>1, <2>2, AskMoves
<1>2. CASE InTurn!SendOtp(r) \/ InTurn!SendEmailOtp(r)
  BY <1>1, <1>2 DEF InTurn!SendOtp, InTurn!SendEmailOtp, ContactsInTurn
<1>3. CASE InTurn!SendEmailVerification(r) \/ InTurn!SendMobileVerification(r)
  BY <1>1, <1>3 DEF InTurn!SendEmailVerification, InTurn!SendMobileVerification, ContactsInTurn, People
<1>4. CASE InTurn!CreateOtp(r)
  BY <1>4, AskEnds DEF InTurn!CreateOtp
<1> QED BY <1>2, <1>3, <1>4

LEMMA CheckingKeepsProofs ==
  ASSUME NEW r, VerifiedInv(r),
         \/ InTurn!VerifyOtp(r) \/ InTurn!VerifyEmailOtp(r) \/ InTurn!VerifyEmail(r) \/ InTurn!VerifyMobile(r)
  PROVE  VerifiedInv(r)'
<1>1. ASSUME NEW c \in ContactsInTurn, NEW who \in People \cup {Nobody}, NEW p, InTurn!ReadCode(r, c, who, p)
      PROVE  VerifiedInv(r)'
  <2>1. PICK right \in BOOLEAN :
          request' = [request EXCEPT ![r] =
            [pc |-> IF otps[InTurn!Latest(c)].attempts >= GuessLimit THEN "burn" ELSE "guess",
             to |-> c, who |-> who, row |-> InTurn!Latest(c),
             attempts |-> otps[InTurn!Latest(c)].attempts, right |-> right, purpose |-> p]]
    BY <1>1 DEF InTurn!ReadCode
  <2> DEFINE pc == IF otps[InTurn!Latest(c)].attempts >= GuessLimit THEN "burn" ELSE "guess"
             q == [pc |-> pc, to |-> c, who |-> who, row |-> InTurn!Latest(c),
                   attempts |-> otps[InTurn!Latest(c)].attempts, right |-> right, purpose |-> p]
  <2>2. pc \in {"burn", "guess"}
    OBVIOUS
  <2> HIDE DEF pc
  <2>3. AskShaped(q) /\ q.pc = pc
    BY <2>2 DEF AskShaped, InTurn!RequestPC
  <2>4. request' = [request EXCEPT ![r] = q] /\ UNCHANGED <<users, proved>>
    BY <1>1, <2>1 DEF pc, InTurn!ReadCode
  <2> HIDE DEF q
  <2> QED BY <2>2, <2>3, <2>4, AskMoves
<1>2. CASE InTurn!VerifyOtp(r) \/ InTurn!VerifyEmailOtp(r)
  BY <1>1, <1>2 DEF InTurn!VerifyOtp, InTurn!VerifyEmailOtp, ContactsInTurn, People
<1>3. CASE InTurn!VerifyEmail(r) \/ InTurn!VerifyMobile(r)
  BY <1>1, <1>3 DEF InTurn!VerifyEmail, InTurn!VerifyMobile, ContactsInTurn, People
<1> QED BY <1>2, <1>3

LEMMA GuessingKeepsProofs ==
  ASSUME NEW r, VerifiedInv(r),
         InTurn!Compare(r) \/ InTurn!CountGuess(r) \/ InTurn!BurnCode(r) \/ InTurn!SpendCode(r)
  PROVE  VerifiedInv(r)'
<1>1. /\ UNCHANGED <<users, proved>> /\ request[r].pc # "idle"
      /\ {"burn", "spend", "count", "open"} \subseteq InTurn!RequestPC \ {"link", "profile"}
  BY DEF InTurn!Compare, InTurn!CountGuess, InTurn!BurnCode, InTurn!SpendCode, InTurn!RequestPC
<1>2. CASE InTurn!Finish(r)
  BY <1>1, <1>2, AskEnds
<1>3. ASSUME NEW pc \in {"burn", "spend", "count", "open"}, InTurn!Proceed(r, pc) PROVE VerifiedInv(r)'
  BY <1>1, <1>3, AskProceeds
<1>4. CASE InTurn!Proceed(r, "link") /\ request[r].who # Nobody
  <2> DEFINE q == [request[r] EXCEPT !.pc = "link"]
  <2>1. request' = [request EXCEPT ![r] = q] /\ AskShaped(request[r])
    BY <1>4 DEF InTurn!Proceed, VerifiedInv
  <2>2. AskShaped(q) /\ q.pc = "link"
    BY <1>1, <1>4, <2>1 DEF AskShaped, InTurn!RequestPC
  <2> HIDE DEF q
  <2> QED BY <1>1, <2>1, <2>2, AskMoves
<1>5. CASE InTurn!Compare(r)
  BY <1>3, <1>5 DEF InTurn!Compare
<1>6. CASE InTurn!CountGuess(r)
  BY <1>2, <1>3, <1>6 DEF InTurn!CountGuess
<1>7. CASE InTurn!BurnCode(r)
  BY <1>2, <1>7 DEF InTurn!BurnCode
<1>8. CASE InTurn!SpendCode(r)
  BY <1>2, <1>3, <1>4, <1>8 DEF InTurn!SpendCode
<1> QED BY <1>5, <1>6, <1>7, <1>8

\* A code proves the contact it was sent to.
LEMMA CodesProve ==
  ASSUME NEW r, VerifiedInv(r), InTurn!OpenAccount(r) \/ InTurn!LinkContact(r) PROVE VerifiedInv(r)'
<1> DEFINE c == request[r].to
<1>1. c \in ContactsInTurn /\ AskShaped(request[r]) /\ users \in [People -> InTurn!UserRow]
  BY DEF VerifiedInv, AskShaped, InTurn!OpenAccount, InTurn!LinkContact
<1>2. ASSUME NEW u \in People, users' = InTurn!WithContact(u, c), proved' = proved \cup {<<u, c>>},
             InTurn!Finish(r)
      PROVE  VerifiedInv(r)'
  <2> DEFINE row == users[u]
             withPhone == [row EXCEPT !.exists = TRUE, !.phone = c, !.isPhoneVerified = TRUE]
             withMail == [row EXCEPT !.exists = TRUE, !.email = c, !.isEmailVerified = TRUE]
  <2>1. row \in InTurn!UserRow /\ AccountSound(u)
    BY <1>1 DEF VerifiedInv
  <2>2. CASE c \in SomePhones
    <3>1. users' = [users EXCEPT ![u] = withPhone]
      BY <1>1, <1>2, <2>2 DEF InTurn!WithContact
    <3>2. /\ withPhone \in InTurn!UserRow /\ withPhone.email = row.email
          /\ withPhone.isEmailVerified = row.isEmailVerified /\ withPhone.googleId = row.googleId
      BY <2>1, <2>2, InTurnShapes
    <3> HIDE DEF withPhone
    <3> QED BY <1>2, <2>1, <3>1, <3>2, AccountChanges DEF AccountSound, InTurn!Finish
  <2>3. CASE c \notin SomePhones
    <3>1. users' = [users EXCEPT ![u] = withMail]
      BY <1>1, <1>2, <2>3 DEF InTurn!WithContact
    <3>2. withMail \in InTurn!UserRow /\ withMail.email = c /\ withMail.isEmailVerified = TRUE
      BY <1>1, <2>1, <2>3, InTurnShapes DEF ContactsInTurn
    <3> HIDE DEF withMail
    <3> QED BY <1>2, <3>1, <3>2, AccountChanges DEF InTurn!Finish
  <2> QED BY <2>2, <2>3
<1>3. CASE InTurn!OpenAccount(r)
  BY <1>2, <1>3 DEF InTurn!OpenAccount, People
<1>4. CASE InTurn!LinkContact(r)
  <2>1. request[r].who \in People
    BY <1>1, <1>4 DEF AskShaped, InTurn!LinkContact
  <2> QED BY <1>2, <1>4, <2>1, AskEnds DEF InTurn!LinkContact
<1> QED BY <1>3, <1>4

\* Google proves its own address, which is the account's or another one.
LEMMA GoogleProves == ASSUME NEW r, VerifiedInv(r), InTurn!GoogleAuth(r) PROVE VerifiedInv(r)'
<1> DEFINE found(c) == {v \in People : users[v].googleId = c \/ InTurn!Holds(v, c)}
<1>1. PICK c \in SomeMails, u \in People :
        /\ IF found(c) = {} THEN ~users[u].exists ELSE u \in found(c)
        /\ users' = [users EXCEPT ![u].exists = TRUE, ![u].isEmailVerified = TRUE, ![u].googleId = c,
                                  ![u].email = IF found(c) = {} THEN c ELSE @]
        /\ proved' = IF users'[u].email = c THEN proved \cup {<<u, c>>} ELSE proved
  BY DEF InTurn!GoogleAuth, People
<1> DEFINE row == users[u]
           mail == IF found(c) = {} THEN c ELSE row.email
           now == [row EXCEPT !.exists = TRUE, !.isEmailVerified = TRUE, !.googleId = c, !.email = mail]
<1>2. row \in InTurn!UserRow /\ AccountSound(u) /\ users \in [People -> InTurn!UserRow]
  BY DEF VerifiedInv
<1>3. mail \in SomeMails \cup {Nobody}
  BY <1>2, InTurnShapes
<1>4. now \in InTurn!UserRow /\ now.email = mail /\ now.isEmailVerified = TRUE
  BY <1>2, <1>3, InTurnShapes
<1>5. users' = [users EXCEPT ![u] = now] /\ users'[u].email = mail
  BY <1>1, <1>2, <1>4
<1>6. mail = c \/ (mail = row.email /\ row.isEmailVerified)
  <2>1. CASE found(c) = {}
    BY <2>1
  <2>2. CASE found(c) # {} /\ row.googleId = c
    BY <1>2, <2>2, AccountsAssumption DEF AccountSound
  <2>3. CASE found(c) # {} /\ InTurn!Holds(u, c)
    BY <1>2, <2>3, InTurnShapes, AccountsAssumption DEF InTurn!Holds
  <2> QED BY <1>1, <2>1, <2>2, <2>3
<1>7. mail # Nobody => <<u, mail>> \in proved'
  BY <1>1, <1>2, <1>5, <1>6 DEF AccountSound
<1>8. request[r].pc = "idle" /\ UNCHANGED request /\ proved \subseteq proved'
  BY <1>1 DEF InTurn!GoogleAuth
<1> HIDE DEF now, mail
<1> QED BY <1>4, <1>5, <1>7, <1>8, AccountChanges

\* Only an address that is not verified waits to be replaced.
LEMMA EditsKeepProofs ==
  ASSUME NEW r, VerifiedInv(r), InTurn!EditContact(r) \/ InTurn!EditContactSave(r) PROVE VerifiedInv(r)'
<1>1. CASE InTurn!EditContact(r)
  <2>1. PICK u \in People, c \in ContactsInTurn :
          /\ IF c \in SomeMails THEN InTurn!MayChangeMail(u, c) ELSE ~InTurn!Taken(c, u)
          /\ request' = [request EXCEPT ![r] = [InTurn!NoRequest EXCEPT !.pc = "profile", !.to = c, !.who = u]]
    BY <1>1, InTurnShapes DEF InTurn!EditContact, People
  <2> DEFINE q == [InTurn!NoRequest EXCEPT !.pc = "profile", !.to = c, !.who = u]
  <2>2. AskShaped(q) /\ q.pc = "profile" /\ q.to = c /\ q.who = u
    BY DEF AskShaped, InTurn!NoRequest, InTurn!RequestPC
  <2>3. c \in SomeMails => ~users[u].isEmailVerified
    BY <2>1 DEF InTurn!MayChangeMail
  <2>4. request' = [request EXCEPT ![r] = q] /\ UNCHANGED <<users, proved>>
    BY <1>1, <2>1 DEF InTurn!EditContact
  <2> HIDE DEF q
  <2> QED BY <2>2, <2>3, <2>4, AskMoves
<1>2. CASE InTurn!EditContactSave(r)
  <2> DEFINE c == request[r].to
             u == request[r].who
             row == users[u]
             withMail == [row EXCEPT !.email = c]
             withPhone == [row EXCEPT !.phone = c]
  <2>1. /\ c \in ContactsInTurn /\ u \in People /\ users \in [People -> InTurn!UserRow]
        /\ row \in InTurn!UserRow /\ AccountSound(u)
        /\ c \in SomeMails => ~row.isEmailVerified
    BY <1>2 DEF InTurn!EditContactSave, VerifiedInv, AskShaped
  <2>2. UNCHANGED proved /\ request' = [request EXCEPT ![r] = InTurn!NoRequest]
    BY <1>2 DEF InTurn!EditContactSave, InTurn!Finish
  <2>3. CASE UNCHANGED users
    BY <2>2, <2>3, AskEnds DEF InTurn!Finish
  <2>4. CASE c \in SomeMails /\ users' = [users EXCEPT ![u].email = c]
    <3>1. users' = [users EXCEPT ![u] = withMail]
      BY <2>1, <2>4
    <3>2. /\ withMail \in InTurn!UserRow /\ withMail.isEmailVerified = row.isEmailVerified
          /\ withMail.googleId = row.googleId
      BY <2>1, <2>4, InTurnShapes
    <3>3. ~withMail.isEmailVerified /\ withMail.googleId = Nobody
      BY <2>1, <2>4, <3>2 DEF AccountSound
    <3> HIDE DEF withMail
    <3> QED BY <2>1, <2>2, <3>1, <3>2, <3>3, AccountChanges
  <2>5. CASE c \notin SomeMails /\ users' = [users EXCEPT ![u].phone = c]
    <3>1. users' = [users EXCEPT ![u] = withPhone]
      BY <2>1, <2>5
    <3>2. /\ withPhone \in InTurn!UserRow /\ withPhone.isEmailVerified = row.isEmailVerified
          /\ withPhone.googleId = row.googleId /\ withPhone.email = row.email
      BY <2>1, <2>5, InTurnShapes DEF ContactsInTurn
    <3> HIDE DEF withPhone
    <3> QED BY <2>1, <2>2, <3>1, <3>2, AccountChanges DEF AccountSound
  <2> QED BY <1>2, <2>3, <2>4, <2>5 DEF InTurn!EditContactSave
<1> QED BY <1>1, <1>2

LEMMA ProofsUndisturbed ==
  ASSUME NEW r, VerifiedInv(r), UNCHANGED <<users, proved, request>> PROVE VerifiedInv(r)'
<1>1. request' = [request EXCEPT ![r] = request[r]] /\ AskShaped(request[r])
  BY DEF VerifiedInv
<1> QED BY <1>1, AskMoves DEF VerifiedInv

LEMMA ProofsStay ==
  ASSUME NEW r, OneCaller = {r}, VerifiedInv(r), InTurn!CodesNext PROVE VerifiedInv(r)'
<1>1. CASE InTurn!CooldownEnds \/ InTurn!CodeAges \/ InTurn!CleanupExpiredOtpLogs
  BY <1>1, ProofsUndisturbed DEF InTurn!CooldownEnds, InTurn!CodeAges, InTurn!CleanupExpiredOtpLogs
<1> QED BY <1>1, SendingKeepsProofs, CheckingKeepsProofs, GuessingKeepsProofs, CodesProve, GoogleProves,
           EditsKeepProofs DEF InTurn!CodesNext

\* Requests that come one at a time: whatever logging in, linking, verifying,
\* Google and the profile did before, an address that counts as verified was
\* proved by a code or by Google for that very account.
THEOREM VerifiedAreProved ==
  ASSUME NEW r, OneCaller = {r} PROVE MCSpec => []VerifiedInTurn
<1> DEFINE Inv == area = "codes in turn" => VerifiedInv(r)
<1>1. MCInit => Inv
  <2> SUFFICES ASSUME MCInit, area = "codes in turn" PROVE VerifiedInv(r)
    OBVIOUS
  <2>1. /\ users = [u \in People |-> InTurn!NoUser]
        /\ request = [x \in {r} |-> InTurn!NoRequest]
    BY DEF MCInit, InTurn!CodesInit, People
  <2>2. InTurn!NoUser \in InTurn!UserRow
    BY DEF InTurn!NoUser, InTurn!UserRow
  <2>3. \A u \in People : AccountSound(u)
    BY <2>1 DEF AccountSound, InTurn!NoUser
  <2> QED BY <2>1, <2>2, <2>3, InTurnShapes DEF VerifiedInv
<1>2. Inv /\ [MCNext]_<<allVars, area>> => Inv'
  <2> SUFFICES ASSUME Inv, [MCNext]_<<allVars, area>>, area' = "codes in turn" PROVE VerifiedInv(r)'
    OBVIOUS
  <2>1. CASE MCNext
    <3>1. area = "codes in turn" /\ InTurn!CodesNext
      BY <2>1 DEF MCNext
    <3> QED BY <3>1, ProofsStay
  <2>2. CASE UNCHANGED <<allVars, area>>
    BY <2>2, ProofsUndisturbed DEF allVars, codeVars
  <2> QED BY <2>1, <2>2
<1>3. Inv => VerifiedInTurn
  BY DEF VerifiedInv, AccountSound, VerifiedInTurn, InTurn!VerifiedMailWasProved, People
<1> QED BY <1>1, <1>2, <1>3, PTL DEF MCSpec

-----------------------------------------------------------------------------
(* Lists without some of their members.  The recursion has a solution, and    *)
(* what it keeps are the others, in a list that repeats nothing.              *)

Keep(list, gone, before, n) == IF list[n] \in gone THEN before ELSE Append(before, list[n])
Keeps(list, gone, N, g) ==
  g = [n \in 0..N |-> IF n = 0 THEN <<>> ELSE Keep(list, gone, g[n - 1], n)]

LEMMA KeepingExists ==
  ASSUME NEW list, NEW gone, NEW N \in Nat PROVE \E g : Keeps(list, gone, N, g)
<1> DEFINE Bad == {n \in Nat : ~\E g : Keeps(list, gone, n, g)}
<1> SUFFICES ASSUME Bad # {} PROVE FALSE
  OBVIOUS
<1>1. PICK m \in Bad : \A n \in Bad : ~(n < m)
  <2>1. \A n, m \in Nat : n < m => <<n, m>> \in OpToRel(<, Nat)
    BY DEF OpToRel
  <2> QED BY <2>1, NatLessThanWellFounded, WFMin
<1>2. m # 0
  <2>1. Keeps(list, gone, 0, [n \in 0..0 |-> <<>>])
    BY DEF Keeps
  <2> QED BY <2>1
<1>3. PICK g : Keeps(list, gone, m - 1, g)
  BY <1>1, <1>2
<1> DEFINE h == [n \in 0..m |-> IF n = m THEN Keep(list, gone, g[m - 1], m) ELSE g[n]]
<1>4. \A n \in 0..(m - 1) : g[n] = IF n = 0 THEN <<>> ELSE Keep(list, gone, g[n - 1], n)
  BY <1>3 DEF Keeps
<1>5. Keeps(list, gone, m, h)
  <2>1. m \in Nat /\ m # 0
    BY <1>2
  <2> HIDE DEF Bad
  <2> SUFFICES ASSUME NEW n \in 0..m
               PROVE  h[n] = IF n = 0 THEN <<>> ELSE Keep(list, gone, h[n - 1], n)
    BY DEF Keeps
  <2>2. CASE n = m
    <3>1. h[n] = Keep(list, gone, g[m - 1], m) /\ h[n - 1] = g[n - 1]
      BY <2>1, <2>2
    <3> QED BY <2>1, <2>2, <3>1
  <2>3. CASE n \in 0..(m - 1)
    <3>1. h[n] = g[n] /\ (n # 0 => h[n - 1] = g[n - 1])
      BY <2>1, <2>3
    <3> QED BY <1>4, <2>3, <3>1
  <2> QED BY <2>1, <2>2, <2>3
<1> QED BY <1>1, <1>5

Distinct(list) == \A i, j \in 1..Len(list) : list[i] = list[j] => i = j
In(list) == {list[i] : i \in 1..Len(list)}

LEMMA KeptOnes ==
  ASSUME NEW S, NEW list \in Seq(S), Distinct(list), NEW gone
  PROVE  LET rest == Pages!Without(list, gone) IN
         rest \in Seq(S) /\ Distinct(rest) /\ In(rest) = In(list) \ gone
<1> DEFINE g == CHOOSE x : Keeps(list, gone, Len(list), x)
           So(n) == /\ g[n] \in Seq(S) /\ Distinct(g[n])
                    /\ In(g[n]) = {list[i] : i \in 1..n} \ gone
           Bad == {n \in 0..Len(list) : ~So(n)}
<1>1. Len(list) \in Nat /\ \A n \in 1..Len(list) : list[n] \in S
  OBVIOUS
<1>2. Keeps(list, gone, Len(list), g)
  BY <1>1, KeepingExists
<1>3. Pages!Without(list, gone) = g[Len(list)]
  BY DEF Pages!Without, Keeps, Keep
<1> HIDE DEF g
<1>4. \A n \in 0..Len(list) : g[n] = IF n = 0 THEN <<>> ELSE Keep(list, gone, g[n - 1], n)
  BY <1>2 DEF Keeps
<1>5. Bad = {}
  <2> SUFFICES ASSUME Bad # {} PROVE FALSE
    OBVIOUS
  <2>1. PICK m \in Bad : \A n \in Bad : ~(n < m)
    <3>1. \A n, m \in Nat : n < m => <<n, m>> \in OpToRel(<, Nat)
      BY DEF OpToRel
    <3>2. Bad \subseteq Nat
      BY <1>1
    <3> HIDE DEF Bad
    <3> QED BY <3>1, <3>2, NatLessThanWellFounded, WFMin
  <2>2. m # 0
    <3>1. So(0)
      <4>1. g[0] = <<>>
        BY <1>1, <1>4
      <4> QED BY <4>1 DEF Distinct, In
    <3> QED BY <2>1, <3>1
  <2> DEFINE b == g[m - 1]
  <2>3. m \in 1..Len(list) /\ b \in Seq(S) /\ Distinct(b) /\ In(b) = {list[i] : i \in 1..(m - 1)} \ gone
    <3>1. m \in 1..Len(list) /\ So(m - 1)
      <4> HIDE DEF So
      <4> QED BY <1>1, <2>1, <2>2
    <3> QED BY <3>1
  <2>4. g[m] = Keep(list, gone, b, m)
    BY <1>4, <2>2, <2>3
  <2> HIDE DEF b
  <2>5. {list[i] : i \in 1..m} = {list[i] : i \in 1..(m - 1)} \cup {list[m]}
    BY <1>1, <2>3
  <2>6. CASE list[m] \in gone
    <3>1. g[m] = b /\ In(b) = {list[i] : i \in 1..m} \ gone
      BY <2>3, <2>4, <2>5, <2>6 DEF Keep
    <3> QED BY <2>1, <2>3, <3>1
  <2>7. CASE list[m] \notin gone
    <3>1. g[m] = Append(b, list[m]) /\ list[m] \in S
      BY <1>1, <2>3, <2>4, <2>7 DEF Keep
    <3>2. /\ g[m] \in Seq(S) /\ Len(g[m]) = Len(b) + 1 /\ g[m][Len(b) + 1] = list[m]
          /\ \A i \in 1..Len(b) : g[m][i] = b[i]
          /\ Len(b) \in Nat
      BY <2>3, <3>1
    <3>3. \A i \in 1..Len(b) : b[i] # list[m]
      <4>1. list[m] \notin {list[i] : i \in 1..(m - 1)}
        BY <1>1, <2>3 DEF Distinct
      <4> QED BY <2>3, <4>1 DEF In
    <3>4. Distinct(g[m])
      <4> SUFFICES ASSUME NEW i \in 1..Len(g[m]), NEW j \in 1..Len(g[m]), g[m][i] = g[m][j] PROVE i = j
        BY DEF Distinct
      <4>1. \A x \in 1..Len(g[m]) : x \in 1..Len(b) \/ x = Len(b) + 1
        BY <3>2
      <4>2. i \in 1..Len(b) /\ j \in 1..Len(b) => i = j
        BY <2>3, <3>2 DEF Distinct
      <4> QED BY <3>2, <3>3, <4>1, <4>2
    <3>5. In(g[m]) = In(b) \cup {list[m]}
      BY SMTT(30), <3>2 DEF In
    <3>6. In(g[m]) = {list[i] : i \in 1..m} \ gone
      BY <2>3, <2>5, <2>7, <3>5
    <3> QED BY <2>1, <3>2, <3>4, <3>6
  <2> QED BY <2>6, <2>7
<1>6. So(Len(list))
  <2> HIDE DEF So
  <2> QED BY <1>1, <1>5
<1> QED BY <1>3, <1>6 DEF In

\* A list that repeats nothing is as long as it has members.
LEMMA LengthOfDistinct ==
  ASSUME NEW S, NEW list \in Seq(S), Distinct(list)
  PROVE  IsFiniteSet(In(list)) /\ Cardinality(In(list)) = Len(list)
<1>1. Len(list) \in Nat
  OBVIOUS
<1>2. list \in Bijection(1..Len(list), In(list))
  BY DEF Distinct, In, Bijection, Injection, Surjection, IsInjective
<1>3. IsFiniteSet(1..Len(list)) /\ Cardinality(1..Len(list)) = Len(list)
  BY SMTT(30), <1>1, FS_Interval
<1> QED BY <1>2, <1>3, FS_Bijection DEF ExistsBijection

-----------------------------------------------------------------------------
(* Recently viewed products, with any number of pages opened at once: the    *)
(* list is within its limit, or a visit is still to look at it, or a visit   *)
(* is about to delete so much that it will be.                               *)

Bounds(v) ==
  \/ visit[v].pc = "trim_views"
  \/ visit[v].pc = "trim_delete" /\ Cardinality(In(views) \ visit[v].excess) <= ViewLimit

PageShaped(x) ==
  x \in [pc: {"idle", "trim_views", "trim_delete"}, id: {x.id}, flag: {x.flag}, excess: {x.excess}]

PagesInv ==
  /\ views \in Seq(Products) /\ Distinct(views)
  /\ visit = [v \in Callers |-> visit[v]] /\ \A v \in Callers : PageShaped(visit[v])
  /\ Len(views) <= ViewLimit \/ \E v \in Callers : Bounds(v)

LEMMA PutFirst ==
  ASSUME NEW S, NEW p \in S, NEW rest \in Seq(S), NEW list, list = <<p>> \o rest
  PROVE  /\ list \in Seq(S) /\ Len(list) = Len(rest) + 1 /\ list[1] = p /\ Len(rest) \in Nat
         /\ \A i \in 1..Len(rest) : list[i + 1] = rest[i]
<1>1. <<p>> \in Seq(S) /\ Len(<<p>>) = 1 /\ <<p>>[1] = p
  OBVIOUS
<1>2. list \in Seq(S) /\ Len(list) = 1 + Len(rest) /\ Len(rest) \in Nat
  BY <1>1
<1> QED BY <1>1, <1>2

LEMMA PageOpens ==
  ASSUME NEW v \in Callers, PagesInv, Pages!AddRecentlyViewed(v) PROVE PagesInv'
<1>1. PICK p \in Products : views' = <<p>> \o Pages!Without(views, {p})
  BY DEF Pages!AddRecentlyViewed
<1> DEFINE rest == Pages!Without(views, {p})
<1>2. rest \in Seq(Products) /\ Distinct(rest) /\ In(rest) = In(views) \ {p}
  BY KeptOnes DEF PagesInv
<1> HIDE DEF rest
<1>3. /\ views' \in Seq(Products) /\ Len(views') = Len(rest) + 1 /\ views'[1] = p /\ Len(rest) \in Nat
      /\ \A i \in 1..Len(rest) : views'[i + 1] = rest[i]
  <2>1. views' = <<p>> \o rest
    BY <1>1 DEF rest
  <2> QED BY <1>2, <2>1, PutFirst
<1>4. \A i \in 1..Len(views') : i = 1 \/ (i - 1 \in 1..Len(rest) /\ views'[i] = rest[i - 1])
  <2> SUFFICES ASSUME NEW i \in 1..Len(views'), i # 1 PROVE i - 1 \in 1..Len(rest) /\ views'[i] = rest[i - 1]
    OBVIOUS
  <2>1. i - 1 \in 1..Len(rest) /\ (i - 1) + 1 = i
    BY <1>3
  <2> QED BY <1>3, <2>1
<1>5. \A i \in 1..Len(rest) : rest[i] # p
  BY <1>2 DEF In
<1>6. Distinct(views')
  <2> SUFFICES ASSUME NEW i \in 1..Len(views'), NEW j \in 1..Len(views'), views'[i] = views'[j] PROVE i = j
    BY DEF Distinct
  <2>1. i # 1 /\ j # 1 => i - 1 = j - 1
    BY <1>2, <1>4 DEF Distinct
  <2> QED BY SMTT(30), <1>3, <1>4, <1>5, <2>1
<1>7. /\ visit' = [visit EXCEPT ![v] = [pc |-> "trim_views", id |-> 0, flag |-> FALSE, excess |-> {}]]
      /\ visit = [w \in Callers |-> visit[w]] /\ \A w \in Callers : PageShaped(visit[w])
  BY DEF Pages!AddRecentlyViewed, Pages!Begin, PagesInv
<1>8. /\ visit' = [w \in Callers |-> visit'[w]] /\ visit'[v].pc = "trim_views"
      /\ \A w \in Callers : PageShaped(visit[w])'
  BY <1>7 DEF PageShaped
<1> QED BY <1>3, <1>6, <1>8 DEF PagesInv, Bounds, Distinct

\* What is read as excess leaves as many as the limit, or fewer.
LEMMA PageFinds ==
  ASSUME NEW v \in Callers, PagesInv, Pages!FindExcess(v) PROVE PagesInv'
<1> DEFINE excess == {views[i] : i \in (ViewLimit + 1)..Len(views)}
           first == {views[i] : i \in {j \in 1..Len(views) : j <= ViewLimit}}
           t == [visit[v] EXCEPT !.pc = "trim_delete", !.excess = excess]
<1>1. /\ UNCHANGED views /\ views \in Seq(Products) /\ Distinct(views) /\ Len(views) \in Nat /\ ViewLimit \in Nat
      /\ visit = [w \in Callers |-> visit[w]] /\ \A w \in Callers : PageShaped(visit[w])
  <2>1. views \in Seq(Products) /\ UNCHANGED views
    BY DEF PagesInv, Pages!FindExcess
  <2> QED BY <2>1, ProfileAssumption DEF PagesInv
<1>2. visit' = [visit EXCEPT ![v] = t]
  BY <1>1 DEF Pages!FindExcess, Pages!FirstExcess
<1>3. In(views) \ excess \subseteq first
  BY <1>1 DEF In
<1>4. IsFiniteSet(first) /\ Cardinality(first) <= ViewLimit
  <2> DEFINE J == {j \in 1..Len(views) : j <= ViewLimit}
  <2>1. J \subseteq 1..ViewLimit /\ IsFiniteSet(1..ViewLimit) /\ Cardinality(1..ViewLimit) = ViewLimit
    <3>1. J \subseteq 1..ViewLimit
      BY <1>1
    <3> HIDE DEF J
    <3>2. 1 \in Int /\ ViewLimit \in Int /\ (IF 1 > ViewLimit THEN 0 ELSE ViewLimit - 1 + 1) = ViewLimit
      BY <1>1
    <3> QED BY <3>1, <3>2, FS_Interval
  <2>2. IsFiniteSet(J) /\ Cardinality(J) <= ViewLimit
    BY ZenonT(30), <2>1, FS_Subset
  <2>3. [j \in J |-> views[j]] \in Surjection(J, first)
    BY DEF Surjection
  <2> HIDE DEF J, first
  <2>4. IsFiniteSet(first) /\ Cardinality(first) <= Cardinality(J)
    BY <2>2, <2>3, FS_Surjection
  <2> QED BY <1>1, <2>2, <2>4, FS_CardinalityType
<1> HIDE DEF first, excess
<1>5. Cardinality(In(views) \ excess) <= ViewLimit
  BY <1>1, <1>3, <1>4, FS_Subset, FS_CardinalityType
<1>6. PageShaped(t) /\ t.pc = "trim_delete" /\ t.excess = excess
  BY <1>1 DEF PageShaped
<1> HIDE DEF t
<1>7. /\ visit' = [w \in Callers |-> visit'[w]] /\ visit'[v] = t
      /\ \A w \in Callers : PageShaped(visit[w])'
  BY <1>1, <1>2, <1>6 DEF PageShaped
<1>8. Bounds(v)'
  BY <1>1, <1>5, <1>6, <1>7 DEF Bounds, In
<1> QED BY <1>1, <1>7, <1>8 DEF PagesInv, Distinct

\* The visit that would get the list within its limit does so, or still will.
LEMMA PageTrims ==
  ASSUME NEW v \in Callers, PagesInv, Pages!TrimViews(v) PROVE PagesInv'
<1> DEFINE excess == visit[v].excess
<1>1. /\ views \in Seq(Products) /\ Distinct(views) /\ Len(views) \in Nat /\ ViewLimit \in Nat
      /\ visit = [w \in Callers |-> visit[w]] /\ \A w \in Callers : PageShaped(visit[w])
      /\ visit[v].pc = "trim_delete"
  BY ProfileAssumption DEF PagesInv, Pages!TrimViews
<1>2. views' \in Seq(Products) /\ Distinct(views') /\ In(views') = In(views) \ excess
  BY <1>1, KeptOnes DEF Pages!TrimViews
<1>3. /\ IsFiniteSet(In(views)) /\ Cardinality(In(views)) = Len(views)
      /\ IsFiniteSet(In(views')) /\ Cardinality(In(views')) = Len(views')
  BY <1>1, <1>2, LengthOfDistinct
<1>4. /\ visit' = [visit EXCEPT ![v] = Pages!NoVisit]
      /\ visit' = [w \in Callers |-> visit'[w]]
  BY <1>1 DEF Pages!TrimViews, Pages!Leave
<1>5. \A w \in Callers : PageShaped(visit[w])'
  BY <1>1, <1>4 DEF PageShaped, Pages!NoVisit
<1>6. Len(views') <= ViewLimit \/ \E w \in Callers : Bounds(w)'
  <2>1. CASE Len(views) <= ViewLimit \/ Cardinality(In(views) \ excess) <= ViewLimit
    <3>1. Cardinality(In(views')) <= Cardinality(In(views))
      BY <1>2, <1>3, FS_Subset
    <3>2. Len(views') \in Nat
      BY <1>2
    <3> QED BY <1>1, <1>2, <1>3, <2>1, <3>1, <3>2
  <2>2. ASSUME NEW w \in Callers, Bounds(w), w # v PROVE Bounds(w)'
    <3>1. visit'[w] = visit[w]
      BY <1>4, <2>2
    <3>2. CASE visit[w].pc = "trim_views"
      BY <3>1, <3>2 DEF Bounds
    <3>3. CASE visit[w].pc = "trim_delete" /\ Cardinality(In(views) \ visit[w].excess) <= ViewLimit
      <4> DEFINE left == In(views) \ visit[w].excess
                 less == In(views') \ visit[w].excess
      <4>1. IsFiniteSet(left) /\ less \subseteq left
        BY <1>2, <1>3, FS_Subset
      <4>2. Cardinality(less) <= Cardinality(left) /\ Cardinality(less) \in Nat /\ Cardinality(left) \in Nat
        BY <4>1, FS_Subset, FS_CardinalityType
      <4>3. Cardinality(less) <= ViewLimit
        BY <1>1, <3>3, <4>2
      <4> QED BY <3>1, <3>3, <4>3 DEF Bounds, In
    <3> QED BY <2>2, <3>2, <3>3 DEF Bounds
  <2> QED BY <1>1, <2>1, <2>2 DEF PagesInv, Bounds
<1> QED BY <1>2, <1>4, <1>5, <1>6 DEF PagesInv, Distinct

LEMMA PagesStay == ASSUME PagesInv, Pages!ProfileNext PROVE PagesInv'
<1>1. PICK v \in Callers :
        \/ Pages!GetProfile(v) \/ Pages!UpdateBasicProfile(v) \/ Pages!CheckCompletion(v)
        \/ Pages!SaveCompletion(v) \/ Pages!AddAddress(v) \/ Pages!CreateAddress(v)
        \/ Pages!UpdateAddress(v) \/ Pages!UpdateAddressSave(v) \/ Pages!DeleteAddress(v)
        \/ Pages!AddPet(v) \/ Pages!UpdatePet(v) \/ Pages!DeletePet(v) \/ Pages!AddPaymentMethod(v)
        \/ Pages!CreateMethod(v) \/ Pages!DeletePaymentMethod(v) \/ Pages!PromoteMethod(v)
        \/ Pages!SetDefaultMethod(v) \/ Pages!SetDefaultSave(v) \/ Pages!AddRecentlyViewed(v)
        \/ Pages!FindExcess(v) \/ Pages!TrimViews(v)
  BY DEF Pages!ProfileNext
<1>2. visit[v].pc \in {"idle", "trim_views", "trim_delete"}
  BY DEF PagesInv, PageShaped
<1>3. ~(\/ Pages!GetProfile(v) \/ Pages!UpdateBasicProfile(v) \/ Pages!AddAddress(v)
        \/ Pages!UpdateAddress(v) \/ Pages!DeleteAddress(v) \/ Pages!AddPet(v) \/ Pages!UpdatePet(v)
        \/ Pages!DeletePet(v) \/ Pages!AddPaymentMethod(v) \/ Pages!DeletePaymentMethod(v)
        \/ Pages!SetDefaultMethod(v))
  BY DEF Pages!GetProfile, Pages!UpdateBasicProfile, Pages!AddAddress, Pages!UpdateAddress,
         Pages!DeleteAddress, Pages!AddPet, Pages!UpdatePet, Pages!DeletePet, Pages!AddPaymentMethod,
         Pages!DeletePaymentMethod, Pages!SetDefaultMethod
<1>4. ~(\/ Pages!CheckCompletion(v) \/ Pages!SaveCompletion(v) \/ Pages!CreateAddress(v)
        \/ Pages!UpdateAddressSave(v) \/ Pages!CreateMethod(v) \/ Pages!PromoteMethod(v)
        \/ Pages!SetDefaultSave(v))
  BY <1>2 DEF Pages!CheckCompletion, Pages!SaveCompletion, Pages!CreateAddress, Pages!UpdateAddressSave,
              Pages!CreateMethod, Pages!PromoteMethod, Pages!SetDefaultSave
<1> QED BY <1>1, <1>3, <1>4, PageOpens, PageFinds, PageTrims

-----------------------------------------------------------------------------
(* The profile, one request at a time.  What a request owes while it is       *)
(* under way: a default, or the flag of the completion.                       *)

Kinds == {"none", "plain", "default"}
VisitShaped(x) == x \in [pc: VisitPC, id: {x.id}, flag: {x.flag}, excess: {x.excess}]

CompletionFits(v) ==
  /\ visit[v].pc \notin {"completion", "completion_save"} => complete = IsComplete
  /\ visit[v].pc = "completion_save" => visit[v].flag = IsComplete

AddressesFit(v) ==
  /\ addresses \in [AddressIds -> Kinds]
  /\ \A a, b \in Defaults(addresses) : a = b
  /\ visit[v].pc \in {"create_address", "update_address"} =>
       visit[v].id \in AddressIds /\ (visit[v].flag => Defaults(addresses) = {})
  /\ visit[v].pc = "update_address" => addresses[visit[v].id] # "none"

HasDefault == Saved(methods) = {} \/ \E m \in MethodIds : Defaults(methods) = {m}

MethodsFit(v) ==
  /\ methods \in [MethodIds -> Kinds]
  /\ IsFiniteSet(used) /\ Saved(methods) \subseteq used
  /\ visit[v].pc \notin {"create_method", "promote", "set_default"} => HasDefault
  /\ visit[v].pc \in {"promote", "set_default"} => Defaults(methods) = {}
  /\ visit[v].pc = "create_method" =>
       /\ visit[v].id \in MethodIds /\ visit[v].id \in used /\ methods[visit[v].id] = "none"
       /\ IF visit[v].flag THEN Defaults(methods) = {} ELSE HasDefault /\ Saved(methods) # {}
  /\ visit[v].pc = "set_default" => visit[v].id \in MethodIds /\ methods[visit[v].id] # "none"

VisitFits(v) == visit = [x \in {v} |-> visit[x]] /\ VisitShaped(visit[v])

ProfileInv(v) == VisitFits(v) /\ CompletionFits(v) /\ AddressesFit(v) /\ MethodsFit(v)

\* What the request is doing next.
Turns(v, pc, id, flag) ==
  visit'[v].pc = pc /\ visit'[v].id = id /\ visit'[v].flag = flag

LEMMA VisitBegins ==
  ASSUME NEW v, VisitFits(v), NEW pc \in VisitPC, NEW id, NEW flag, Begin(v, pc, id, flag)
  PROVE  VisitFits(v)' /\ Turns(v, pc, id, flag) /\ visit[v].pc = "idle"
<1> DEFINE t == [pc |-> pc, id |-> id, flag |-> flag, excess |-> {}]
<1>1. visit' = [visit EXCEPT ![v] = t] /\ visit[v].pc = "idle"
  BY DEF Begin
<1>2. VisitShaped(t)
  BY DEF VisitShaped
<1> HIDE DEF t
<1>3. visit' = [x \in {v} |-> visit'[x]] /\ visit'[v] = t
  BY <1>1 DEF VisitFits
<1>4. VisitShaped(visit[v])'
  BY <1>2, <1>3 DEF VisitShaped, VisitPC
<1> QED BY <1>1, <1>3, <1>4 DEF VisitFits, Turns, t

LEMMA VisitGoes ==
  ASSUME NEW v, VisitFits(v), NEW pc \in VisitPC, Go(v, pc)
  PROVE  VisitFits(v)' /\ Turns(v, pc, visit[v].id, visit[v].flag)
<1> DEFINE t == [visit[v] EXCEPT !.pc = pc]
<1>1. visit' = [visit EXCEPT ![v] = t]
  BY DEF Go, VisitFits
<1>2. VisitShaped(t) /\ t.pc = pc /\ t.id = visit[v].id /\ t.flag = visit[v].flag
  BY DEF VisitShaped, VisitFits
<1> HIDE DEF t
<1>3. visit' = [x \in {v} |-> visit'[x]] /\ visit'[v] = t
  BY <1>1 DEF VisitFits
<1>4. VisitShaped(visit[v])'
  BY <1>2, <1>3 DEF VisitShaped, VisitPC
<1> QED BY <1>2, <1>3, <1>4 DEF VisitFits, Turns

LEMMA VisitLeaves ==
  ASSUME NEW v, VisitFits(v), Leave(v) PROVE VisitFits(v)' /\ Turns(v, "idle", 0, FALSE)
<1>1. visit' = [x \in {v} |-> visit'[x]] /\ visit'[v] = NoVisit
  BY DEF Leave, VisitFits
<1>2. VisitShaped(visit[v])'
  BY <1>1 DEF VisitShaped, VisitPC, NoVisit
<1> QED BY <1>1, <1>2 DEF VisitFits, Turns, NoVisit

-----------------------------------------------------------------------------
(* What a step leaves alone *)

LEMMA CompletionStays ==
  ASSUME NEW v, CompletionFits(v), UNCHANGED <<basic, complete, pets>>,
         Saved(addresses') = Saved(addresses),
         visit[v].pc \notin {"completion", "completion_save"},
         visit'[v].pc # "completion_save"
  PROVE  CompletionFits(v)'
<1>1. IsComplete' = IsComplete
  BY DEF IsComplete, Saved
<1> QED BY <1>1 DEF CompletionFits

LEMMA CompletionComes == ASSUME NEW v, visit'[v].pc = "completion" PROVE CompletionFits(v)'
BY DEF CompletionFits

LEMMA AddressesStay ==
  ASSUME NEW v, AddressesFit(v), UNCHANGED addresses, visit'[v].pc \notin {"create_address", "update_address"}
  PROVE  AddressesFit(v)'
BY DEF AddressesFit, Defaults, Kinds

LEMMA MethodsStay ==
  ASSUME NEW v, MethodsFit(v), UNCHANGED methods, used \subseteq used', IsFiniteSet(used'),
         visit[v].pc \notin {"create_method", "promote", "set_default"},
         visit'[v].pc \notin {"create_method", "promote", "set_default"}
  PROVE  MethodsFit(v)'
BY DEF MethodsFit, Saved, Defaults, HasDefault, Kinds

\* No default any more, in addresses or in methods.
LEMMA DefaultsGo ==
  ASSUME NEW S, NEW rows \in [S -> Kinds]
  PROVE  /\ NoDefault(rows) \in [S -> Kinds]
         /\ Saved(NoDefault(rows)) = Saved(rows) /\ Defaults(NoDefault(rows)) = {}
         /\ \A i \in S : rows[i] = "none" <=> NoDefault(rows)[i] = "none"
<1>1. NoDefault(rows) = [i \in S |-> IF rows[i] = "default" THEN "plain" ELSE rows[i]]
  BY DEF NoDefault
<1> QED BY <1>1 DEF Saved, Defaults, Kinds

LEMMA UsedGrows ==
  ASSUME NEW id, IsFiniteSet(used) PROVE IsFiniteSet(used \cup {id})
BY FS_AddElement

-----------------------------------------------------------------------------
(* The steps *)

LEMMA ProfileTurns ==
  ASSUME NEW v, ProfileInv(v),
         \/ GetProfile(v) \/ UpdateBasicProfile(v) \/ AddPet(v) \/ UpdatePet(v) \/ DeletePet(v)
  PROVE  ProfileInv(v)'
<1>1. Begin(v, "completion", 0, FALSE) /\ UNCHANGED <<addresses, methods>>
  BY DEF GetProfile, UpdateBasicProfile, AddPet, UpdatePet, DeletePet, AfterDeletePet
<1>2. used \subseteq used' /\ IsFiniteSet(used')
  <2>1. used' = used \/ \E p \in PetIds : used' = used \cup {p}
    BY DEF GetProfile, UpdateBasicProfile, AddPet, UpdatePet, DeletePet
  <2>2. IsFiniteSet(used)
    BY DEF ProfileInv, MethodsFit
  <2> QED BY <2>1, <2>2, UsedGrows
<1>3. VisitFits(v)' /\ Turns(v, "completion", 0, FALSE) /\ visit[v].pc = "idle"
  BY <1>1, VisitBegins DEF ProfileInv, VisitPC
<1> QED BY <1>1, <1>2, <1>3, CompletionComes, AddressesStay, MethodsStay DEF ProfileInv, Turns

LEMMA CompletionTurns ==
  ASSUME NEW v, ProfileInv(v), CheckCompletion(v) \/ SaveCompletion(v) PROVE ProfileInv(v)'
<1>1. UNCHANGED <<basic, pets, addresses, methods, used>>
  BY DEF CheckCompletion, SaveCompletion
<1>2. IsComplete' = IsComplete
  BY <1>1 DEF IsComplete, Saved
<1>3. used \subseteq used' /\ IsFiniteSet(used')
  BY <1>1 DEF ProfileInv, MethodsFit
<1>4. ASSUME VisitFits(v)', visit[v].pc \in {"completion", "completion_save"},
             visit'[v].pc \in {"idle", "completion_save"}, CompletionFits(v)'
      PROVE  ProfileInv(v)'
  BY <1>1, <1>3, <1>4, AddressesStay, MethodsStay DEF ProfileInv
<1>5. CASE SaveCompletion(v)
  <2>1. VisitFits(v)' /\ Turns(v, "idle", 0, FALSE) /\ complete' = visit[v].flag /\ visit[v].pc = "completion_save"
    BY <1>5, VisitLeaves DEF SaveCompletion, ProfileInv
  <2>2. CompletionFits(v)'
    BY <1>2, <2>1 DEF CompletionFits, ProfileInv, Turns
  <2> QED BY <1>4, <2>1, <2>2 DEF Turns
<1>6. CASE CheckCompletion(v) /\ complete # IsComplete
  <2> DEFINE t == [NoVisit EXCEPT !.pc = "completion_save", !.flag = IsComplete]
  <2>1. visit' = [visit EXCEPT ![v] = t] /\ visit[v].pc = "completion"
    BY <1>6 DEF CheckCompletion
  <2>2. VisitShaped(t) /\ t.pc = "completion_save" /\ t.flag = IsComplete
    BY DEF VisitShaped, NoVisit, VisitPC
  <2> HIDE DEF t
  <2>3. visit' = [x \in {v} |-> visit'[x]] /\ visit'[v] = t
    BY <2>1 DEF ProfileInv, VisitFits
  <2>4. VisitFits(v)'
    BY <2>2, <2>3 DEF VisitFits, VisitShaped, VisitPC
  <2>5. CompletionFits(v)'
    BY <1>2, <2>2, <2>3 DEF CompletionFits
  <2> QED BY <1>4, <2>1, <2>2, <2>3, <2>4, <2>5
<1>7. CASE CheckCompletion(v) /\ complete = IsComplete
  <2>1. Leave(v) /\ UNCHANGED complete /\ visit[v].pc = "completion"
    BY <1>7 DEF CheckCompletion, Leave
  <2>2. VisitFits(v)' /\ Turns(v, "idle", 0, FALSE)
    BY <2>1, VisitLeaves DEF ProfileInv
  <2>3. CompletionFits(v)'
    BY <1>2, <1>7, <2>1, <2>2 DEF CompletionFits, Turns
  <2> QED BY <1>4, <2>1, <2>2, <2>3 DEF Turns
<1> QED BY <1>5, <1>6, <1>7

LEMMA AddressTurns ==
  ASSUME NEW v, ProfileInv(v),
         \/ AddAddress(v) \/ CreateAddress(v) \/ UpdateAddress(v) \/ UpdateAddressSave(v) \/ DeleteAddress(v)
  PROVE  ProfileInv(v)'
<1> DEFINE x == visit[v]
<1>1. UNCHANGED <<basic, pets, complete, methods>> /\ used \subseteq used' /\ IsFiniteSet(used')
  <2>1. UNCHANGED <<basic, pets, complete, methods>>
    BY DEF AddAddress, CreateAddress, UpdateAddress, UpdateAddressSave, DeleteAddress
  <2>2. used' = used \/ \E a \in AddressIds : used' = used \cup {a}
    BY DEF AddAddress, CreateAddress, UpdateAddress, UpdateAddressSave, DeleteAddress
  <2>3. IsFiniteSet(used)
    BY DEF ProfileInv, MethodsFit
  <2> QED BY <2>1, <2>2, <2>3, UsedGrows
<1>2. /\ addresses \in [AddressIds -> Kinds] /\ VisitFits(v) /\ AddressesFit(v) /\ CompletionFits(v)
      /\ MethodsFit(v) /\ Saved(addresses) \subseteq AddressIds
  BY DEF ProfileInv, AddressesFit, Saved
<1>3. ASSUME VisitFits(v)', CompletionFits(v)', AddressesFit(v)',
             visit[v].pc \in {"idle", "create_address", "update_address"},
             visit'[v].pc \in {"idle", "create_address", "update_address", "completion"}
      PROVE  ProfileInv(v)'
  BY <1>1, <1>2, <1>3, MethodsStay DEF ProfileInv
<1>4. ASSUME NEW a \in AddressIds, NEW isDefault \in BOOLEAN, NEW pc \in {"create_address", "update_address"},
             addresses' = IF isDefault THEN NoDefault(addresses) ELSE addresses,
             Begin(v, pc, a, isDefault), pc = "update_address" => a \in Saved(addresses)
      PROVE  ProfileInv(v)'
  <2>1. VisitFits(v)' /\ Turns(v, pc, a, isDefault) /\ x.pc = "idle"
    BY <1>2, <1>4, VisitBegins DEF VisitPC
  <2>2. /\ addresses' \in [AddressIds -> Kinds] /\ Saved(addresses') = Saved(addresses)
        /\ isDefault => Defaults(addresses') = {}
        /\ ~isDefault => addresses' = addresses
        /\ \A i \in AddressIds : addresses[i] = "none" <=> addresses'[i] = "none"
    BY <1>2, <1>4, DefaultsGo
  <2>3. AddressesFit(v)'
    <3>1. (addresses \in [AddressIds -> Kinds])'
      BY <2>2 DEF Kinds
    <3>2. \A i, j \in Defaults(addresses)' : i = j
      BY <1>2, <2>2 DEF AddressesFit, Defaults
    <3>3. isDefault => Defaults(addresses)' = {}
      BY <2>2 DEF Defaults
    <3>4. pc = "update_address" => addresses'[a] # "none"
      BY <1>2, <1>4, <2>2 DEF Saved
    <3> QED BY <1>4, <2>1, <3>1, <3>2, <3>3, <3>4 DEF AddressesFit, Turns
  <2>4. CompletionFits(v)'
    BY <1>1, <1>2, <1>4, <2>1, <2>2, CompletionStays DEF Turns
  <2> QED BY <1>3, <1>4, <2>1, <2>3, <2>4 DEF Turns
<1>5. ASSUME x.pc \in {"create_address", "update_address"}, Go(v, "completion"),
             addresses' = [addresses EXCEPT ![x.id] = IF x.flag THEN "default" ELSE "plain"]
      PROVE  ProfileInv(v)'
  <2>1. VisitFits(v)' /\ Turns(v, "completion", x.id, x.flag)
    BY <1>2, <1>5, VisitGoes DEF VisitPC
  <2>2. x.id \in AddressIds /\ (x.flag => Defaults(addresses) = {})
    BY <1>2, <1>5 DEF AddressesFit
  <2>3. AddressesFit(v)'
    <3>1. (addresses \in [AddressIds -> Kinds])'
      BY <1>2, <1>5 DEF Kinds
    <3>2. \A i \in Defaults(addresses)' : i \in Defaults(addresses) \/ (i = x.id /\ x.flag)
      BY <1>2, <1>5, <2>2 DEF Defaults
    <3>3. \A i, j \in Defaults(addresses)' : i = j
      BY <1>2, <2>2, <3>2 DEF AddressesFit
    <3> QED BY <2>1, <3>1, <3>3 DEF AddressesFit, Turns
  <2> QED BY <1>3, <1>5, <2>1, <2>3, CompletionComes DEF Turns
<1>6. CASE AddAddress(v)
  BY <1>4, <1>6 DEF AddAddress
<1>7. CASE UpdateAddress(v)
  BY <1>2, <1>4, <1>7 DEF UpdateAddress
<1>8. CASE CreateAddress(v)
  BY <1>5, <1>8 DEF CreateAddress
<1>9. CASE UpdateAddressSave(v)
  BY <1>2, <1>5, <1>9 DEF UpdateAddressSave, AddressesFit
<1>10. CASE DeleteAddress(v)
  <2>1. PICK a \in Saved(addresses) : addresses' = [addresses EXCEPT ![a] = "none"]
    BY <1>10 DEF DeleteAddress
  <2>2. VisitFits(v)' /\ Turns(v, "completion", 0, FALSE) /\ x.pc = "idle"
    BY <1>2, <1>10, VisitBegins DEF DeleteAddress, VisitPC
  <2>3. AddressesFit(v)'
    <3>1. (addresses \in [AddressIds -> Kinds])'
      BY <1>2, <2>1 DEF Kinds
    <3>2. Defaults(addresses)' \subseteq Defaults(addresses)
      BY <1>2, <2>1 DEF Defaults
    <3> QED BY <1>2, <2>2, <3>1, <3>2 DEF AddressesFit, Turns
  <2> QED BY <1>3, <2>2, <2>3, CompletionComes DEF Turns
<1> QED BY <1>6, <1>7, <1>8, <1>9, <1>10

LEMMA ViewTurns ==
  ASSUME NEW v, ProfileInv(v), AddRecentlyViewed(v) \/ FindExcess(v) \/ TrimViews(v)
  PROVE  ProfileInv(v)'
<1>1. /\ UNCHANGED <<basic, addresses, pets, complete, methods, used>>
      /\ used \subseteq used' /\ IsFiniteSet(used') /\ VisitFits(v)
  BY DEF AddRecentlyViewed, FindExcess, TrimViews, ProfileInv, MethodsFit
<1>2. ASSUME VisitFits(v)', visit[v].pc \in {"idle", "trim_views", "trim_delete"},
             visit'[v].pc \in {"idle", "trim_views", "trim_delete"}
      PROVE  ProfileInv(v)'
  BY <1>1, <1>2, CompletionStays, AddressesStay, MethodsStay DEF ProfileInv
<1>3. CASE AddRecentlyViewed(v)
  <2>1. VisitFits(v)' /\ Turns(v, "trim_views", 0, FALSE) /\ visit[v].pc = "idle"
    BY <1>1, <1>3, VisitBegins DEF AddRecentlyViewed, VisitPC
  <2> QED BY <1>2, <2>1 DEF Turns
<1>4. CASE TrimViews(v)
  <2>1. VisitFits(v)' /\ Turns(v, "idle", 0, FALSE) /\ visit[v].pc = "trim_delete"
    BY <1>1, <1>4, VisitLeaves DEF TrimViews
  <2> QED BY <1>2, <2>1 DEF Turns
<1>5. CASE FindExcess(v)
  <2> DEFINE t == [visit[v] EXCEPT !.pc = "trim_delete", !.excess = {views[i] : i \in FirstExcess..Len(views)}]
  <2>1. visit' = [visit EXCEPT ![v] = t] /\ visit[v].pc = "trim_views"
    BY <1>1, <1>5 DEF FindExcess, VisitFits
  <2>2. VisitShaped(t) /\ t.pc = "trim_delete"
    BY <1>1 DEF VisitShaped, VisitFits, VisitPC
  <2> HIDE DEF t
  <2>3. visit' = [x \in {v} |-> visit'[x]] /\ visit'[v] = t
    BY <1>1, <2>1 DEF VisitFits
  <2>4. VisitFits(v)'
    BY <2>2, <2>3 DEF VisitFits, VisitShaped, VisitPC
  <2> QED BY <1>2, <2>1, <2>2, <2>3, <2>4
<1> QED BY <1>3, <1>4, <1>5

\* Some members of a finite set of numbers is the greatest.
LEMMA GreatestOfNumbers ==
  ASSUME NEW S, IsFiniteSet(S), S \subseteq Nat, S # {}
  PROVE  \E g \in S : \A n \in S : n <= g
<1> DEFINE From(n) == {k \in S : n <= k}
           B == {From(n) : n \in S}
<1>1. IsWellFoundedOn(StrictSubsetOrdering(S), SUBSET S)
  BY FS_StrictSubsetOrderingWellFounded, FS_FiniteSubsetsOfFinite
<1>2. B # {} /\ B \subseteq SUBSET S
  OBVIOUS
<1> HIDE DEF B
<1>3. PICK T \in B : \A U \in B : ~(<<U, T>> \in StrictSubsetOrdering(S))
  BY <1>1, <1>2, WFMin
<1>4. PICK g \in S : T = From(g)
  BY DEF B
<1>5. ASSUME NEW n \in S, ~(n <= g) PROVE FALSE
  <2>1. n \in Nat /\ g \in Nat /\ \A k \in S : k \in Nat
    OBVIOUS
  <2>2. From(n) \subseteq From(g)
    <3> SUFFICES ASSUME NEW k \in S, n <= k PROVE g <= k
      OBVIOUS
    <3>1. k \in Nat
      BY <2>1
    <3> QED BY <1>5, <2>1, <3>1
  <2>3. g \in From(g) /\ g \notin From(n)
    BY <1>5, <2>1
  <2>4. <<From(n), T>> \in StrictSubsetOrdering(S)
    BY <1>4, <2>2, <2>3 DEF StrictSubsetOrdering
  <2>5. From(n) \in B
    BY DEF B
  <2> QED BY <1>3, <2>4, <2>5
<1> QED BY <1>5

\* A request about the saved methods leaves the rest of the profile alone.
LEMMA OnlyMethods ==
  ASSUME NEW v, ProfileInv(v), UNCHANGED <<basic, addresses, pets, complete>>,
         VisitFits(v)', MethodsFit(v)',
         visit[v].pc \in {"idle", "create_method", "promote", "set_default"},
         visit'[v].pc \in {"idle", "create_method", "promote", "set_default"}
  PROVE  ProfileInv(v)'
<1>1. Saved(addresses') = Saved(addresses)
  OBVIOUS
<1> QED BY <1>1, CompletionStays, AddressesStay DEF ProfileInv

LEMMA AddMethodTurns ==
  ASSUME NEW v, ProfileInv(v), AddPaymentMethod(v) PROVE ProfileInv(v)'
<1>1. VisitFits(v) /\ MethodsFit(v)
  BY DEF ProfileInv
<1>2. PICK m \in MethodIds \ used, asked \in BOOLEAN :
        /\ used' = used \cup {m}
        /\ methods' = IF asked \/ Saved(methods) = {} THEN NoDefault(methods) ELSE methods
        /\ Begin(v, "create_method", m, asked \/ Saved(methods) = {})
  BY DEF AddPaymentMethod
<1> DEFINE isDefault == asked \/ Saved(methods) = {}
<1> HIDE DEF isDefault
<1>3. VisitFits(v)' /\ Turns(v, "create_method", m, isDefault) /\ visit[v].pc = "idle"
  BY <1>1, <1>2, VisitBegins DEF VisitPC, isDefault
<1>4. /\ methods \in [MethodIds -> Kinds] /\ Saved(methods) \subseteq used /\ HasDefault
      /\ methods[m] = "none"
  BY <1>1, <1>3 DEF MethodsFit, Saved
<1>5. /\ methods' \in [MethodIds -> Kinds] /\ Saved(methods') = Saved(methods)
      /\ isDefault => Defaults(methods') = {}
      /\ ~isDefault => methods' = methods /\ Saved(methods) # {}
      /\ methods'[m] = "none"
  BY <1>2, <1>4, DefaultsGo DEF isDefault
<1>6. IsFiniteSet(used')
  BY <1>1, <1>2, UsedGrows DEF MethodsFit
<1>7. ~isDefault => HasDefault'
  BY <1>4, <1>5 DEF HasDefault, Saved, Defaults
<1>8. MethodsFit(v)'
  <2>1. (methods \in [MethodIds -> Kinds])'
    BY <1>5 DEF Kinds
  <2>2. (Saved(methods) \subseteq used)'
    BY <1>2, <1>4, <1>5 DEF Saved
  <2>3. isDefault => Defaults(methods)' = {}
    BY <1>5 DEF Defaults
  <2>4. ~isDefault => Saved(methods)' # {}
    BY <1>5 DEF Saved
  <2> QED BY <1>2, <1>3, <1>5, <1>6, <1>7, <2>1, <2>2, <2>3, <2>4 DEF MethodsFit, Turns
<1> QED BY <1>3, <1>8, OnlyMethods DEF Turns, AddPaymentMethod

LEMMA CreateMethodTurns ==
  ASSUME NEW v, ProfileInv(v), CreateMethod(v) PROVE ProfileInv(v)'
<1> DEFINE m == visit[v].id
<1>1. VisitFits(v) /\ MethodsFit(v) /\ visit[v].pc = "create_method"
  BY DEF ProfileInv, CreateMethod
<1>2. VisitFits(v)' /\ Turns(v, "idle", 0, FALSE)
  BY <1>1, VisitLeaves DEF CreateMethod
<1>3. /\ methods \in [MethodIds -> Kinds] /\ IsFiniteSet(used) /\ Saved(methods) \subseteq used
      /\ m \in MethodIds /\ m \in used /\ methods[m] = "none"
      /\ IF visit[v].flag THEN Defaults(methods) = {} ELSE HasDefault /\ Saved(methods) # {}
  BY <1>1 DEF MethodsFit
<1>4. methods' = [methods EXCEPT ![m] = IF visit[v].flag THEN "default" ELSE "plain"] /\ used' = used
  BY DEF CreateMethod
<1>5. (methods \in [MethodIds -> Kinds])' /\ (Saved(methods) \subseteq used)'
  BY <1>3, <1>4 DEF Saved, Kinds
<1>6. HasDefault'
  <2>1. CASE visit[v].flag
    <3>1. Defaults(methods)' = {m}
      BY <1>3, <1>4, <2>1 DEF Defaults
    <3> QED BY <1>3, <3>1 DEF HasDefault
  <2>2. CASE ~visit[v].flag
    <3>1. Defaults(methods)' = Defaults(methods)
      BY <1>3, <1>4, <2>2 DEF Defaults
    <3> QED BY <1>3, <2>2, <3>1 DEF HasDefault
  <2> QED BY <2>1, <2>2
<1>7. MethodsFit(v)'
  BY <1>2, <1>3, <1>4, <1>5, <1>6 DEF MethodsFit, Turns
<1> QED BY <1>1, <1>2, <1>7, OnlyMethods DEF CreateMethod, Turns

LEMMA DeleteMethodTurns ==
  ASSUME NEW v, ProfileInv(v), DeletePaymentMethod(v) PROVE ProfileInv(v)'
<1>1. VisitFits(v) /\ MethodsFit(v)
  BY DEF ProfileInv
<1>2. PICK m \in Saved(methods) :
        /\ methods' = [methods EXCEPT ![m] = "none"]
        /\ Begin(v, IF Promotes(m) THEN "promote" ELSE "idle", 0, FALSE)
  BY DEF DeletePaymentMethod
<1> DEFINE pc == IF methods[m] = "default" THEN "promote" ELSE "idle"
<1>3. pc \in {"promote", "idle"} /\ pc \in VisitPC /\ Begin(v, pc, 0, FALSE)
      /\ (pc = "promote" <=> methods[m] = "default")
  BY <1>2 DEF Promotes, VisitPC
<1> HIDE DEF pc
<1>4. VisitFits(v)' /\ Turns(v, pc, 0, FALSE) /\ visit[v].pc = "idle"
  BY <1>1, <1>3, VisitBegins
<1>5. /\ methods \in [MethodIds -> Kinds] /\ Saved(methods) \subseteq used /\ IsFiniteSet(used)
      /\ m \in MethodIds /\ used' = used
  BY <1>1, <1>2 DEF MethodsFit, Saved, DeletePaymentMethod
<1>6. PICK d \in MethodIds : Defaults(methods) = {d}
  BY <1>1, <1>2, <1>4 DEF MethodsFit, HasDefault
<1>7. (methods \in [MethodIds -> Kinds])' /\ (Saved(methods) \subseteq used)'
  BY <1>2, <1>5 DEF Saved, Kinds
<1>8. Defaults(methods)' = Defaults(methods) \ {m}
  BY <1>2, <1>5 DEF Defaults
<1>9. m \in Defaults(methods) <=> pc = "promote"
  BY <1>3, <1>5 DEF Defaults
<1>10. pc = "promote" => Defaults(methods)' = {}
  BY <1>6, <1>8, <1>9
<1>11. pc = "idle" => HasDefault'
  BY <1>6, <1>8, <1>9 DEF HasDefault
<1>12. MethodsFit(v)'
  BY <1>3, <1>4, <1>5, <1>7, <1>10, <1>11 DEF MethodsFit, Turns
<1> QED BY <1>3, <1>4, <1>12, OnlyMethods DEF DeletePaymentMethod, Turns

LEMMA PromoteTurns ==
  ASSUME NEW v, ProfileInv(v), PromoteMethod(v) PROVE ProfileInv(v)'
<1>1. VisitFits(v) /\ MethodsFit(v) /\ visit[v].pc = "promote"
  BY DEF ProfileInv, PromoteMethod
<1>2. VisitFits(v)' /\ Turns(v, "idle", 0, FALSE)
  BY <1>1, VisitLeaves DEF PromoteMethod
<1>3. /\ methods \in [MethodIds -> Kinds] /\ IsFiniteSet(used) /\ Saved(methods) \subseteq used
      /\ Defaults(methods) = {} /\ Saved(methods) \subseteq MethodIds
  BY <1>1 DEF MethodsFit, Saved
<1>4. /\ used' = used
      /\ methods' = [m \in MethodIds |-> IF m \in Saved(methods) /\ \A n \in Saved(methods) : n <= m
                                         THEN "default" ELSE methods[m]]
  BY DEF PromoteMethod
<1>5. (methods \in [MethodIds -> Kinds])' /\ Saved(methods)' = Saved(methods)
  BY <1>3, <1>4 DEF Saved, Kinds
<1>6. HasDefault'
  <2>1. CASE Saved(methods) = {}
    BY <1>5, <2>1 DEF HasDefault
  <2>2. CASE Saved(methods) # {}
    <3>1. IsFiniteSet(Saved(methods)) /\ Saved(methods) \subseteq Nat
      BY <1>3, FS_Subset, ProfileAssumption
    <3>2. PICK g \in Saved(methods) : \A n \in Saved(methods) : n <= g
      BY <2>2, <3>1, GreatestOfNumbers
    <3>3. \A m \in Saved(methods) : (\A n \in Saved(methods) : n <= m) => m = g
      BY <3>1, <3>2
    <3>4. \A m \in MethodIds : methods'[m] = "default" <=> m = g
      BY <1>3, <1>4, <3>2, <3>3 DEF Defaults
    <3>5. Defaults(methods)' = {g}
      BY <1>3, <1>4, <3>4 DEF Defaults
    <3> QED BY <1>3, <3>5 DEF HasDefault
  <2> QED BY <2>1, <2>2
<1>7. MethodsFit(v)'
  BY <1>2, <1>3, <1>4, <1>5, <1>6 DEF MethodsFit, Turns
<1> QED BY <1>1, <1>2, <1>7, OnlyMethods DEF PromoteMethod, Turns

LEMMA DefaultTurns ==
  ASSUME NEW v, ProfileInv(v), SetDefaultMethod(v) \/ SetDefaultSave(v) PROVE ProfileInv(v)'
<1>1. /\ VisitFits(v) /\ MethodsFit(v) /\ methods \in [MethodIds -> Kinds] /\ IsFiniteSet(used)
      /\ Saved(methods) \subseteq used /\ UNCHANGED <<basic, addresses, pets, complete, used>>
  BY DEF ProfileInv, MethodsFit, SetDefaultMethod, SetDefaultSave
<1>2. CASE SetDefaultMethod(v)
  <2>1. PICK m \in Saved(methods) : Begin(v, "set_default", m, FALSE)
    BY <1>2 DEF SetDefaultMethod
  <2>2. methods' = NoDefault(methods)
    BY <1>2 DEF SetDefaultMethod
  <2>3. VisitFits(v)' /\ Turns(v, "set_default", m, FALSE) /\ visit[v].pc = "idle"
    BY <1>1, <2>1, VisitBegins DEF VisitPC
  <2>4. m \in MethodIds /\ methods[m] # "none"
    BY <1>1 DEF Saved
  <2>5. /\ methods' \in [MethodIds -> Kinds] /\ Saved(methods') = Saved(methods)
        /\ Defaults(methods') = {} /\ methods'[m] # "none"
    BY <1>1, <2>2, <2>4, DefaultsGo
  <2>6. (methods \in [MethodIds -> Kinds])' /\ (Saved(methods) \subseteq used)' /\ Defaults(methods)' = {}
    BY <1>1, <2>5 DEF Saved, Defaults, Kinds
  <2>7. MethodsFit(v)'
    BY <1>1, <2>3, <2>4, <2>5, <2>6 DEF MethodsFit, Turns
  <2> QED BY <1>1, <2>3, <2>7, OnlyMethods DEF Turns
<1>3. CASE SetDefaultSave(v)
  <2> DEFINE m == visit[v].id
  <2>1. VisitFits(v)' /\ Turns(v, "idle", 0, FALSE) /\ visit[v].pc = "set_default"
    BY <1>1, <1>3, VisitLeaves DEF SetDefaultSave
  <2>2. Defaults(methods) = {} /\ m \in MethodIds /\ methods[m] # "none"
    BY <1>1, <2>1 DEF MethodsFit
  <2>3. methods' = [methods EXCEPT ![m] = "default"]
    BY <1>3, <2>2 DEF SetDefaultSave
  <2>4. (methods \in [MethodIds -> Kinds])' /\ (Saved(methods) \subseteq used)' /\ Defaults(methods)' = {m}
    BY <1>1, <2>2, <2>3 DEF Saved, Defaults, Kinds
  <2>5. HasDefault'
    BY <2>2, <2>4 DEF HasDefault
  <2>6. MethodsFit(v)'
    BY <1>1, <2>1, <2>4, <2>5 DEF MethodsFit, Turns
  <2> QED BY <1>1, <2>1, <2>6, OnlyMethods DEF Turns
<1> QED BY <1>2, <1>3

LEMMA ProfileSteps == ASSUME NEW v, Visits = {v}, ProfileInv(v), ProfileNext PROVE ProfileInv(v)'
<1>1. \/ GetProfile(v) \/ UpdateBasicProfile(v) \/ AddPet(v) \/ UpdatePet(v) \/ DeletePet(v)
      \/ CheckCompletion(v) \/ SaveCompletion(v)
      \/ AddAddress(v) \/ CreateAddress(v) \/ UpdateAddress(v) \/ UpdateAddressSave(v) \/ DeleteAddress(v)
      \/ AddPaymentMethod(v) \/ CreateMethod(v) \/ DeletePaymentMethod(v) \/ PromoteMethod(v)
      \/ SetDefaultMethod(v) \/ SetDefaultSave(v)
      \/ AddRecentlyViewed(v) \/ FindExcess(v) \/ TrimViews(v)
  BY DEF ProfileNext
<1> QED BY <1>1, ProfileTurns, CompletionTurns, AddressTurns, ViewTurns, AddMethodTurns,
           CreateMethodTurns, DeleteMethodTurns, PromoteTurns, DefaultTurns

LEMMA ProfileUndisturbed ==
  ASSUME UNCHANGED profileVars
  PROVE  (PagesInv => PagesInv') /\ \A v : ProfileInv(v) => ProfileInv(v)'
<1>1. UNCHANGED <<basic, addresses, pets, complete, methods, used, views, visit>>
  BY DEF profileVars
<1>2. PagesInv => PagesInv'
  <2>1. \A v : Bounds(v)' <=> Bounds(v)
    BY <1>1 DEF Bounds, In
  <2>2. \A v : PageShaped(visit[v])' <=> PageShaped(visit[v])
    BY <1>1 DEF PageShaped
  <2>3. Distinct(views)' <=> Distinct(views)
    BY <1>1 DEF Distinct
  <2> QED BY <1>1, <2>1, <2>2, <2>3 DEF PagesInv
<1>3. ASSUME NEW v, ProfileInv(v) PROVE ProfileInv(v)'
  <2>1. IsComplete' = IsComplete
    BY <1>1 DEF IsComplete, Saved
  <2>2. VisitFits(v)' /\ CompletionFits(v)'
    BY <1>1, <1>3, <2>1 DEF ProfileInv, VisitFits, VisitShaped, VisitPC, CompletionFits
  <2>3. AddressesFit(v)' /\ MethodsFit(v)'
    BY <1>1, <1>3 DEF ProfileInv, AddressesFit, MethodsFit, HasDefault, Saved, Defaults, Kinds
  <2> QED BY <2>2, <2>3 DEF ProfileInv
<1> QED BY <1>2, <1>3

\* A customer who does one thing at a time (Visits is a singleton) finds the
\* profile consistent after each of them: the flag says whether it is complete,
\* one saved payment method is the default if there are any, and at most one
\* address is.  And the list of recently viewed products is within its limit
\* whenever no page is being opened, however many were opened at once.
THEOREM ProfileStaysConsistent ==
  ASSUME NEW v, Visits = {v} PROVE MCSpec => []ProfileInTurn
<1> DEFINE Inv == IF area = "pages" THEN PagesInv ELSE ProfileInv(v)
<1>1. MCInit => Inv
  <2> SUFFICES ASSUME MCInit PROVE Inv
    OBVIOUS
  <2>1. CASE area = "pages"
    <3>1. views = <<>> /\ visit = [x \in Callers |-> Pages!NoVisit]
      BY <2>1 DEF MCInit, Pages!ProfileInit
    <3>2. views \in Seq(Products) /\ Len(views) = 0 /\ Distinct(views)
      BY <3>1 DEF Distinct
    <3>3. \A x \in Callers : PageShaped(visit[x])
      BY <3>1 DEF PageShaped, Pages!NoVisit
    <3> QED BY <2>1, <3>1, <3>2, <3>3, ProfileAssumption DEF PagesInv
  <2>2. CASE area # "pages"
    <3>1. /\ basic = FALSE /\ complete = FALSE /\ used = {}
          /\ addresses = [a \in AddressIds |-> "none"] /\ methods = [m \in MethodIds |-> "none"]
          /\ visit = [x \in {v} |-> NoVisit]
      BY <2>2 DEF MCInit, ProfileInit
    <3>2. VisitFits(v) /\ visit[v].pc = "idle"
      BY <3>1 DEF VisitFits, VisitShaped, NoVisit, VisitPC
    <3>3. Saved(methods) = {} /\ Defaults(addresses) = {} /\ IsFiniteSet(used)
      BY <3>1, FS_EmptySet DEF Saved, Defaults
    <3>4. CompletionFits(v)
      BY <3>1, <3>2 DEF CompletionFits, IsComplete
    <3>5. AddressesFit(v)
      BY <3>1, <3>2, <3>3 DEF AddressesFit, Kinds
    <3>6. MethodsFit(v)
      BY <3>1, <3>2, <3>3 DEF MethodsFit, HasDefault, Kinds
    <3> QED BY <2>2, <3>2, <3>4, <3>5, <3>6 DEF ProfileInv
  <2> QED BY <2>1, <2>2
<1>2. Inv /\ [MCNext]_<<allVars, area>> => Inv'
  <2> SUFFICES ASSUME Inv, [MCNext]_<<allVars, area>> PROVE Inv'
    OBVIOUS
  <2>1. area' = area
    BY DEF MCNext
  <2>2. \/ area = "profile" /\ ProfileNext
        \/ area = "pages" /\ Pages!ProfileNext
        \/ UNCHANGED profileVars
    BY DEF MCNext, OnlyCodes, OnlySessions, OnlyAdmin, OnlyThrottle, allVars
  <2>3. CASE area = "profile" /\ ProfileNext
    BY <2>1, <2>3, ProfileSteps
  <2>4. CASE area = "pages" /\ Pages!ProfileNext
    BY <2>1, <2>4, PagesStay
  <2>5. CASE UNCHANGED profileVars
    BY <2>1, <2>5, ProfileUndisturbed
  <2> QED BY <2>2, <2>3, <2>4, <2>5
<1>3. Inv => ProfileInTurn
  <2> SUFFICES ASSUME Inv PROVE ProfileInTurn
    OBVIOUS
  <2>1. CASE area = "pages"
    BY <2>1 DEF ProfileInTurn, PagesInv, Bounds, Pages!ViewsBounded, Pages!Quiet
  <2>2. CASE area # "pages"
    <3> SUFFICES ASSUME visit[v].pc = "idle"
                 PROVE  /\ complete = IsComplete
                        /\ Cardinality(Defaults(methods)) = (IF Saved(methods) = {} THEN 0 ELSE 1)
                        /\ Cardinality(Defaults(addresses)) <= 1
      BY <2>2 DEF ProfileInTurn, ProfileConsistent, Quiet
    <3>1. complete = IsComplete
      BY <2>2 DEF ProfileInv, CompletionFits
    <3>2. Defaults(methods) \subseteq Saved(methods) /\ HasDefault
      BY <2>2 DEF ProfileInv, MethodsFit, Saved, Defaults
    <3>3. Cardinality(Defaults(methods)) = (IF Saved(methods) = {} THEN 0 ELSE 1)
      <4>1. CASE Saved(methods) = {}
        BY <3>2, <4>1, FS_EmptySet
      <4>2. CASE Saved(methods) # {}
        <5>1. PICK m \in MethodIds : Defaults(methods) = {m}
          BY <3>2, <4>2 DEF HasDefault
        <5> QED BY <4>2, <5>1, FS_Singleton
      <4> QED BY <4>1, <4>2
    <3>4. Cardinality(Defaults(addresses)) <= 1
      <4>1. CASE Defaults(addresses) = {}
        BY <4>1, FS_EmptySet
      <4>2. CASE Defaults(addresses) # {}
        <5>1. PICK a : Defaults(addresses) = {a}
          BY <2>2, <4>2 DEF ProfileInv, AddressesFit
        <5> QED BY <5>1, FS_Singleton
      <4> QED BY <4>1, <4>2
    <3> QED BY <3>1, <3>3, <3>4
  <2> QED BY <2>1, <2>2
<1> QED BY <1>1, <1>2, <1>3, PTL DEF MCSpec
=============================================================================
