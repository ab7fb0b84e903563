------------------------------- MODULE Profile -------------------------------
(* ProfileService for one customer: delivery addresses, pets, the flag that  *)
(* says the profile is complete, and the saved payment methods with their    *)
(* default.  Also the customer's recently viewed products (UsersService).    *)
(*                                                                           *)
(* BOUND: a row is created once (its id is a member of Rows).                *)
EXTENDS Integers, FiniteSets, Sequences

CONSTANTS
  AddressIds, PetIds, MethodIds,  \* ids that rows may get
  Products, ViewLimit,            \* ViewLimit is 20 in the code
  Visits,                         \* requests in flight: BOUND on concurrency
  ProfileOps                      \* the endpoints that are exercised

ASSUME ProfileAssumption == ViewLimit \in Nat \ {0} /\ MethodIds \subseteq Nat

VARIABLES
  basic,      \* name, gender and date of birth are filled in
  addresses,  \* the Address rows, with their isDefault
  pets,       \* the Pet rows
  complete,   \* isProfileComplete
  methods,    \* the UserPaymentMethod rows, with their isDefault
  used,       \* ids that were given to rows
  views,      \* the RecentlyViewed rows, latest first
  visit       \* what each request is doing

profileVars == <<basic, addresses, pets, complete, methods, used, views, visit>>

Rows == AddressIds \cup PetIds \cup MethodIds
VisitPC == {"idle", "create_address", "update_address", "completion", "completion_save",
            "create_method", "promote", "set_default", "trim_views",
            "trim_delete"}
\* `flag` and `excess`: what was decided from what was read.
VisitRow == [pc: VisitPC, id: Rows \cup {0}, flag: BOOLEAN, excess: SUBSET Products]
NoVisit == [pc |-> "idle", id |-> 0, flag |-> FALSE, excess |-> {}]

ProfileTypeOK ==
  /\ basic \in BOOLEAN /\ complete \in BOOLEAN
  /\ addresses \in [AddressIds -> {"none", "plain", "default"}]
  /\ methods   \in [MethodIds -> {"none", "plain", "default"}]
  /\ pets \subseteq PetIds
  /\ used \subseteq Rows
  /\ views \in Seq(Products)
  /\ visit \in [Visits -> VisitRow]

ProfileInit ==
  /\ basic = FALSE /\ complete = FALSE
  /\ addresses = [a \in AddressIds |-> "none"]
  /\ methods = [m \in MethodIds |-> "none"]
  /\ pets = {} /\ used = {} /\ views = <<>>
  /\ visit = [v \in Visits |-> NoVisit]

Saved(rows) == {i \in DOMAIN rows : rows[i] # "none"}
Defaults(rows) == {i \in DOMAIN rows : rows[i] = "default"}

\* Mutant: the flag is emptied instead.
ClearedDefault(rows) == [i \in DOMAIN rows |-> IF rows[i] = "default" THEN "null" ELSE rows[i]]

\* updateMany: no row is the default any more.
NoDefault(rows) == [i \in DOMAIN rows |-> IF rows[i] = "default" THEN "plain" ELSE rows[i]]

Begin(v, pc, id, flag) ==
  /\ visit[v].pc = "idle"
  /\ visit' = [visit EXCEPT ![v] =
       [pc |-> pc, id |-> id, flag |-> flag, excess |-> {}]]

Go(v, pc) == visit' = [visit EXCEPT ![v].pc = pc]
Leave(v) == visit' = [visit EXCEPT ![v] = NoVisit]

-----------------------------------------------------------------------------
(* Completion *)

IsComplete == basic /\ Saved(addresses) # {} /\ pets # {}

\* checkAndUpdateProfileCompletion reads the user with its rows and writes the
\* flag if it changed.  (An account with a googleId has a verified address:
\* OneTimeCodes.VerifiedMailWasProved.)
CheckCompletion(v) ==
  /\ visit[v].pc = "completion"
  /\ visit' = [visit EXCEPT ![v] =
       IF complete # IsComplete
       THEN [NoVisit EXCEPT !.pc = "completion_save", !.flag = IsComplete] ELSE NoVisit]
  /\ UNCHANGED <<basic, addresses, pets, complete, methods, used, views>>

SaveCompletion(v) ==
  /\ visit[v].pc = "completion_save"
  /\ complete' = visit[v].flag
  /\ Leave(v)
  /\ UNCHANGED <<basic, addresses, pets, methods, used, views>>

\* GET /profile repairs the flag on the way.
GetProfile(v) ==
  /\ "profile" \in ProfileOps
  /\ Begin(v, "completion", 0, FALSE)
  /\ UNCHANGED <<basic, addresses, pets, complete, methods, used, views>>

\* The name is overwritten; gender and date of birth only when given.
UpdateBasicProfile(v) ==
  /\ "profile" \in ProfileOps
  /\ basic' = TRUE
  /\ Begin(v, "completion", 0, FALSE)
  /\ UNCHANGED <<addresses, pets, complete, methods, used, views>>

-----------------------------------------------------------------------------
(* Addresses and pets *)

AddAddress(v) ==
  /\ "profile" \in ProfileOps
  /\ \E a \in AddressIds \ used, isDefault \in BOOLEAN :
       /\ used' = used \cup {a}
       /\ addresses' = IF isDefault THEN NoDefault(addresses) ELSE addresses
       /\ Begin(v, "create_address", a, isDefault)
  /\ UNCHANGED <<basic, pets, complete, methods, views>>

CreateAddress(v) ==
  /\ visit[v].pc = "create_address"
  /\ addresses' = [addresses EXCEPT ![visit[v].id] =
                     IF visit[v].flag THEN "default" ELSE "plain"]
  /\ Go(v, "completion")
  /\ UNCHANGED <<basic, pets, complete, methods, used, views>>

UpdateAddress(v) ==
  /\ "profile" \in ProfileOps
  /\ \E a \in Saved(addresses), isDefault \in BOOLEAN :
       /\ addresses' = IF isDefault THEN NoDefault(addresses) ELSE addresses
       /\ Begin(v, "update_address", a, isDefault)
  /\ UNCHANGED <<basic, pets, complete, methods, used, views>>

\* A row that was deleted meanwhile fails the request.
UpdateAddressSave(v) ==
  /\ visit[v].pc = "update_address"
  /\ IF addresses[visit[v].id] = "none" THEN UNCHANGED addresses /\ Leave(v)
     ELSE /\ addresses' = [addresses EXCEPT ![visit[v].id] =
                             IF visit[v].flag THEN "default" ELSE "plain"]
          /\ Go(v, "completion")
  /\ UNCHANGED <<basic, pets, complete, methods, used, views>>

\* The default goes with its row: no other address is promoted.
DeleteAddress(v) ==
  /\ "profile" \in ProfileOps
  /\ \E a \in Saved(addresses) : addresses' = [addresses EXCEPT ![a] = "none"]
  /\ Begin(v, "completion", 0, FALSE)
  /\ UNCHANGED <<basic, pets, complete, methods, used, views>>

AddPet(v) ==
  /\ "profile" \in ProfileOps
  /\ \E p \in PetIds \ used : pets' = pets \cup {p} /\ used' = used \cup {p}
  /\ Begin(v, "completion", 0, FALSE)
  /\ UNCHANGED <<basic, addresses, complete, methods, views>>

\* What it changes does not count for the completion.
UpdatePet(v) ==
  /\ "profile" \in ProfileOps /\ pets # {}
  /\ Begin(v, "completion", 0, FALSE)
  /\ UNCHANGED <<basic, addresses, pets, complete, methods, used, views>>

\* Mutant: deletePet forgets to look at the completion again.
PetGone(v) == UNCHANGED visit

AfterDeletePet(v) == Begin(v, "completion", 0, FALSE)

DeletePet(v) ==
  /\ "profile" \in ProfileOps /\ visit[v].pc = "idle"
  /\ \E p \in pets : pets' = pets \ {p}
  /\ AfterDeletePet(v)
  /\ UNCHANGED <<basic, addresses, complete, methods, used, views>>

-----------------------------------------------------------------------------
(* Saved payment methods *)

\* The first method is the default whether asked or not.
AddPaymentMethod(v) ==
  /\ "methods" \in ProfileOps
  /\ \E m \in MethodIds \ used, asked \in BOOLEAN :
       LET isDefault == asked \/ Saved(methods) = {} IN
       /\ used' = used \cup {m}
       /\ methods' = IF isDefault THEN NoDefault(methods) ELSE methods
       /\ Begin(v, "create_method", m, isDefault)
  /\ UNCHANGED <<basic, addresses, pets, complete, views>>

CreateMethod(v) ==
  /\ visit[v].pc = "create_method"
  /\ methods' = [methods EXCEPT ![visit[v].id] = IF visit[v].flag THEN "default" ELSE "plain"]
  /\ Leave(v)
  /\ UNCHANGED <<basic, addresses, pets, complete, used, views>>

\* Deleting the default makes the newest remaining method the default.
Promotes(m) == methods[m] = "default"

DeletePaymentMethod(v) ==
  /\ "methods" \in ProfileOps
  /\ \E m \in Saved(methods) :
       /\ methods' = [methods EXCEPT ![m] = "none"]
       /\ Begin(v, IF Promotes(m) THEN "promote" ELSE "idle", 0, FALSE)
  /\ UNCHANGED <<basic, addresses, pets, complete, used, views>>

\* Ids are given out in the order of creation.
PromoteMethod(v) ==
  /\ visit[v].pc = "promote"
  /\ methods' = [m \in MethodIds |->
       IF m \in Saved(methods) /\ \A n \in Saved(methods) : n <= m
       THEN "default" ELSE methods[m]]
  /\ Leave(v)
  /\ UNCHANGED <<basic, addresses, pets, complete, used, views>>

SetDefaultMethod(v) ==
  /\ "methods" \in ProfileOps
  /\ \E m \in Saved(methods) : Begin(v, "set_default", m, FALSE)
  /\ methods' = NoDefault(methods)
  /\ UNCHANGED <<basic, addresses, pets, complete, used, views>>

\* A row that was deleted meanwhile fails the request.
SetDefaultSave(v) ==
  /\ visit[v].pc = "set_default"
  /\ methods' = IF methods[visit[v].id] = "none" THEN methods
                ELSE [methods EXCEPT ![visit[v].id] = "default"]
  /\ Leave(v)
  /\ UNCHANGED <<basic, addresses, pets, complete, used, views>>

-----------------------------------------------------------------------------
(* Recently viewed *)

\* What is left of a list, in its order.
Without(list, gone) ==
  LET kept[n \in 0..Len(list)] ==
        IF n = 0 THEN <<>>
        ELSE IF list[n] \in gone THEN kept[n - 1] ELSE Append(kept[n - 1], list[n])
  IN  kept[Len(list)]

\* The product is upserted with a new date, then the rows beyond ViewLimit go.
AddRecentlyViewed(v) ==
  /\ "views" \in ProfileOps
  /\ \E p \in Products : views' = <<p>> \o Without(views, {p})
  /\ Begin(v, "trim_views", 0, FALSE)
  /\ UNCHANGED <<basic, addresses, pets, complete, methods, used>>

\* Mutant: one more row is kept.
BeyondNext == ViewLimit + 2

FirstExcess == ViewLimit + 1

FindExcess(v) ==
  /\ visit[v].pc = "trim_views"
  /\ visit' = [visit EXCEPT ![v].pc = "trim_delete",
                            ![v].excess = {views[i] : i \in FirstExcess..Len(views)}]
  /\ UNCHANGED <<basic, addresses, pets, complete, methods, used, views>>

TrimViews(v) ==
  /\ visit[v].pc = "trim_delete"
  /\ views' = Without(views, visit[v].excess)
  /\ Leave(v)
  /\ UNCHANGED <<basic, addresses, pets, complete, methods, used>>

ProfileNext ==
  \E v \in Visits :
    \/ GetProfile(v) \/ UpdateBasicProfile(v) \/ CheckCompletion(v) \/ SaveCompletion(v)
    \/ AddAddress(v) \/ CreateAddress(v) \/ UpdateAddress(v) \/ UpdateAddressSave(v)
    \/ DeleteAddress(v) \/ AddPet(v) \/ UpdatePet(v) \/ DeletePet(v)
    \/ AddPaymentMethod(v) \/ CreateMethod(v) \/ DeletePaymentMethod(v)
    \/ PromoteMethod(v) \/ SetDefaultMethod(v) \/ SetDefaultSave(v)
    \/ AddRecentlyViewed(v) \/ FindExcess(v) \/ TrimViews(v)

ProfileSpec == ProfileInit /\ [][ProfileNext]_profileVars

-----------------------------------------------------------------------------
(* Properties *)

Quiet == \A v \in Visits : visit[v].pc = "idle"

\* Between the requests of a customer who makes one at a time: the flag says
\* whether the profile is complete, customers with saved payment methods have
\* exactly one default, and at most one address is the default.
ProfileConsistent ==
  Quiet =>
    /\ complete = IsComplete
    /\ Cardinality(Defaults(methods)) = (IF Saved(methods) = {} THEN 0 ELSE 1)
    /\ Cardinality(Defaults(addresses)) <= 1

\* However the requests overlap, the list of recently viewed products is back
\* within its limit when they are done.
ViewsBounded == Quiet => Len(views) <= ViewLimit
=============================================================================
