------------------------------- MODULE Reviews -------------------------------
(* Product reviews: a customer's review of a delivered order, votes for how  *)
(* helpful it is, the admin's moderation, and the rating and the number of   *)
(* reviews that the product row carries.  One product.                       *)
(*                                                                           *)
(* Ratings are kept in hundredths: a new review rounds the product's to one  *)
(* decimal, moderation to two.                                               *)
EXTENDS Integers, FiniteSets

CONSTANTS
  Delivered,     \* the delivered orders of the product, later ones greater
  Voters,        \* other customers
  Ratings,       \* BOUND on the stars that are given
  ReviewTasks,   \* requests in flight: BOUND on concurrency
  ReviewOps,     \* the endpoints that are exercised
  MaxModerations \* BOUND on the admin's decisions

ASSUME ReviewsAssumption ==
  /\ Delivered \subseteq Nat \ {0} /\ IsFiniteSet(Delivered) /\ IsFiniteSet(Voters)
  /\ Ratings \subseteq 1..5 /\ MaxModerations \in Nat

VARIABLES
  reviews,     \* the ProductReview row of each order
  votes,       \* ReviewHelpful: who finds which review helpful
  product,     \* rating and reviewsCount of the Product row
  decisions,   \* moderations so far
  reviewTask   \* what each request is doing

reviewVars == <<reviews, votes, product, decisions, reviewTask>>

ReviewStatus == {"PENDING", "APPROVED", "REJECTED"}
Review == [status: ReviewStatus \cup {"none"}, spam: BOOLEAN, stars: Nat, helpful: Nat]
NoReview == [status |-> "none", spam |-> FALSE, stars |-> 0, helpful |-> 0]
ProductBooks == [rating: Nat, count: Nat]

\* `review` and `books`: rows as they were read.
ReviewTask == [pc: {"idle", "create", "vote_on", "vote_off", "vote_off_save", "moderate",
                    "aggregate", "save_rating"},
               order: Delivered \cup {0}, who: Voters \cup {0}, review: Review, books: ProductBooks]
NoReviewTask == [pc |-> "idle", order |-> 0, who |-> 0, review |-> NoReview,
                 books |-> [rating |-> 0, count |-> 0]]

ReviewsTypeOK ==
  /\ reviews \in [Delivered -> Review]
  /\ votes \subseteq Delivered \X Voters
  /\ product \in ProductBooks
  /\ decisions \in 0..MaxModerations
  /\ reviewTask \in [ReviewTasks -> ReviewTask]

ReviewsInit ==
  /\ reviews = [o \in Delivered |-> NoReview]
  /\ votes = {}
  /\ product = [rating |-> 450, count |-> 0]   \* schema.prisma: @default(4.5)
  /\ decisions = 0
  /\ reviewTask = [t \in ReviewTasks |-> NoReviewTask]

-----------------------------------------------------------------------------

\* Math.round of a positive quotient.
RoundedQuotient(n, d) == (2 * n + d) \div (2 * d)

Written(o) == reviews[o].status # "none"
IsPublic(r) == r.status = "APPROVED" /\ ~r.spam
PublicReviews == {o \in Delivered : IsPublic(reviews[o])}
Votes(o) == {v \in votes : v[1] = o}
\* The ratings of some reviews together: how many reviews gave n stars, times n.
Giving(S, n) == Cardinality({o \in S : reviews[o].stars = n})
StarsOf(S) ==
  Giving(S, 1) + 2 * Giving(S, 2) + 3 * Giving(S, 3) + 4 * Giving(S, 4) + 5 * Giving(S, 5)

AtReview(t, pc) == reviewTask[t].pc = pc
EndReview(t) == reviewTask' = [reviewTask EXCEPT ![t] = NoReviewTask]

-----------------------------------------------------------------------------
(* POST /reviews *)

\* The order is the one that is named, or the latest.  A link in the text makes
\* the review spam from the start.
BeginReview(t) ==
  /\ "create" \in ReviewOps
  /\ AtReview(t, "idle")
  /\ \E o \in Delivered, stars \in Ratings, spam \in BOOLEAN :
       /\ ~Written(o)
       /\ reviewTask' = [reviewTask EXCEPT ![t] =
            [NoReviewTask EXCEPT
               !.pc = "create", !.order = o, !.books = product,
               !.review = [status |-> IF spam THEN "REJECTED" ELSE "APPROVED", spam |-> spam,
                           stars |-> stars, helpful |-> 0]]]
  /\ UNCHANGED <<reviews, votes, product, decisions>>

\* Mutant: rejected reviews count as well.
AnyReview(r, old) ==
  [rating |-> RoundedQuotient(old.rating * old.count + 100 * r.stars, 10 * (old.count + 1)) * 10,
   count |-> old.count + 1]

\* The product's books with a new review, from what was read of them.
BooksWith(r, old) ==
  IF ~IsPublic(r) THEN product
  ELSE [rating |-> RoundedQuotient(old.rating * old.count + 100 * r.stars, 10 * (old.count + 1)) * 10,
        count |-> old.count + 1]

\* @@unique([orderId, productId]): P2002, and nothing of the transaction stays.
Duplicate(o) == Written(o)

CreateReview(t) ==
  LET task == reviewTask[t] IN
  /\ AtReview(t, "create")
  /\ IF Duplicate(task.order) THEN UNCHANGED <<reviews, product>>
     ELSE /\ reviews' = [reviews EXCEPT ![task.order] = task.review]
          /\ product' = BooksWith(task.review, task.books)
  /\ EndReview(t)
  /\ UNCHANGED <<votes, decisions>>

-----------------------------------------------------------------------------
(* PATCH /reviews/:id/helpful *)

MarkHelpful(t) ==
  /\ "helpful" \in ReviewOps
  /\ AtReview(t, "idle")
  /\ \E o \in PublicReviews, u \in Voters :
       reviewTask' = [reviewTask EXCEPT ![t] =
         [NoReviewTask EXCEPT !.pc = IF <<o, u>> \in votes THEN "vote_off" ELSE "vote_on",
                              !.order = o, !.who = u]]
  /\ UNCHANGED <<reviews, votes, product, decisions>>

\* @@unique([reviewId, userId]), and an atomic increment in the same transaction.
VoteOn(t) ==
  LET o == reviewTask[t].order  v == <<o, reviewTask[t].who>> IN
  /\ AtReview(t, "vote_on")
  /\ IF v \in votes THEN UNCHANGED <<votes, reviews>>
     ELSE votes' = votes \cup {v} /\ reviews' = [reviews EXCEPT ![o].helpful = @ + 1]
  /\ EndReview(t)
  /\ UNCHANGED <<product, decisions>>

\* The count is read in the transaction, and written back less one.
VoteOff(t) ==
  /\ AtReview(t, "vote_off")
  /\ reviewTask' = [reviewTask EXCEPT ![t].pc = "vote_off_save",
                                      ![t].review = reviews[reviewTask[t].order]]
  /\ UNCHANGED <<reviews, votes, product, decisions>>

\* A vote that is gone by now fails the transaction.
VoteOffSave(t) ==
  LET o == reviewTask[t].order  v == <<o, reviewTask[t].who>>
      count == reviewTask[t].review.helpful
  IN
  /\ AtReview(t, "vote_off_save")
  /\ IF v \notin votes THEN UNCHANGED <<votes, reviews>>
     ELSE /\ votes' = votes \ {v}
          /\ reviews' = [reviews EXCEPT ![o].helpful = IF count = 0 THEN 0 ELSE count - 1]
  /\ EndReview(t)
  /\ UNCHANGED <<product, decisions>>

-----------------------------------------------------------------------------
(* The admin's moderation *)

\* Spam is rejected; what is no longer spam keeps the status that was read, so
\* that a review the text of which had a link stays rejected.
Marked(r, spam) == [r EXCEPT !.spam = spam, !.status = IF spam THEN "REJECTED" ELSE r.status]

Moderate(t) ==
  /\ "moderate" \in ReviewOps
  /\ AtReview(t, "idle")
  /\ decisions < MaxModerations /\ decisions' = decisions + 1
  /\ \E o \in {x \in Delivered : Written(x)} :
       \/ \E status \in ReviewStatus :        \* updateReviewStatus
            /\ reviews' = [reviews EXCEPT ![o].status = status]
            /\ reviewTask' = [reviewTask EXCEPT ![t] =
                 [NoReviewTask EXCEPT !.pc = "aggregate", !.order = o]]
       \/ \E spam \in BOOLEAN :               \* toggleSpam
            /\ UNCHANGED reviews
            /\ reviewTask' = [reviewTask EXCEPT ![t] =
                 [NoReviewTask EXCEPT !.pc = "moderate", !.order = o,
                    !.review = Marked(reviews[o], spam)]]
  /\ UNCHANGED <<votes, product>>

ToggleSpam(t) ==
  LET task == reviewTask[t] IN
  /\ AtReview(t, "moderate")
  /\ reviews' = [reviews EXCEPT ![task.order].spam = task.review.spam,
                                ![task.order].status = task.review.status]
  /\ reviewTask' = [reviewTask EXCEPT ![t].pc = "aggregate"]
  /\ UNCHANGED <<votes, product, decisions>>

\* syncProductRating: APPROVED, and no spam.
Counted == PublicReviews

Aggregate(t) ==
  LET n == Cardinality(Counted) IN
  /\ AtReview(t, "aggregate")
  /\ reviewTask' = [reviewTask EXCEPT ![t].pc = "save_rating",
       ![t].books = [count |-> n, rating |-> IF n = 0 THEN 0 ELSE RoundedQuotient(100 * StarsOf(Counted), n)]]
  /\ UNCHANGED <<reviews, votes, product, decisions>>

SaveRating(t) ==
  /\ AtReview(t, "save_rating")
  /\ product' = reviewTask[t].books
  /\ EndReview(t)
  /\ UNCHANGED <<reviews, votes, decisions>>

ReviewsNext ==
  \E t \in ReviewTasks :
    \/ BeginReview(t) \/ CreateReview(t) \/ MarkHelpful(t) \/ VoteOn(t) \/ VoteOff(t)
    \/ VoteOffSave(t) \/ Moderate(t) \/ ToggleSpam(t) \/ Aggregate(t) \/ SaveRating(t)

ReviewsSpec == ReviewsInit /\ [][ReviewsNext]_reviewVars

-----------------------------------------------------------------------------
(* Properties *)

QuietReviews == \A t \in ReviewTasks : AtReview(t, "idle")

\* Between requests that come one at a time the product carries the number of
\* its public reviews and a rating that lies between the worst and the best of
\* them, and every review the number of its votes.  (The rating is not the
\* mean: the roundings of new reviews add up until a moderation.)
ReviewBooksAgree ==
  QuietReviews =>
    /\ product.count = Cardinality(PublicReviews)
    /\ product.count > 0 =>
         \E worst, best \in PublicReviews :
           100 * reviews[worst].stars <= product.rating /\ product.rating <= 100 * reviews[best].stars
    /\ \A o \in Delivered : reviews[o].helpful = Cardinality(Votes(o))
=============================================================================
