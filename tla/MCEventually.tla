---------------------------- MODULE MCEventually ----------------------------
(* What time brings about, apart from the settlement of payments (module     *)
(* Shop): the tracking sync, the rate limiter and the pages in Redis, each   *)
(* in an area of its own.                                                    *)
EXTENDS TrackingCron, Throttle

CONSTANTS
  Goods, Aisles, Slugs, Story, Visitors, Editors, MaxVersion,
  DetailsTtl, ListTtl, FeedTtl, Nothing,
  p1, c1, s1

VARIABLES area, goods, aisles, stories, pages, cacheUp, visitors, editors

\* One product's pages, with requests that overlap and Redis that comes and goes.
Aging == INSTANCE CatalogueCache WITH
  Kinds <- {"details", "testimonials"}, redisUp <- cacheUp, CacheFaults <- {"redis"},
  CacheOps <- {"update", "silent", "testimonial"}

ASSUME AgingAssumption == Aging!CacheAssumption

-----------------------------------------------------------------------------
cacheVars == <<goods, aisles, stories, pages, cacheUp, visitors, editors>>
allVars == <<cronVars, throttleVars, cacheVars, area>>

\* One product on sale, in the one category there is.
OneGood == [Aging!NoGoods EXCEPT ![p1] =
  [state |-> "live", slug |-> s1, aisle |-> c1, version |-> 0]]
OneAisle == [c \in Aisles |-> [state |-> "live", parent |-> Nothing, version |-> 0]]

Of(a, others) == area = a /\ UNCHANGED <<others, area>>
OfCron     == Of("cron", <<throttleVars, cacheVars>>)
OfThrottle == Of("throttle", <<cronVars, cacheVars>>)
OfAging    == Of("aging", <<cronVars, throttleVars>>)

MCInit ==
  /\ area \in {"cron", "throttle", "aging"}
  /\ CronInit /\ ThrottleInit
  /\ Aging!CacheInitWith(OneGood, OneAisle)

MCNext ==
  \/ CronNext /\ OfCron
  \/ ThrottleNext /\ OfThrottle
  \/ OfAging /\ Aging!CacheNext

\* CronFairness, ThrottleFairness and CacheFairness, each for the behaviours of
\* its area.
MCFairness ==
  /\ WF_allVars(StartRun /\ OfCron)
  /\ WF_allVars((VisitOrder \/ VisitFails) /\ OfCron)
  /\ WF_allVars(EndRun /\ OfCron)
  /\ \A o \in Ids : SF_allVars(Visit(o) /\ OfCron)
  /\ \A q \in Requests :
       WF_allVars((CheckBlocked(q) \/ Incr(q) \/ Expire(q) \/ Block(q) \/ Refuse(q)) /\ OfThrottle)
  /\ \A k \in Keys : /\ WF_allVars(WindowEnds(k) /\ OfThrottle)
                     /\ WF_allVars(BlockEnds(k) /\ OfThrottle)
  /\ \A v \in Visitors : WF_allVars(OfAging /\ Aging!VisitorStep(v))
  /\ \A e \in Editors : WF_allVars(OfAging /\ Aging!EditorStep(e))
  /\ SF_allVars(OfAging /\ Aging!Tick)

MCSpec == MCInit /\ [][MCNext]_allVars /\ MCFairness

-----------------------------------------------------------------------------
(* Properties of an instance *)

\* With overlapping requests and lost invalidations, every page comes to show
\* what is, once nothing changes any more.
EveryChangeIsShown == area = "aging" => Aging!EveryChangeIsShown
=============================================================================
