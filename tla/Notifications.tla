--------------------------- MODULE Notifications ---------------------------
(* What the shop tells its customers and its admin.  NotificationsService    *)
(* sends an event's message on up to four channels, each once per            *)
(* idempotency key (order, event type); StockAlertService tells the admin    *)
(* when stock runs low or out, after claiming each channel.  Both remember   *)
(* what they sent in NotificationLog rows, which have no unique constraint,  *)
(* and both run detached from the request that called them.                  *)
EXTENDS Integers, Sequences, FiniteSets, Functions

CONSTANTS
  Events,       \* event types that happen to an order
  Dispatches,   \* detached executions in flight: BOUND on concurrency
  MaxStock,     \* BOUND on the stock of the one item that is watched
  Threshold,    \* attributes.lowStockThreshold, 10 by default
  MaxCalls,     \* BOUND on how often an event, or a stock change, is reported
  NotifyOps,    \* {"events", "alerts"} or less
  NotifyFaults  \* {"crash", "mail"} or less

\* getChannelsForEvent, in the order in which the channels are tried.
Everywhere == {"ORDER_PLACED", "PAYMENT_SUCCESS", "PAYMENT_FAILED", "ORDER_STATUS_SHIPPED",
               "ORDER_STATUS_CANCELLED", "ONLINE_REFUND_SUCCESS", "COD_REFUND_SUCCESS"}
NoSms == {"ORDER_STATUS_CONFIRMED", "ORDER_STATUS_PACKED", "ORDER_STATUS_DELIVERED",
          "RETURN_REQUESTED", "RETURN_RECEIVED", "ONLINE_REFUND_INITIATED",
          "ONLINE_REFUND_FAILED"}
NoMail == {"ORDER_STATUS_OUT_FOR_DELIVERY"}

Channels(kind) ==
  CASE kind \in Everywhere -> <<"IN_APP", "EMAIL", "SMS", "WHATSAPP">>
    [] kind \in NoMail -> <<"IN_APP", "SMS", "WHATSAPP">>
    [] kind \in NoSms -> <<"IN_APP", "EMAIL", "WHATSAPP">>
    [] OTHER -> <<"SMS", "WHATSAPP">>   \* the admin's alerts

\* The statuses that a customer is told of.
StatusEvents ==
  [CONFIRMED |-> "ORDER_STATUS_CONFIRMED", PACKED |-> "ORDER_STATUS_PACKED",
   SHIPPED |-> "ORDER_STATUS_SHIPPED", OUT_FOR_DELIVERY |-> "ORDER_STATUS_OUT_FOR_DELIVERY",
   DELIVERED |-> "ORDER_STATUS_DELIVERED", CANCELLED |-> "ORDER_STATUS_CANCELLED"]
OrderStatuses == DOMAIN StatusEvents \cup {"PLACED", "PROCESSING"}

Alerts == {"ADMIN_LOW_STOCK", "ADMIN_OUT_OF_STOCK"}

ASSUME NotificationsAssumption ==
  /\ Events \subseteq Everywhere \cup NoSms \cup NoMail
  /\ MaxStock \in Nat /\ Threshold \in 0..MaxStock

VARIABLES
  stock,      \* the item's stock
  logged,     \* NotificationLog rows by message key and channel
  received,   \* messages that went out, by message key and channel
  calls,      \* how often something was reported
  crossed,    \* history: how often the stock's changes called for an alert
  dispatch    \* what each execution is doing

notifyVars == <<stock, logged, received, calls, crossed, dispatch>>

\* A message's idempotency key: the event of the order, or the alert and the
\* stock that it tells of.
MessageKeys == (Events \X {0}) \cup (Alerts \X (0..MaxStock))
ChannelNames == {"IN_APP", "EMAIL", "SMS", "WHATSAPP"}
NoMessage == <<"", 0>>

Dispatch == [pc: {"idle", "check", "claim", "send", "log"},
             key: MessageKeys \cup {NoMessage}, todo: Seq(ChannelNames)]
NoDispatch == [pc |-> "idle", key |-> NoMessage, todo |-> <<>>]

NotifyTypeOK ==
  /\ stock \in 0..MaxStock
  /\ logged \in [MessageKeys \X ChannelNames -> Nat]
  /\ received \in [MessageKeys \X ChannelNames -> Nat]
  /\ calls \in 0..MaxCalls
  /\ crossed \in [MessageKeys -> Nat]
  /\ dispatch \in [Dispatches -> Dispatch]

NotifyInit ==
  /\ stock = MaxStock
  /\ logged = [m \in MessageKeys \X ChannelNames |-> 0]
  /\ received = [m \in MessageKeys \X ChannelNames |-> 0]
  /\ calls = 0
  /\ crossed = [k \in MessageKeys |-> 0]
  /\ dispatch = [d \in Dispatches |-> NoDispatch]

-----------------------------------------------------------------------------

Queue(d, key) ==
  /\ dispatch[d].pc = "idle"
  /\ calls < MaxCalls /\ calls' = calls + 1
  /\ dispatch' = [dispatch EXCEPT ![d] = [pc |-> "check", key |-> key, todo |-> Channels(key[1])]]

\* sendEventNotification: the answer does not wait for the messages.
SendEventNotification(d, e) ==
  /\ "events" \in NotifyOps
  /\ Queue(d, <<e, 0>>)
  /\ UNCHANGED <<stock, logged, received, crossed>>

\* notifyOrderStatusChange: a transition to the same status, and one to a status
\* that needs no message, is skipped.
NotifyOrderStatusChange(d, old, new) ==
  /\ "events" \in NotifyOps
  /\ old # new /\ new \in DOMAIN StatusEvents
  /\ StatusEvents[new] \in Events
  /\ Queue(d, <<StatusEvents[new], 0>>)
  /\ UNCHANGED <<stock, logged, received, crossed>>

\* Mutant: an alert for stock that is below the threshold, not at it.
BelowThreshold(old, new) ==
  IF old > Threshold /\ new < Threshold /\ new > 0 THEN {"ADMIN_LOW_STOCK"}
  ELSE IF old > 0 /\ new = 0 THEN {"ADMIN_OUT_OF_STOCK"} ELSE {}

\* The event type, if stock crossed its threshold or ran out.
StockEvent(old, new) ==
  IF old > Threshold /\ new <= Threshold /\ new > 0 THEN {"ADMIN_LOW_STOCK"}
  ELSE IF old > 0 /\ new = 0 THEN {"ADMIN_OUT_OF_STOCK"} ELSE {}

\* evaluateStockChange gets the two values from its caller and reads no stock.
\* `crossed` records what the change calls for: the first time stock is at or
\* below the threshold, or out.
ChangeStock(d) ==
  /\ "alerts" \in NotifyOps
  /\ \E new \in 0..MaxStock \ {stock} :
       /\ stock' = new
       /\ crossed' =
            IF new = 0 THEN [crossed EXCEPT ![<<"ADMIN_OUT_OF_STOCK", 0>>] = @ + 1]
            ELSE IF stock > Threshold /\ new <= Threshold
            THEN [crossed EXCEPT ![<<"ADMIN_LOW_STOCK", new>>] = @ + 1] ELSE crossed
       /\ IF StockEvent(stock, new) = {}
          THEN UNCHANGED <<dispatch, calls>>
          ELSE \E kind \in StockEvent(stock, new) : Queue(d, <<kind, new>>)
  /\ UNCHANGED <<logged, received>>

Message(d) == <<dispatch[d].key, Head(dispatch[d].todo)>>
IsAlert(d) == dispatch[d].key[1] \in Alerts

AfterChannel(r) ==
  IF Len(r.todo) = 1 THEN NoDispatch ELSE [r EXCEPT !.pc = "check", !.todo = Tail(r.todo)]
NextChannel(d) == dispatch' = [dispatch EXCEPT ![d] = AfterChannel(dispatch[d])]
DispatchStep(d, pc) == dispatch' = [dispatch EXCEPT ![d].pc = pc]

\* Mutant: the log is not looked at.
NeverDispatched(d) == FALSE

\* isChannelAlreadyDispatched, and the first half of tryAtomicClaim.
AlreadyDispatched(d) == logged[Message(d)] > 0

CheckLog(d) ==
  /\ dispatch[d].pc = "check"
  /\ IF AlreadyDispatched(d) THEN NextChannel(d)
     ELSE DispatchStep(d, IF IsAlert(d) THEN "claim" ELSE "send")
  /\ UNCHANGED <<stock, logged, received, calls, crossed>>

\* tryAtomicClaim's second half: the row is created, whoever else created one.
Claim(d) ==
  /\ dispatch[d].pc = "claim"
  /\ logged' = [logged EXCEPT ![Message(d)] = @ + 1]
  /\ DispatchStep(d, "send")
  /\ UNCHANGED <<stock, received, calls, crossed>>

\* SMS and WhatsApp are rows of the log; an in-app message is a row of its own
\* and a mail is a call of the provider, and both are logged after.
Send(d) ==
  /\ dispatch[d].pc = "send"
  /\ received' = [received EXCEPT ![Message(d)] = @ + 1]
  /\ IF Message(d)[2] \in {"SMS", "WHATSAPP"}
     THEN logged' = [logged EXCEPT ![Message(d)] = @ + 1] /\ NextChannel(d)
     ELSE UNCHANGED logged /\ DispatchStep(d, "log")
  /\ UNCHANGED <<stock, calls, crossed>>

\* No key, an error of the provider or of the network: logged as FAILED, and so
\* not tried again.
MailFails(d) ==
  /\ "mail" \in NotifyFaults
  /\ dispatch[d].pc = "send" /\ Message(d)[2] = "EMAIL"
  /\ DispatchStep(d, "log")
  /\ UNCHANGED <<stock, logged, received, calls, crossed>>

LogMessage(d) ==
  /\ dispatch[d].pc = "log"
  /\ logged' = [logged EXCEPT ![Message(d)] = @ + 1]
  /\ NextChannel(d)
  /\ UNCHANGED <<stock, received, calls, crossed>>

NotifyCrash(d) ==
  /\ "crash" \in NotifyFaults
  /\ dispatch[d].pc # "idle"
  /\ dispatch' = [dispatch EXCEPT ![d] = NoDispatch]
  /\ UNCHANGED <<stock, logged, received, calls, crossed>>

NotifyNext ==
  \E d \in Dispatches :
    \/ \E e \in Events \ Range(StatusEvents) : SendEventNotification(d, e)
    \/ \E old, new \in OrderStatuses : NotifyOrderStatusChange(d, old, new)
    \/ ChangeStock(d) \/ CheckLog(d) \/ Claim(d) \/ Send(d) \/ MailFails(d)
    \/ LogMessage(d) \/ NotifyCrash(d)

NotifySpec == NotifyInit /\ [][NotifyNext]_notifyVars

-----------------------------------------------------------------------------
(* Properties *)

\* One execution at a time, and no crash: a message goes out once per channel,
\* however often its event is reported.
ToldOnce == \A m \in DOMAIN received : received[m] <= 1

AllDispatched == \A d \in Dispatches : dispatch[d].pc = "idle"

\* However the executions overlap, as long as none dies: once they are done the
\* admin was told, on each channel, of every level that stock fell to.
NoAlertIsLost ==
  AllDispatched =>
    \A key \in MessageKeys, c \in {"SMS", "WHATSAPP"} : crossed[key] > 0 => received[<<key, c>>] > 0

-----------------------------------------------------------------------------
(* Promises of documents that TLC refutes; README.md, "Divergences", has the *)
(* instances.                                                                *)

\* stock-alert.service.ts: "If stock is restored (increased), no alert is sent.
\* Eligibility automatically re-arms because future decrements will cross the
\* threshold": stock that falls again is told of again.
AlertsRearm ==
  AllDispatched =>
    \A key \in MessageKeys, c \in {"SMS", "WHATSAPP"} : received[<<key, c>>] >= crossed[key]

\* stock-alert.service.ts: "Attempts to atomically claim dispatch of a
\* notification channel via database insert": no alert goes out twice.
ClaimsAreAtomic == \A m \in DOMAIN received : m[1][1] \in Alerts => received[m] <= 1
=============================================================================
