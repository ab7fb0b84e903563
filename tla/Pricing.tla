------------------------------ MODULE Pricing ------------------------------
(* What an order costs: the fee settings that the admin edits                *)
(* (SettingsService), the fees that are computed from them                   *)
(* (calculateFeesHelper), and the total that CheckoutService shows first and *)
(* charges later.  Amounts are paise.  One customer, whose cart comes to     *)
(* `subtotal`.                                                               *)
EXTENDS Integers, FiniteSets

CONSTANTS
  Admins,      \* settings requests in flight: BOUND on concurrency
  Subtotals,   \* BOUND: what the customer's cart may come to
  Fees,        \* BOUND: the fees that are configured
  Percentages, \* BOUND: the GST rates that are configured
  FreeDelivery, \* freeDeliveryThreshold, the same all along
  Tolerance,   \* 100 in the code: one rupee
  MaxSaves     \* BOUND on the settings and prices that are saved

ASSUME PricingAssumption ==
  /\ Subtotals \subseteq Nat /\ Fees \subseteq Nat /\ Percentages \subseteq 0..100
  /\ FreeDelivery \in Nat /\ Tolerance \in Nat /\ MaxSaves \in Nat

VARIABLES
  settings,   \* the SystemSetting row of each group
  subtotal,   \* what the lines of the cart come to, at the prices of now
  saves,      \* saved so far
  edit,       \* what each settings request is doing
  visit,      \* what the customer was shown, and what place-order has read
  charged     \* what the order costs, 0 before.  BOUND: one order

pricingVars == <<settings, subtotal, saves, edit, visit, charged>>

\* An extra fee has a name or none; its amount is one of Fees.
Delivery == [fee: Fees \cup {0}, extraOn: BOOLEAN, named: BOOLEAN, extra: Fees \cup {0},
             compulsory: BOOLEAN]
Tax == [pct: Percentages \cup {0}, onDelivery: BOOLEAN]
Payment == [cod: BOOLEAN, codFee: Fees \cup {0}]
Settings == [delivery: Delivery, tax: Tax, payment: Payment]
Groups == {"delivery", "tax", "payment"}

DefaultSettings ==
  [delivery |-> [fee |-> 0, extraOn |-> FALSE, named |-> FALSE, extra |-> 0, compulsory |-> TRUE],
   tax |-> [pct |-> 0, onDelivery |-> FALSE],
   payment |-> [cod |-> TRUE, codFee |-> 0]]

Edit == [pc: {"idle", "save"}, group: Groups, value: Delivery \cup Tax \cup Payment]
NoEdit == [pc |-> "idle", group |-> "tax", value |-> DefaultSettings.tax]

\* `total`, `codFee`, `extra`: what the customer was shown, the fees once `told`;
\* `online`, `optional`: what they chose; `expects`: whether expectedTotal is sent;
\* `read`: the settings read so far for the order's fees.  History: `seen`, the
\* saves when the total was shown, and `same`, whether the last read found no more.
Visit == [pc: {"idle", "shown", "price"}, total: Nat, codFee: Nat, extra: Nat, told: BOOLEAN,
          online: BOOLEAN, optional: BOOLEAN, expects: BOOLEAN, subtotal: Nat, read: Settings,
          unread: SUBSET Groups, seen: 0..MaxSaves, same: BOOLEAN]
NoVisit == [pc |-> "idle", total |-> 0, codFee |-> 0, extra |-> 0, told |-> FALSE,
            online |-> FALSE, optional |-> FALSE, expects |-> FALSE, subtotal |-> 0,
            read |-> DefaultSettings, unread |-> {}, seen |-> 0, same |-> FALSE]

PricingTypeOK ==
  /\ settings \in Settings
  /\ subtotal \in Nat /\ saves \in 0..MaxSaves
  /\ edit \in [Admins -> Edit]
  /\ visit \in Visit
  /\ charged \in Nat

PricingInit ==
  /\ settings = DefaultSettings
  /\ subtotal \in Subtotals /\ saves = 0
  /\ edit = [a \in Admins |-> NoEdit]
  /\ visit = NoVisit
  /\ charged = 0

-----------------------------------------------------------------------------
(* calculateFeesHelper *)

RoundedShare(base, pct) == (2 * base * pct + 100) \div 200

DeliveryFee(s, amount) ==
  IF amount = 0 \/ (FreeDelivery > 0 /\ amount >= FreeDelivery) THEN 0 ELSE s.delivery.fee
CodFee(s) == IF s.payment.cod THEN s.payment.codFee ELSE 0
Gst(s, amount) ==
  RoundedShare(amount + (IF s.tax.onDelivery THEN DeliveryFee(s, amount) ELSE 0), s.tax.pct)

ExtraFee(s, optional) ==
  IF s.delivery.extraOn /\ (s.delivery.compulsory \/ optional) THEN s.delivery.extra ELSE 0

\* "extraFeeName is required when extra fee is enabled": no total at all.
CanPrice(s, amount) == amount > 0 /\ s.delivery.extraOn => s.delivery.named

\* Mutant: GST is due on the extra fee as well.
TaxedExtras(s, amount, online, optional) ==
  IF amount = 0 THEN 0
  ELSE amount + DeliveryFee(s, amount) + Gst(s, amount + ExtraFee(s, optional))
       + ExtraFee(s, optional) + (IF online THEN 0 ELSE CodFee(s))

GrandTotal(s, amount, online, optional) ==
  IF amount = 0 THEN 0
  ELSE amount + DeliveryFee(s, amount) + Gst(s, amount) + ExtraFee(s, optional)
       + (IF online THEN 0 ELSE CodFee(s))

-----------------------------------------------------------------------------
(* SettingsService: a group is read, merged with the request, and saved whole *)

Idle(a) == edit[a].pc = "idle"
ReadGroup(a, g, v) ==
  /\ Idle(a) /\ saves + Cardinality({b \in Admins : ~Idle(b)}) < MaxSaves
  /\ edit' = [edit EXCEPT ![a] = [pc |-> "save", group |-> g, value |-> v]]
  /\ UNCHANGED <<settings, subtotal, saves, visit, charged>>

\* Mutant: the request is checked before it is merged, and a name may go.
NameWhenGiven(old, new) == new.extraOn /\ ~old.extraOn => new.named

NamedWhenOn(old, new) == new.extraOn => new.named

\* BOUND: what one request changes.
DeliveryEdits(old, f, b) ==
  {[old EXCEPT !.fee = f], [old EXCEPT !.extraOn = b], [old EXCEPT !.named = b],
   [old EXCEPT !.extraOn = TRUE, !.named = TRUE, !.extra = f, !.compulsory = b]}

UpdateDeliverySettings(a) ==
  \E f \in Fees, b \in BOOLEAN : \E new \in DeliveryEdits(settings.delivery, f, b) :
    NamedWhenOn(settings.delivery, new) /\ ReadGroup(a, "delivery", new)

UpdateTaxSettings(a) ==
  \E p \in Percentages, b \in BOOLEAN : ReadGroup(a, "tax", [pct |-> p, onDelivery |-> b])

UpdatePaymentSettings(a) ==
  LET old == settings.payment IN
  \E new \in {[old EXCEPT !.cod = b] : b \in BOOLEAN} \cup {[old EXCEPT !.codFee = f] : f \in Fees} :
    ReadGroup(a, "payment", new)

\* The upsert.  PATCH /admin/settings runs one of these per group, at once: the
\* groups of a refused request that can be saved are saved.
SaveSettings(a) ==
  /\ edit[a].pc = "save" /\ saves < MaxSaves
  /\ settings' = [settings EXCEPT ![edit[a].group] = edit[a].value]
  /\ saves' = saves + 1
  /\ edit' = [edit EXCEPT ![a] = NoEdit]
  /\ UNCHANGED <<subtotal, visit, charged>>

\* The admin changes prices, or the customer their cart.
ChangeSubtotal ==
  /\ saves < MaxSaves /\ saves' = saves + 1
  /\ subtotal' \in Subtotals \ {subtotal}
  /\ UNCHANGED <<settings, edit, visit, charged>>

-----------------------------------------------------------------------------
(* CheckoutService *)

\* GET /checkout, the total without the fees that are the customer's choice,
\* and GET /checkout/payment-methods and /settings/public, which tell of those
\* and may be asked for again.
SeeCheckout ==
  /\ visit.pc = "idle" /\ charged = 0
  /\ subtotal > 0 /\ CanPrice(settings, subtotal)
  /\ visit' = [visit EXCEPT !.pc = "shown", !.seen = saves,
                            !.total = GrandTotal(settings, subtotal, TRUE, FALSE)]
  /\ UNCHANGED <<settings, subtotal, saves, edit, charged>>

SeePaymentMethods ==
  /\ visit.pc = "shown"
  /\ visit' = [visit EXCEPT !.told = TRUE, !.codFee = CodFee(settings),
                            !.extra = ExtraFee(settings, TRUE) - ExtraFee(settings, FALSE)]
  /\ UNCHANGED <<settings, subtotal, saves, edit, charged>>

\* POST /checkout/place-order up to the point where the fees are asked for.
AskForOrder ==
  /\ visit.pc = "shown" /\ subtotal > 0
  /\ \E online, optional, expects \in BOOLEAN :
       /\ online \/ settings.payment.cod
       /\ visit' = [visit EXCEPT !.pc = "price", !.online = online, !.optional = optional,
                                 !.expects = expects, !.subtotal = subtotal, !.unread = Groups]
  /\ UNCHANGED <<settings, subtotal, saves, edit, charged>>

\* computeFees asks for the three groups at once; the answers come one by one.
ReadSettings(g) ==
  /\ visit.pc = "price" /\ g \in visit.unread
  /\ visit' = [visit EXCEPT !.read[g] = settings[g], !.unread = @ \ {g},
                            !.same = saves = visit.seen]
  /\ UNCHANGED <<settings, subtotal, saves, edit, charged>>

\* What the customer agreed to: the total, and the fees they chose.
Expected == visit.total + (IF visit.online THEN 0 ELSE visit.codFee)
            + (IF visit.optional THEN visit.extra ELSE 0)

Difference(a, b) == IF a > b THEN a - b ELSE b - a

\* expectedTotal may be left out: then nothing is compared.
AsExpected(total, expected) == visit.expects => Difference(total, expected) <= Tolerance

ChargeOrder ==
  LET total == GrandTotal(visit.read, visit.subtotal, visit.online, visit.optional) IN
  /\ visit.pc = "price" /\ visit.unread = {}
  /\ visit' = NoVisit
  /\ charged' = IF CanPrice(visit.read, visit.subtotal) /\ AsExpected(total, Expected)
                THEN total ELSE charged
  /\ UNCHANGED <<settings, subtotal, saves, edit>>

PricingNext ==
  \/ \E a \in Admins : UpdateDeliverySettings(a) \/ UpdateTaxSettings(a)
                       \/ UpdatePaymentSettings(a) \/ SaveSettings(a)
  \/ ChangeSubtotal
  \/ SeeCheckout \/ SeePaymentMethods \/ AskForOrder
  \/ \E g \in Groups : ReadSettings(g)
  \/ ChargeOrder

PricingSpec == PricingInit /\ [][PricingNext]_pricingVars

-----------------------------------------------------------------------------
(* Properties *)

\* A customer whom no save disturbed between what checkout and payment methods
\* showed and the last read for the order is charged to the paisa what those add up
\* to, and is not turned away, though place-order computes the fees anew, from
\* other reads and with the options chosen, and whether or not it is sent a total.
Undisturbed == visit.told /\ visit.same

ChargedAsShown == [][ChargeOrder /\ Undisturbed => charged' = Expected]_pricingVars

\* However settings requests overlap, no settings are ever saved with which
\* every checkout would fail.
SettingsStayUsable == \A amount \in Subtotals : CanPrice(settings, amount)
=============================================================================
