----------------------------- MODULE ShopProofs ------------------------------
(***************************************************************************)
(* The services around an order, for every value of their constants.       *)
(*   Discounts: a card's rows add up to its balance, an order's price is   *)
(*   its total, its rebate and what cards gave, a promotion exceeds its    *)
(*   limit only by the uses counted beside another checkout about to       *)
(*   record one.                                                           *)
(*   Bookings: a slot is booked twice only after two clerks had found it   *)
(*   free together or a status was written on an old read, and only the    *)
(*   latter refunds a booking twice.                                       *)
(*   Webhooks: an endpoint takes an event once, but for the blurs the      *)
(*   property names.                                                       *)
(*   Offline queue: an accepted operation is carried out, dropped, or kept *)
(*   in the list and in storage, and one that failed waits for something.  *)
(* The parts share no state: each theorem about one is one about the shop. *)
(***************************************************************************)
EXTENDS MCShop, InventoryProofs, SequenceTheorems

-----------------------------------------------------------------------------
(* Discounts. *)

Money    == [balance : 0..FaceValue, status : {"none", "active", "disabled", "exhausted"}]
Sessions == [at : Steps, left : SUBSET Cards, card : Cards \cup {NoCard}, asked : Nat,
             remaining : Nat, given : Nat, rebate : 0..Due]

(* A card that was never issued is empty. *)
Unissued == \A c \in Cards : card[c].status = "none" => card[c].balance = 0 /\ c \notin unlisted

(* What a checkout still has to pay, at every step of it. *)
Balances(r) ==
  LET k == checkout[r] IN
  /\ k.at = "idle" => k.given = 0 /\ charged[r] = -1
  /\ k.at # "idle" => k.remaining + k.given + k.rebate = Due
  /\ k.at \in {"cards", "debit", "pay", "create"} => charged[r] = -1
  /\ charged[r] \in {-1, k.remaining}
  /\ k.at = "debit" => k.card \in Cards /\ k.asked <= k.remaining

PriceTotals == \A r \in Checkouts : Balances(r)

(* Whoever is about to record a use leaves room for it. *)
RoomLeft ==
  (\E r \in Checkouts : checkout[r].at = "insert") => uses < UsageLimit + miscounts

DiscountInv ==
  DiscountTypeOK /\ Unissued /\ RowsExplainBalance /\ PriceTotals /\ RoomLeft /\ UsesWithinLimit

-----------------------------------------------------------------------------
LEMMA DiscountInitially == DiscountInit => DiscountInv
<1> SUFFICES ASSUME DiscountInit PROVE DiscountInv
  OBVIOUS
<1>1. DiscountTypeOK
  BY DiscountAssumption DEF DiscountInit, DiscountTypeOK, Steps
<1>2. Unissued /\ RowsExplainBalance
  BY DEF DiscountInit, Unissued, RowsExplainBalance
<1>3. PriceTotals /\ RoomLeft
  <2>1. \A r \in Checkouts :
          checkout[r].at = "idle" /\ checkout[r].given = 0 /\ charged[r] = -1
    BY DEF DiscountInit
  <2> QED
    BY <2>1 DEF PriceTotals, Balances, RoomLeft
<1>4. UsesWithinLimit
  BY DiscountAssumption DEF DiscountInit, UsesWithinLimit
<1> QED
  BY <1>1, <1>2, <1>3, <1>4 DEF DiscountInv

(* An adjustment stays between nothing and the face value.                 *)
LEMMA Clamped ==
  ASSUME NEW n \in Int
  PROVE  Most(0, Least(FaceValue, n)) \in 0..FaceValue
BY DiscountAssumption DEF Most, Least

(* A step of staff: cards move, checkouts do not. *)
LEMMA CardSteps ==
  ASSUME DiscountInv, NEW c \in Cards,
         IssueCard(c) \/ RecordIssue(c) \/ AdjustCard(c) \/ DisableCard(c)
  PROVE  DiscountInv'
<1> USE DiscountAssumption DEF DiscountInv, DiscountTypeOK
<1>1. UNCHANGED <<uses, checkout, charged, miscounts>>
  BY DEF IssueCard, RecordIssue, AdjustCard, DisableCard
<1>2. PriceTotals' /\ RoomLeft' /\ UsesWithinLimit'
  BY <1>1 DEF PriceTotals, Balances, RoomLeft, UsesWithinLimit
<1>3. DiscountTypeOK' /\ Unissued' /\ RowsExplainBalance'
  <2>1. CASE IssueCard(c)
    <3>1. card'[c] = [balance |-> FaceValue, status |-> "active"]
          /\ card[c].balance = 0 /\ c \notin unlisted
          /\ \A d \in Cards \ {c} : card'[d] = card[d]
      BY <2>1 DEF IssueCard, Unissued
    <3>2. card' \in [Cards -> Money]
      BY <2>1 DEF IssueCard, Money
    <3>3. recorded[c] = 0
      BY <3>1 DEF RowsExplainBalance
    <3>4. DiscountTypeOK'
      BY <1>1, <2>1, <3>2 DEF IssueCard, Money
    <3> QED
      BY <2>1, <3>1, <3>3, <3>4 DEF IssueCard, Unissued, RowsExplainBalance
  <2>2. CASE RecordIssue(c)
    BY <1>1, <2>2 DEF RecordIssue, Unissued, RowsExplainBalance
  <2>3. CASE AdjustCard(c)
    <3>1. PICK change \in Deltas :
            /\ card[c].status # "none"
            /\ Balanced(c, Most(0, Least(FaceValue, card[c].balance + change)))
            /\ recorded' = [recorded EXCEPT ![c] = @ + DeltaMade(c, change)]
      BY <2>3 DEF AdjustCard
    <3> DEFINE n == Most(0, Least(FaceValue, card[c].balance + change))
    <3>2. n \in 0..FaceValue
      BY Clamped
    <3> HIDE DEF n
    <3>3. /\ card' = [card EXCEPT ![c] = [balance |-> n,
                                          status |-> IF n = 0 THEN "exhausted" ELSE "active"]]
          /\ recorded' = [recorded EXCEPT ![c] = @ + (n - card[c].balance)]
      BY <3>1 DEF n, Balanced, DeltaMade
    <3>a. UNCHANGED unlisted /\ adjusts' \in 0..MaxAdjusts
      BY <2>3 DEF AdjustCard
    <3>4. /\ card'[c].balance = n /\ card'[c].status # "none"
          /\ recorded'[c] = recorded[c] + (n - card[c].balance)
          /\ \A d \in Cards \ {c} : card'[d] = card[d] /\ recorded'[d] = recorded[d]
      BY <3>3
    <3>5. card' \in [Cards -> Money] /\ recorded' \in [Cards -> Int]
      BY <3>2, <3>3 DEF Money
    <3>6. DiscountTypeOK'
      BY <1>1, <3>3, <3>a, <3>5 DEF Money
    <3>7. RowsExplainBalance'
      BY <3>2, <3>3, <3>a, <3>4 DEF RowsExplainBalance
    <3> QED
      BY <3>3, <3>a, <3>4, <3>6, <3>7 DEF Unissued
  <2>4. CASE DisableCard(c)
    <3>1. /\ card'[c].balance = card[c].balance /\ card'[c].status # "none"
          /\ \A d \in Cards \ {c} : card'[d] = card[d]
          /\ UNCHANGED <<recorded, unlisted>> /\ adjusts' \in 0..MaxAdjusts
      BY <2>4 DEF DisableCard
    <3>2. card' \in [Cards -> Money]
      BY <2>4 DEF DisableCard, Money
    <3>3. DiscountTypeOK'
      BY <1>1, <3>1, <3>2 DEF Money
    <3> QED
      BY <3>1, <3>3 DEF Unissued, RowsExplainBalance
  <2> QED
    BY <2>1, <2>2, <2>3, <2>4
<1> QED
  BY <1>2, <1>3

-----------------------------------------------------------------------------
(* One checkout's session becomes s; the others keep theirs. *)
Becomes(r, s) == checkout' = [checkout EXCEPT ![r] = s]

(* A step of a checkout that moves no card, no use and no order.           *)
LEMMA SessionStep ==
  ASSUME DiscountInv, NEW r \in Checkouts, NEW s \in Sessions, Becomes(r, s),
         UNCHANGED <<card, recorded, unlisted, uses, charged, miscounts, adjusts>>,
         s.at = "insert" => uses < UsageLimit,
         s.at # "idle" /\ s.remaining + s.given + s.rebate = Due,
         charged[r] # -1 => s.at \in {"placed", "failed", "count", "insert"}
                            /\ s.remaining = checkout[r].remaining,
         s.at = "debit" => s.card \in Cards /\ s.asked <= s.remaining
  PROVE  DiscountInv'
<1> USE DiscountAssumption DEF DiscountInv, DiscountTypeOK
<1>1. checkout'[r] = s /\ \A q \in Checkouts \ {r} : checkout'[q] = checkout[q]
  BY DEF Becomes
<1>2. checkout' \in [Checkouts -> Sessions]
  BY DEF Becomes, Sessions
<1>3. DiscountTypeOK'
  BY <1>2 DEF Sessions
<1>4. Unissued' /\ RowsExplainBalance' /\ UsesWithinLimit'
  BY DEF Unissued, RowsExplainBalance, UsesWithinLimit
<1>5. PriceTotals'
  BY <1>1 DEF PriceTotals, Balances
<1>6. RoomLeft'
  BY <1>1 DEF RoomLeft
<1> QED
  BY <1>3, <1>4, <1>5, <1>6

(* Steps that only move a session: to the cards, past one, to the payment, *)
(* to the order or to failure.                                             *)
LEMMA SessionSteps ==
  ASSUME DiscountInv, NEW r \in Checkouts,
         \/ ApplyPromotion(r) \/ CheckBalance(r) \/ CardsDone(r) \/ Authorize(r) \/ CountUses(r)
  PROVE  DiscountInv'
<1> DEFINE k == checkout[r]
<1>0. /\ k \in Sessions /\ checkout \in [Checkouts -> Sessions]
      /\ UNCHANGED <<card, recorded, unlisted, uses, charged, miscounts, adjusts>>
      /\ Balances(r)
  BY DEF DiscountInv, DiscountTypeOK, Sessions, ApplyPromotion, CheckBalance, CardsDone,
         Authorize, CountUses, PriceTotals
<1>1. CASE ApplyPromotion(r)
  <2>1. PICK rebate \in {0, Rebate} :
          checkout' = [checkout EXCEPT ![r].at = "cards", ![r].rebate = rebate,
                                       ![r].remaining = Due - rebate]
    BY <1>1 DEF ApplyPromotion
  <2> DEFINE s == [k EXCEPT !.at = "cards", !.rebate = rebate, !.remaining = Due - rebate]
  <2>2. Becomes(r, s) /\ k.at = "idle"
    BY <1>0, <1>1, <2>1 DEF Becomes, ApplyPromotion, At
  <2>3. /\ s \in Sessions /\ s.at = "cards" /\ s.remaining + s.given + s.rebate = Due
        /\ charged[r] = -1
    <3>1. rebate \in 0..Due /\ Due - rebate \in Nat /\ Due - rebate + 0 + rebate = Due
      BY DiscountAssumption
    <3>2. k.given = 0 /\ charged[r] = -1
      BY <1>0, <2>2 DEF Balances
    <3> QED
      BY <1>0, <3>1, <3>2 DEF Sessions, Steps
  <2> HIDE DEF s
  <2> QED
    BY <1>0, <2>2, <2>3, SessionStep
<1>2. CASE CheckBalance(r)
  <2>1. PICK c \in k.left :
          /\ k.at = "cards"
          /\ checkout' = [checkout EXCEPT
               ![r] = IF card[c].status = "none" \/ Least(k.remaining, card[c].balance) = 0
                      THEN [k EXCEPT !.left = @ \ {c}]
                      ELSE [k EXCEPT !.left = @ \ {c}, !.at = "debit", !.card = c,
                                     !.asked = Least(k.remaining, card[c].balance)]]
    BY <1>2 DEF CheckBalance, At
  <2> DEFINE amount == Least(k.remaining, card[c].balance)
             skip   == [k EXCEPT !.left = @ \ {c}]
             debit  == [k EXCEPT !.left = @ \ {c}, !.at = "debit", !.card = c, !.asked = amount]
  <2>2. amount \in Nat /\ amount <= k.remaining /\ c \in Cards
    BY <1>0 DEF Least, Sessions, DiscountInv, DiscountTypeOK
  <2>3. /\ charged[r] = -1 /\ k.remaining + k.given + k.rebate = Due
    BY <1>0, <2>1 DEF Balances
  <2>4. skip \in Sessions /\ skip.at = "cards" /\ skip.remaining + skip.given + skip.rebate = Due
    BY <1>0, <2>1, <2>3 DEF Sessions
  <2>5. /\ debit \in Sessions /\ debit.at = "debit"
        /\ debit.remaining + debit.given + debit.rebate = Due
        /\ debit.card \in Cards /\ debit.asked <= debit.remaining
    BY <1>0, <2>1, <2>2, <2>3 DEF Sessions, Steps
  <2>6. Becomes(r, skip) \/ Becomes(r, debit)
    <3>1. checkout' = [checkout EXCEPT
            ![r] = IF card[c].status = "none" \/ amount = 0 THEN skip ELSE debit]
      BY <2>1
    <3> HIDE DEF skip, debit, amount
    <3> QED
      BY <3>1 DEF Becomes
  <2> HIDE DEF skip, debit, amount
  <2> QED
    BY <1>0, <2>3, <2>4, <2>5, <2>6, SessionStep
<1>3. ASSUME NEW step \in Steps, Goto(r, step),
             k.at # "idle" /\ step \notin {"idle", "debit"},
             step = "insert" => uses < UsageLimit,
             charged[r] # -1 => step \in {"placed", "failed", "count", "insert"}
      PROVE  DiscountInv'
  <2> DEFINE s == [k EXCEPT !.at = step]
  <2>1. Becomes(r, s)
    BY <1>0, <1>3 DEF Becomes, Goto
  <2>2. /\ s \in Sessions /\ s.at = step /\ s.remaining = k.remaining
        /\ s.remaining + s.given + s.rebate = Due
    BY <1>0, <1>3 DEF Sessions, Balances
  <2> HIDE DEF s
  <2> QED
    BY <1>0, <1>3, <2>1, <2>2, SessionStep
<1>4. CASE CardsDone(r)
  BY <1>0, <1>3, <1>4 DEF CardsDone, At, Steps, Balances
<1>5. CASE Authorize(r)
  BY <1>0, <1>3, <1>5 DEF Authorize, At, Steps, Balances
<1>6. CASE CountUses(r)
  <2>1. CASE uses >= UsageLimit
    BY <1>0, <1>3, <1>6, <2>1 DEF CountUses, At, Steps
  <2>2. CASE ~(uses >= UsageLimit)
    <3>1. uses < UsageLimit
      BY <2>2, DiscountAssumption DEF DiscountInv, DiscountTypeOK
    <3> QED
      BY <1>0, <1>3, <1>6, <2>2, <3>1 DEF CountUses, At, Steps
  <2> QED
    BY <2>1, <2>2
<1> QED
  BY <1>1, <1>2, <1>4, <1>5, <1>6

(* The debit: what the card gives is what the total loses.                 *)
LEMMA DebitStep ==
  ASSUME DiscountInv, NEW r \in Checkouts, DebitCard(r)
  PROVE  DiscountInv'
<1> DEFINE k == checkout[r]
           c == k.card
           got == IF Debitable(c, k.asked) THEN k.asked ELSE 0
           s == [k EXCEPT !.at = "cards", !.card = NoCard, !.asked = 0,
                          !.remaining = @ - got, !.given = @ + got]
<1>1. /\ k \in Sessions /\ checkout \in [Checkouts -> Sessions] /\ k.at = "debit"
      /\ UNCHANGED <<unlisted, uses, charged, miscounts, adjusts>>
      /\ Balances(r)
  BY DEF DiscountInv, DiscountTypeOK, Sessions, DebitCard, At, PriceTotals
<1>2. got \in Nat /\ got <= k.remaining /\ c \in Cards
  BY <1>1 DEF Sessions, Balances
<1>3. checkout' = [checkout EXCEPT ![r] = s]
  BY <1>1 DEF DebitCard, CountDebit
<1>4. /\ s \in Sessions /\ s.at = "cards" /\ s.remaining + s.given + s.rebate = Due
      /\ charged[r] = -1
  <2> HIDE DEF got
  <2>1. k.remaining - got \in Nat /\ k.given + got \in Nat
    BY <1>1, <1>2 DEF Sessions
  <2> QED
    <3>1. (k.remaining - got) + (k.given + got) + k.rebate = Due /\ charged[r] = -1
      BY <1>1, <1>2 DEF Sessions, Balances
    <3> QED
      BY <1>1, <2>1, <3>1 DEF Sessions, Steps
<1> HIDE DEF s
<1>5. /\ checkout'[r] = s /\ \A q \in Checkouts \ {r} : checkout'[q] = checkout[q]
      /\ checkout' \in [Checkouts -> Sessions]
  BY <1>1, <1>3, <1>4
<1>6. PriceTotals' /\ RoomLeft' /\ UsesWithinLimit'
  BY <1>1, <1>4, <1>5 DEF DiscountInv, PriceTotals, Balances, RoomLeft, UsesWithinLimit
<1>7. /\ card' \in [Cards -> Money] /\ recorded' \in [Cards -> Int]
      /\ Unissued' /\ RowsExplainBalance'
  <2> USE DEF DiscountInv, DiscountTypeOK
  <2>1. CASE Debitable(c, k.asked)
    <3> DEFINE n == card[c].balance - k.asked
    <3>1. n \in 0..FaceValue
      BY <1>1, <1>2, <2>1, DiscountAssumption DEF Debitable, Sessions
    <3>2. /\ card' = [card EXCEPT ![c] = [balance |-> n,
                                          status |-> IF n = 0 THEN "exhausted" ELSE "active"]]
          /\ recorded' = [recorded EXCEPT ![c] = @ - k.asked]
      BY <2>1 DEF DebitCard, Balanced
    <3>3. /\ card'[c].balance = card[c].balance - k.asked /\ card'[c].status # "none"
          /\ recorded'[c] = recorded[c] - k.asked
          /\ \A d \in Cards \ {c} : card'[d] = card[d] /\ recorded'[d] = recorded[d]
      BY <1>2, <3>2
    <3>4. card' \in [Cards -> Money] /\ recorded' \in [Cards -> Int]
      BY <1>1, <1>2, <3>1, <3>2 DEF Money, Sessions
    <3>5. Unissued'
      BY <1>1, <3>3 DEF Unissued
    <3>6. RowsExplainBalance'
      BY <1>1, <1>2, <3>3, DiscountAssumption DEF RowsExplainBalance, Sessions
    <3> QED
      BY <3>4, <3>5, <3>6
  <2>2. CASE ~Debitable(c, k.asked)
    <3>1. UNCHANGED <<card, recorded>>
      BY <2>2 DEF DebitCard
    <3> QED
      BY <1>1, <3>1 DEF Money, Unissued, RowsExplainBalance
  <2> QED
    BY <2>1, <2>2
<1>8. DiscountTypeOK'
  BY <1>1, <1>5, <1>7 DEF DiscountInv, DiscountTypeOK, Money, Sessions
<1> QED
  BY <1>6, <1>7, <1>8 DEF DiscountInv

(* The order takes what remains for its total; a use is recorded in the    *)
(* room that was left for it.                                              *)
LEMMA OrderSteps ==
  ASSUME DiscountInv, NEW r \in Checkouts, CreateOrder(r) \/ InsertUse(r)
  PROVE  DiscountInv'
<1> USE DiscountAssumption
<1> DEFINE k == checkout[r]
<1>1. /\ k \in Sessions /\ checkout \in [Checkouts -> Sessions]
      /\ UNCHANGED <<card, recorded, unlisted, adjusts>> /\ Balances(r)
  BY DEF DiscountInv, DiscountTypeOK, Sessions, CreateOrder, InsertUse, PriceTotals
<1>2. Unissued' /\ RowsExplainBalance'
  BY <1>1 DEF DiscountInv, Unissued, RowsExplainBalance
<1>3. ASSUME NEW step \in Steps, Goto(r, step)
      PROVE  /\ checkout' \in [Checkouts -> Sessions]
             /\ checkout'[r].at = step /\ checkout'[r].remaining = k.remaining
             /\ checkout'[r].given = k.given /\ checkout'[r].rebate = k.rebate
             /\ \A q \in Checkouts \ {r} : checkout'[q] = checkout[q]
  <2> DEFINE s == [k EXCEPT !.at = step]
  <2>1. checkout' = [checkout EXCEPT ![r] = s]
    BY <1>1, <1>3 DEF Goto
  <2>2. /\ s \in Sessions /\ s.at = step /\ s.remaining = k.remaining
        /\ s.given = k.given /\ s.rebate = k.rebate
    BY <1>1 DEF Sessions
  <2> HIDE DEF s
  <2> QED
    BY <1>1, <2>1, <2>2
<1>4. CASE CreateOrder(r)
  <2>1. UNCHANGED <<uses, miscounts>> /\ k.at = "create" /\ charged[r] = -1
    BY <1>1, <1>4 DEF CreateOrder, At, Balances
  <2>2. CASE Goto(r, "failed") /\ UNCHANGED charged
    <3>1. /\ checkout' \in [Checkouts -> Sessions]
          /\ checkout'[r].at = "failed" /\ checkout'[r].remaining = k.remaining
          /\ checkout'[r].given = k.given /\ checkout'[r].rebate = k.rebate
          /\ \A q \in Checkouts \ {r} : checkout'[q] = checkout[q]
      BY <1>3, <2>2 DEF Steps
    <3>2. DiscountTypeOK'
      BY <1>1, <2>1, <2>2, <3>1 DEF DiscountInv, DiscountTypeOK, Sessions
    <3>3. PriceTotals' /\ RoomLeft' /\ UsesWithinLimit'
      BY <2>1, <2>2, <3>1 DEF DiscountInv, PriceTotals, Balances, RoomLeft, UsesWithinLimit
    <3> QED
      BY <1>2, <3>2, <3>3 DEF DiscountInv
  <2>3. CASE charged' = [charged EXCEPT ![r] = k.remaining]
             /\ \E step \in {"count", "placed"} : Goto(r, step)
    <3>1. PICK step \in {"count", "placed"} : Goto(r, step)
      BY <2>3
    <3>2. /\ checkout' \in [Checkouts -> Sessions]
          /\ checkout'[r].at = step /\ checkout'[r].remaining = k.remaining
          /\ checkout'[r].given = k.given /\ checkout'[r].rebate = k.rebate
          /\ \A q \in Checkouts \ {r} : checkout'[q] = checkout[q]
      BY <1>3, <3>1 DEF Steps
    <3>3. /\ charged' \in [Checkouts -> Nat \cup {-1}] /\ charged'[r] = k.remaining
          /\ \A q \in Checkouts \ {r} : charged'[q] = charged[q]
      BY <1>1, <2>3 DEF DiscountInv, DiscountTypeOK, Sessions
    <3>4. DiscountTypeOK'
      BY <1>1, <2>1, <3>2, <3>3 DEF DiscountInv, DiscountTypeOK, Sessions
    <3>5. PriceTotals' /\ RoomLeft' /\ UsesWithinLimit'
      BY <2>1, <3>2, <3>3 DEF DiscountInv, PriceTotals, Balances, RoomLeft, UsesWithinLimit
    <3> QED
      BY <1>2, <3>4, <3>5 DEF DiscountInv
  <2> QED
    BY <1>4, <2>2, <2>3 DEF CreateOrder
<1>5. CASE InsertUse(r)
  <2>1. /\ UNCHANGED charged /\ k.at = "insert" /\ uses' = uses + 1
        /\ miscounts' = IF \E q \in Checkouts \ {r} : At(q, "insert")
                        THEN miscounts + 1 ELSE miscounts
    BY <1>5 DEF InsertUse, At
  <2>2. /\ checkout' \in [Checkouts -> Sessions]
        /\ checkout'[r].at = "placed" /\ checkout'[r].remaining = k.remaining
        /\ checkout'[r].given = k.given /\ checkout'[r].rebate = k.rebate
        /\ \A q \in Checkouts \ {r} : checkout'[q] = checkout[q]
    BY <1>3, <1>5 DEF InsertUse, Steps
  <2>3. uses \in Nat /\ miscounts \in Nat /\ uses < UsageLimit + miscounts
    BY <2>1 DEF DiscountInv, DiscountTypeOK, RoomLeft
  <2>4. DiscountTypeOK'
    BY <1>1, <2>1, <2>2 DEF DiscountInv, DiscountTypeOK, Sessions
  <2>5. PriceTotals'
    BY <2>1, <2>2 DEF DiscountInv, PriceTotals, Balances
  <2>6. UsesWithinLimit'
    BY <2>1, <2>3 DEF UsesWithinLimit
  <2>7. RoomLeft'
    <3>1. CASE \E q \in Checkouts \ {r} : At(q, "insert")
      BY <2>1, <2>3, <3>1 DEF RoomLeft
    <3>2. CASE ~\E q \in Checkouts \ {r} : At(q, "insert")
      BY <2>2, <3>2 DEF RoomLeft, At
    <3> QED
      BY <3>1, <3>2
  <2> QED
    BY <1>2, <2>4, <2>5, <2>6, <2>7 DEF DiscountInv
<1> QED
  BY <1>4, <1>5

-----------------------------------------------------------------------------
(* Balances agree with their rows, what a checkout has asked and been given*)
(* with what it has still to pay, and recorded uses with the counts made.  *)
THEOREM DiscountInvariant == DiscountSpec => []DiscountInv
<1>1. ASSUME DiscountInv, [DiscountNext]_discountVars
      PROVE  DiscountInv'
  <2>1. CASE UNCHANGED discountVars
    BY <1>1, <2>1 DEF discountVars, DiscountInv, DiscountTypeOK, Unissued, RowsExplainBalance,
                      PriceTotals, Balances, RoomLeft, UsesWithinLimit
  <2> QED
    BY <1>1, <2>1, CardSteps, SessionSteps, DebitStep, OrderSteps DEF DiscountNext
<1> QED
  BY DiscountInitially, <1>1, PTL DEF DiscountSpec

(* A card's balance is what its transaction rows add up to, once its first *)
(* row is written: no clamp, race or disabling parts them.                 *)
THEOREM RowsExplainBalanceAlways == DiscountSpec => []RowsExplainBalance
<1>1. DiscountInv => RowsExplainBalance
  BY DEF DiscountInv
<1> QED
  BY <1>1, DiscountInvariant, PTL

(* What an order charges, what its cards gave and its rebate make up its   *)
(* price, however many checkouts draw on one card.                         *)
THEOREM PriceIsPaidAlways == DiscountSpec => []PriceIsPaid
<1>1. DiscountInv => PriceIsPaid
  <2> SUFFICES ASSUME DiscountInv, NEW r \in Checkouts, charged[r] # -1
               PROVE  charged[r] + checkout[r].given + checkout[r].rebate = Due
    BY DEF PriceIsPaid
  <2> QED
    BY DEF DiscountInv, PriceTotals, Balances
<1> QED
  BY <1>1, DiscountInvariant, PTL

(* A promotion's limit is exceeded by no more than the uses recorded while *)
(* another checkout had counted and not yet recorded its own.              *)
THEOREM UsesWithinLimitAlways == DiscountSpec => []UsesWithinLimit
<1>1. DiscountInv => UsesWithinLimit
  BY DEF DiscountInv
<1> QED
  BY <1>1, DiscountInvariant, PTL

-----------------------------------------------------------------------------
(* Bookings. *)

Calls == [call : Asked \cup {"none"},
          at : {"idle", "check", "insert", "read", "write", "refund", "settle"},
          booking : Bookings \cup {NoBooking}, slot : Slots \cup {0},
          target : Statuses \cup {"none"}, seen : Statuses \cup {"none"}]

(* What a call knows at its steps: whom it will write, and to what. *)
Knows(c) ==
  /\ clerk[c].at # "idle" => clerk[c].slot \in Slots
  /\ clerk[c].at \in {"read", "write", "refund", "settle"} =>
       clerk[c].booking \in Bookings /\ status[clerk[c].booking] # "none"
  /\ clerk[c].at \in {"read", "write"} =>
       /\ clerk[c].target \in Statuses
       /\ clerk[c].call = "cancel" => clerk[c].target = "cancelled"
  /\ clerk[c].at = "write" => clerk[c].seen \in {"provisional", "confirmed"}

Known == \A c \in Clerks : Knows(c)

(* A clerk about to insert has found the slot free, or no longer alone. *)
FreeSlot ==
  \A c \in Clerks, b \in Bookings :
    clerk[c].at = "insert" /\ Active(b) /\ slot[b] = clerk[c].slot
      => clerk[c].slot \in together \/ b \in staleWrites

(* The one who cancelled a booking refunds it. *)
OneRefund ==
  \A b \in Bookings \ staleWrites :
    /\ refunds[b] \in {0, 1}
    /\ refunds[b] = 1 => status[b] = "cancelled"
    /\ \A c \in Clerks :
         clerk[c].at = "refund" /\ clerk[c].booking = b
           => /\ status[b] = "cancelled" /\ refunds[b] = 0
              /\ \A d \in Clerks :
                   clerk[d].at = "refund" /\ clerk[d].booking = b => d = c

BookingInv == BookingTypeOK /\ Known /\ FreeSlot /\ NoDoubleBooking /\ OneRefund

-----------------------------------------------------------------------------
LEMMA BookingInitially == BookingInit => BookingInv
<1> SUFFICES ASSUME BookingInit PROVE BookingInv
  OBVIOUS
<1>1. BookingTypeOK
  BY BookingAssumption DEF BookingInit, BookingTypeOK, NoCall, NewCall, Statuses, Asked
<1>2. /\ \A b \in Bookings : status[b] = "none" /\ refunds[b] = 0
      /\ \A c \in Clerks : clerk[c].at = "idle"
  BY DEF BookingInit, NoCall, NewCall
<1> QED
  BY <1>1, <1>2 DEF BookingInv, Known, Knows, FreeSlot, NoDoubleBooking, OneRefund, Active

(* Only a booking that is provisional or confirmed has a next status.      *)
LEMMA NextStatuses ==
  ASSUME NEW s, NEW t \in transitions(s)
  PROVE  s \in {"provisional", "confirmed"} /\ t \in Statuses
BY DEF transitions, Statuses

LEMMA OwnSlotConflicts ==
  ASSUME NEW s \in Slots
  PROVE  Conflicts(s, s)
BY BookingAssumption DEF Conflicts

(* Whatever a step does to one clerk's call, the others keep theirs. *)
Others(c) == \A d \in Clerks \ {c} : clerk'[d] = clerk[d]

-----------------------------------------------------------------------------
LEMMA BookingTypeKept ==
  ASSUME BookingInv, [BookingNext]_bookingVars
  PROVE  BookingTypeOK'
<1> USE BookingAssumption DEF BookingInv, BookingTypeOK, NoCall, NewCall, rowVars, Finish, To,
                             ToStatus, Stage, Knows
<1>1. CASE UNCHANGED bookingVars
  BY <1>1 DEF bookingVars
<1>2. ASSUME NEW c \in Clerks, AskCreate(c)
      PROVE  BookingTypeOK'
  <2>1. PICK s \in Slots :
          clerk' = [clerk EXCEPT ![c] = NewCall("create", "check", NoBooking, s, "none")]
    BY <1>2 DEF AskCreate
  <2>2. clerk' \in [Clerks -> Calls]
    BY <2>1 DEF Asked, Calls
  <2>3. calls' \in 0..MaxBookingCalls
    BY <1>2 DEF AskCreate, Call
  <2> QED
    BY <1>2, <2>2, <2>3 DEF AskCreate, Calls
<1>3. ASSUME NEW c \in Clerks, AskChange(c)
      PROVE  BookingTypeOK'
  <2>1. PICK b \in Bookings, call \in Asked \ {"create"}, s \in Slots :
          clerk' = [clerk EXCEPT ![c] = NewCall(call, "read", b, s, Target(call))]
    <3> HIDE DEF BookingInv, BookingTypeOK, NewCall, Stage
    <3> QED
      BY <1>3 DEF AskChange
  <2>2. Target(call) \in Statuses
    BY DEF Target, Statuses
  <2>3. clerk' \in [Clerks -> Calls]
    BY <2>1, <2>2 DEF Calls
  <2>4. calls' \in 0..MaxBookingCalls
    BY <1>3 DEF AskChange, Call
  <2> QED
    BY <1>3, <2>3, <2>4 DEF AskChange, Calls
<1>4. ASSUME NEW c \in Clerks, CheckSlot(c)
      PROVE  BookingTypeOK'
  BY <1>4 DEF CheckSlot
<1>5. ASSUME NEW c \in Clerks, InsertBooking(c)
      PROVE  BookingTypeOK'
  <2>1. clerk[c].slot \in Slots
    BY <1>5 DEF InsertBooking, Known
  <2>2. together' \subseteq Slots
    <3> HIDE DEF BookingTypeOK
    <3>1. \A d \in Clerks : clerk[d].at = "insert" => clerk[d].slot \in Slots
      BY DEF Known
    <3>2. together' = together \cup
            {clerk[d].slot : d \in {e \in Clerks \ {c} :
               clerk[e].at = "insert" /\ Conflicts(clerk[e].slot, clerk[c].slot)}}
      BY <1>5 DEF InsertBooking
    <3>3. together \subseteq Slots
      BY DEF BookingTypeOK
    <3> QED
      BY <3>1, <3>2, <3>3
  <2>3. PICK b \in Bookings :
          /\ status'  = [status EXCEPT ![b] = "provisional"]
          /\ slot'    = [slot EXCEPT ![b] = clerk[c].slot]
          /\ payment' = [payment EXCEPT ![b] = IF ByCard THEN "pending" ELSE "none"]
    BY <1>5 DEF InsertBooking
  <2>4. /\ status' \in [Bookings -> Statuses \cup {"none"}]
        /\ slot' \in [Bookings -> Slots \cup {0}]
        /\ payment' \in [Bookings -> {"none", "pending", "refunded"}]
    BY <2>1, <2>3 DEF Statuses
  <2> QED
    BY <1>5, <2>2, <2>4 DEF InsertBooking
<1>6. ASSUME NEW c \in Clerks, ReadStatus(c)
      PROVE  BookingTypeOK'
  <2>1. clerk[c].booking \in Bookings /\ status[clerk[c].booking] \in Statuses \cup {"none"}
    BY <1>6 DEF ReadStatus, Known
  <2> QED
    BY <1>6, <2>1 DEF ReadStatus, Statuses
<1>7. ASSUME NEW c \in Clerks, WriteStatus(c)
      PROVE  BookingTypeOK'
  <2>1. clerk[c].booking \in Bookings /\ clerk[c].target \in Statuses
    BY <1>7 DEF WriteStatus, Known
  <2> QED
    BY <1>7, <2>1 DEF WriteStatus, GoOn, Statuses
<1>8. ASSUME NEW c \in Clerks, RefundBooking(c)
      PROVE  BookingTypeOK'
  BY <1>8 DEF RefundBooking
<1>9. ASSUME NEW c \in Clerks, SettleRefund(c)
      PROVE  BookingTypeOK'
  BY <1>9 DEF SettleRefund
<1>10. ASSUME NEW c \in Clerks, ClerkDies(c)
       PROVE  BookingTypeOK'
  BY <1>10 DEF ClerkDies
<1> QED
  BY <1>1, <1>2, <1>3, <1>4, <1>5, <1>6, <1>7, <1>8, <1>9, <1>10 DEF BookingNext

(* The other parts, after a step that takes its clerk neither before an    *)
(* insertion nor before a refund and writes no status.                     *)
Aside(c) ==
  /\ UNCHANGED <<status, slot, refunds, together, staleWrites>>
  /\ Others(c)
  /\ clerk'[c].at \notin {"insert", "refund"}
  /\ Knows(c)'

Rest == Known /\ FreeSlot /\ NoDoubleBooking /\ OneRefund

LEMMA AsideKept ==
  ASSUME BookingInv, NEW c \in Clerks, Aside(c)
  PROVE  Rest'
<1>1. Known'
  BY DEF BookingInv, Known, Knows, Aside, Others
<1>2. FreeSlot' /\ NoDoubleBooking'
  BY DEF BookingInv, FreeSlot, NoDoubleBooking, Active, Aside, Others
<1>3. OneRefund'
  BY DEF BookingInv, OneRefund, Aside, Others
<1> QED
  BY <1>1, <1>2, <1>3 DEF Rest

LEMMA Asides ==
  ASSUME BookingInv, NEW c \in Clerks,
         \/ AskCreate(c) \/ AskChange(c) \/ ReadStatus(c) \/ SettleRefund(c) \/ ClerkDies(c)
  PROVE  Aside(c)
<1> USE DEF Aside, Others, rowVars
<1> clerk \in [Clerks -> Calls] /\ Knows(c)
  BY DEF BookingInv, BookingTypeOK, Known, Calls
<1>1. CASE AskCreate(c)
  <2>1. PICK s \in Slots :
          clerk' = [clerk EXCEPT ![c] = NewCall("create", "check", NoBooking, s, "none")]
    BY <1>1 DEF AskCreate
  <2>2. clerk'[c] = NewCall("create", "check", NoBooking, s, "none")
    BY <2>1
  <2> QED
    BY <1>1, <2>1, <2>2 DEF AskCreate, NewCall, Knows
<1>2. CASE AskChange(c)
  <2>1. PICK b \in Bookings, call \in Asked \ {"create"}, s \in Slots :
          /\ clerk' = [clerk EXCEPT ![c] = NewCall(call, "read", b, s, Target(call))]
          /\ status[b] # "none"
    BY <1>2 DEF AskChange
  <2>2. clerk'[c] = NewCall(call, "read", b, s, Target(call))
    BY <2>1
  <2>3. Target(call) \in Statuses /\ (call = "cancel" => Target(call) = "cancelled")
    BY DEF Target, Statuses
  <2> QED
    BY <1>2, <2>1, <2>2, <2>3 DEF AskChange, NewCall, Knows
<1>3. CASE ReadStatus(c)
  <2> DEFINE k == clerk[c]
  <2>1. k.target \in transitions(status[k.booking])
          => k.target \in Statuses /\ status[k.booking] \in {"provisional", "confirmed"}
    BY NextStatuses
  <2>2. CASE clerk' = [clerk EXCEPT ![c].at = "write", ![c].seen = status[k.booking]]
             /\ k.target \in transitions(status[k.booking])
    <3>1. clerk'[c] = [k EXCEPT !.at = "write", !.seen = status[k.booking]]
      BY <2>2
    <3> QED
      BY <1>3, <2>1, <2>2, <3>1 DEF ReadStatus, Stage, Knows, Calls
  <2>3. CASE ToStatus(c, "completed") /\ k.call = "complete"
    <3>1. clerk'[c] = [k EXCEPT !.at = "read", !.target = "completed"]
      BY <2>3 DEF ToStatus
    <3> QED
      BY <1>3, <2>3, <3>1 DEF ReadStatus, Stage, ToStatus, Knows, Calls, Statuses
  <2>4. CASE Finish(c)
    BY <1>3, <2>4 DEF ReadStatus, Finish, Knows, NoCall, NewCall
  <2> QED
    BY <1>3, <2>2, <2>3, <2>4 DEF ReadStatus
<1>4. CASE SettleRefund(c)
  BY <1>4 DEF SettleRefund, Finish, Knows, NoCall, NewCall
<1>5. CASE ClerkDies(c)
  BY <1>5 DEF ClerkDies, Finish, Knows, NoCall, NewCall
<1> QED
  BY <1>1, <1>2, <1>3, <1>4, <1>5

(* The check: nobody stands in the slot, or the call ends. *)
LEMMA CheckKept ==
  ASSUME BookingInv, NEW c \in Clerks, CheckSlot(c)
  PROVE  Rest'
<1> USE DEF BookingInv, BookingTypeOK
<1>1. CASE Finish(c)
  <2>1. Aside(c)
    BY <1>1 DEF CheckSlot, Finish, Aside, Others, Knows, NoCall, NewCall, rowVars
  <2> QED
    BY <2>1, AsideKept
<1>2. CASE To(c, "insert") /\ ~Taken(clerk[c].slot)
  <2>1. /\ clerk[c].slot \in Slots
        /\ Conflicts(clerk[c].slot, clerk[c].slot)
    <3>1. clerk[c].slot \in Slots
      BY DEF CheckSlot, Stage, Known, Knows
    <3> QED
      BY <3>1, OwnSlotConflicts
  <2>2. \A b \in Bookings : Active(b) => slot[b] # clerk[c].slot
    BY <1>2, <2>1 DEF Taken
  <2>3. /\ Others(c)
        /\ clerk'[c].at = "insert" /\ clerk'[c].slot = clerk[c].slot
    BY <1>2 DEF To, Others
  <2>4. UNCHANGED <<status, slot, refunds, together, staleWrites>>
    BY DEF CheckSlot, rowVars
  <2>5. Known'
    BY <2>1, <2>3, <2>4 DEF Known, Knows, Others
  <2>6. FreeSlot' /\ NoDoubleBooking'
    BY <2>2, <2>3, <2>4 DEF FreeSlot, NoDoubleBooking, Active, Others
  <2>7. OneRefund'
    BY <2>3, <2>4 DEF OneRefund, Others
  <2> QED
    BY <2>5, <2>6, <2>7 DEF Rest
<1> QED
  BY <1>1, <1>2 DEF CheckSlot

(* The insertion: whoever else is about to insert into this slot checked   *)
(* together with this clerk.                                               *)
LEMMA InsertKept ==
  ASSUME BookingInv, NEW c \in Clerks, InsertBooking(c)
  PROVE  Rest'
<1> USE DEF BookingInv, BookingTypeOK
<1>1. PICK b \in Bookings :
        /\ status[b] = "none"
        /\ status'  = [status EXCEPT ![b] = "provisional"]
        /\ slot'    = [slot EXCEPT ![b] = clerk[c].slot]
  BY DEF InsertBooking
<1>2. /\ Others(c) /\ clerk'[c].at = "idle"
      /\ UNCHANGED <<refunds, staleWrites>> /\ together \subseteq together'
      /\ clerk[c].at = "insert"
  BY DEF InsertBooking, Finish, NoCall, NewCall, Others, Stage
<1>3. \A d \in Clerks \ {c} :
        clerk[d].at = "insert" /\ clerk[d].slot = clerk[c].slot => clerk[d].slot \in together'
  <2> SUFFICES ASSUME NEW d \in Clerks \ {c}, clerk[d].at = "insert",
                      clerk[d].slot = clerk[c].slot
               PROVE  clerk[d].slot \in together'
    OBVIOUS
  <2>1. Conflicts(clerk[d].slot, clerk[c].slot)
    <3>1. clerk[d].slot \in Slots
      BY DEF Known, Knows
    <3> QED
      BY <3>1, OwnSlotConflicts
  <2> QED
    BY <2>1 DEF InsertBooking, Stage
<1>4. \A a \in Bookings \ {b} : status'[a] = status[a] /\ slot'[a] = slot[a]
  BY <1>1
<1>5. status'[b] = "provisional" /\ slot'[b] = clerk[c].slot
  BY <1>1
<1>6. Known'
  BY <1>1, <1>2, <1>4, <1>5 DEF Known, Knows, Others
<1>7. FreeSlot'
  BY <1>2, <1>3, <1>4, <1>5 DEF FreeSlot, Active, Others
<1>8. NoDoubleBooking'
  BY <1>2, <1>4, <1>5 DEF FreeSlot, NoDoubleBooking, Active
<1>9. OneRefund'
  BY <1>1, <1>2, <1>4, <1>5 DEF OneRefund, Others
<1> QED
  BY <1>6, <1>7, <1>8, <1>9 DEF Rest

(* The status write: on a fresh read, the booking stood before, and only   *)
(* the clerk that cancels it goes on to a refund.                          *)
LEMMA WriteKept ==
  ASSUME BookingInv, NEW c \in Clerks, WriteStatus(c)
  PROVE  Rest'
<1> USE DEF BookingInv, BookingTypeOK
<1> DEFINE b == clerk[c].booking
<1>1. /\ b \in Bookings /\ clerk[c].target \in Statuses /\ clerk[c].slot \in Slots
      /\ clerk[c].call = "cancel" => clerk[c].target = "cancelled"
      /\ clerk[c].at = "write" /\ status[b] # "none"
      /\ b \notin staleWrites' => status[b] \in {"provisional", "confirmed"}
      /\ staleWrites \subseteq staleWrites' /\ staleWrites' \subseteq staleWrites \cup {b}
      /\ UNCHANGED <<slot, refunds, together>>
  BY DEF WriteStatus, Stage, Known, Knows
<1>2. /\ status'[b] = clerk[c].target
      /\ \A a \in Bookings \ {b} : status'[a] = status[a]
  BY <1>1 DEF WriteStatus
<1>3. /\ Others(c)
      /\ clerk'[c].at # "idle" => clerk'[c].booking = b /\ clerk'[c].slot = clerk[c].slot
      /\ clerk'[c].at = "refund" => clerk[c].call = "cancel"
      /\ clerk'[c].at = "read" => clerk'[c].call = "complete" /\ clerk'[c].target = "completed"
      /\ clerk'[c].at \in {"idle", "read", "refund", "check"}
  <2>1. CASE ToStatus(c, "completed") /\ clerk[c].call = "complete"
    <3>1. clerk'[c] = [clerk[c] EXCEPT !.at = "read", !.target = "completed"]
      BY <2>1 DEF ToStatus
    <3> QED
      BY <2>1, <3>1 DEF ToStatus, Others
  <2>2. CASE To(c, "refund") /\ clerk[c].call = "cancel"
    BY <2>2 DEF To, Others
  <2>3. CASE To(c, "check")
    BY <2>3 DEF To, Others
  <2>4. CASE Finish(c)
    BY <2>4 DEF Finish, NoCall, NewCall, Others
  <2> QED
    BY <2>1, <2>2, <2>3, <2>4 DEF WriteStatus, GoOn
<1>4. clerk[c].target # "none"
  BY <1>1 DEF Statuses
<1>5. Known'
  BY <1>1, <1>2, <1>3, <1>4 DEF Known, Knows, Others, Statuses
<1>6. FreeSlot' /\ NoDoubleBooking'
  BY <1>1, <1>2, <1>3 DEF FreeSlot, NoDoubleBooking, Active, Others
<1>7. OneRefund'
  BY <1>1, <1>2, <1>3 DEF OneRefund, Others
<1> QED
  BY <1>5, <1>6, <1>7 DEF Rest

LEMMA RefundKept ==
  ASSUME BookingInv, NEW c \in Clerks, RefundBooking(c)
  PROVE  Rest'
<1> USE DEF BookingInv, BookingTypeOK
<1> DEFINE b == clerk[c].booking
<1>1. b \in Bookings /\ Knows(c) /\ clerk[c].at = "refund"
      /\ UNCHANGED <<status, slot, together, staleWrites>>
  BY DEF RefundBooking, Stage, Known, Knows, rowVars
<1>2. CASE Finish(c) /\ UNCHANGED refunds
  <2>1. Aside(c)
    BY <1>1, <1>2 DEF Finish, Aside, Others, Knows, NoCall, NewCall
  <2> QED
    BY <2>1, AsideKept
<1>3. CASE To(c, "settle") /\ refunds' = [refunds EXCEPT ![b] = @ + 1]
  <2>1. /\ Others(c) /\ clerk'[c].at = "settle"
        /\ clerk'[c].booking = b /\ clerk'[c].slot = clerk[c].slot
    BY <1>3 DEF To, Others
  <2>2. /\ refunds'[b] = refunds[b] + 1
        /\ \A a \in Bookings \ {b} : refunds'[a] = refunds[a]
    BY <1>1, <1>3
  <2>3. Known'
    BY <1>1, <2>1 DEF Known, Knows, Others
  <2>4. FreeSlot' /\ NoDoubleBooking'
    BY <1>1, <2>1 DEF FreeSlot, NoDoubleBooking, Active, Others
  <2>5. OneRefund'
    BY <1>1, <2>1, <2>2 DEF OneRefund, Others
  <2> QED
    BY <2>3, <2>4, <2>5 DEF Rest
<1> QED
  BY <1>2, <1>3 DEF RefundBooking

(* What a clerk has read of a slot or a booking still holds when it is     *)
(* written, unless the history variables say that somebody came between.   *)
THEOREM BookingInvariant == BookingSpec => []BookingInv
<1>1. ASSUME BookingInv, [BookingNext]_bookingVars
      PROVE  BookingInv'
  <2>1. BookingTypeOK'
    BY <1>1, BookingTypeKept
  <2>2. CASE UNCHANGED bookingVars
    BY <1>1, <2>1, <2>2 DEF BookingInv, bookingVars, rowVars, Known, Knows, FreeSlot,
                            NoDoubleBooking, OneRefund, Active
  <2>3. ASSUME NEW c \in Clerks,
               \/ AskCreate(c) \/ AskChange(c) \/ ReadStatus(c) \/ SettleRefund(c) \/ ClerkDies(c)
        PROVE  Rest'
    BY <1>1, <2>3, Asides, AsideKept
  <2> QED
    BY <1>1, <2>1, <2>2, <2>3, CheckKept, InsertKept, WriteKept, RefundKept
       DEF BookingNext, BookingInv, Rest
<1> QED
  BY BookingInitially, <1>1, PTL DEF BookingSpec

(* A slot is booked twice only after a check that two clerks made together,*)
(* or a status written on an old read.                                     *)
THEOREM NoDoubleBookingAlways == BookingSpec => []NoDoubleBooking
<1>1. BookingInv => NoDoubleBooking
  BY DEF BookingInv
<1> QED
  BY <1>1, BookingInvariant, PTL

(* A booking's money is asked back twice only if its status was written on *)
(* an old read: two cancellations that overlap.                            *)
THEOREM RefundedOnceAlways == BookingSpec => []RefundedOnce
<1>1. BookingInv => RefundedOnce
  BY DEF BookingInv, BookingTypeOK, OneRefund, RefundedOnce
<1> QED
  BY <1>1, BookingInvariant, PTL

-----------------------------------------------------------------------------
(* Webhooks. *)

(* A hook queues a job per endpoint once, and a job still to run has       *)
(* attempts left.                                                          *)
QueuedOnce ==
  \A e \in Events, p \in Endpoints :
    /\ hook[e].at = "none" => hook[e].left = {} /\ post[e][p].at = "none"
    /\ p \in hook[e].left => post[e][p].at = "none"
    /\ post[e][p].at \notin {"succeeded", "failed"} => post[e][p].attempts < Tries

(* Answers that were put on record say what the endpoint took. *)
Answered(j) == j.at = "succeeded" \/ (j.at = "sent" /\ j.answer = "ok")

RecordIsTrue ==
  \A e \in Events, p \in Endpoints :
    ~blurs[e][p] => taken[e][p] = IF Answered(post[e][p]) THEN 1 ELSE 0

WebInv == WebTypeOK /\ QueuedOnce /\ RecordIsTrue

LEMMA WebInitially == WebInit => WebInv
<1> SUFFICES ASSUME WebInit PROVE WebInv
  OBVIOUS
<1>1. Tries \in Nat \ {0} /\ MaxWebFaults \in Nat
  BY WebhookAssumption
<1>2. WebTypeOK
  BY <1>1 DEF WebInit, WebTypeOK, NoPost
<1>3. QueuedOnce /\ RecordIsTrue
  BY <1>1 DEF WebInit, QueuedOnce, RecordIsTrue, Answered, NoPost
<1> QED
  BY <1>2, <1>3 DEF WebInv

(* The hook, and the endpoints' owner. *)
LEMMA HookSteps ==
  ASSUME WebInv, NEW e \in Events, LookUp(e) \/ HookOver(e)
  PROVE  WebInv'
<1> USE DEF WebInv, WebTypeOK
<1>1. CASE LookUp(e)
  BY <1>1 DEF LookUp, QueuedOnce, RecordIsTrue
<1>2. CASE HookOver(e)
  <2>1. WebTypeOK'
    BY <1>2, WebhookAssumption DEF HookOver, WebFault
  <2>2. QueuedOnce' /\ RecordIsTrue'
    BY <1>2 DEF HookOver, QueuedOnce, RecordIsTrue
  <2> QED
    BY <2>1, <2>2
<1> QED
  BY <1>1, <1>2

(* A step that moves one job on. *)
Posted == [at : {"none", "queued", "sent", "succeeded", "failed"},
           attempts : 0..Tries, answer : {"none", "ok", "refused", "lost"}]

PostStep(e, p) ==
  /\ post' \in [Events -> [Endpoints -> Posted]]
  /\ taken' \in [Events -> [Endpoints -> Nat]]
  /\ blurs' \in [Events -> [Endpoints -> BOOLEAN]]
  /\ \A f \in Events, q \in Endpoints :
       f # e \/ q # p => /\ post'[f][q] = post[f][q]
                         /\ taken'[f][q] = taken[f][q]
                         /\ blurs'[f][q] = blurs[f][q]
  /\ post'[e][p].at # "none"
  /\ post'[e][p].at \notin {"succeeded", "failed"} => post'[e][p].attempts < Tries
  /\ ~blurs'[e][p] => taken'[e][p] = IF Answered(post'[e][p]) THEN 1 ELSE 0
  /\ webRows' \in [Endpoints -> Nat]
  /\ webFaults' \in 0..MaxWebFaults
  /\ endpoints' = endpoints

LEMMA PostStepKeeps ==
  ASSUME WebInv, NEW e \in Events, NEW p \in Endpoints, PostStep(e, p),
         \/ post[e][p].at # "none"
         \/ p \notin hook'[e].left /\ hook[e].at # "none",
         \/ hook' = hook
         \/ /\ hook' \in [Events -> [at : {"none", "queue", "over"},
                                    left : SUBSET Endpoints]]
            /\ \A f \in Events : /\ hook'[f].at = hook[f].at
                                 /\ hook'[f].left \subseteq hook[f].left
  PROVE  WebInv'
<1>0. /\ hook' \in [Events -> [at : {"none", "queue", "over"}, left : SUBSET Endpoints]]
      /\ \A f \in Events : hook'[f].at = hook[f].at /\ hook'[f].left \subseteq hook[f].left
  BY DEF WebInv, WebTypeOK
<1>1. WebTypeOK'
  BY <1>0 DEF PostStep, Posted, WebInv, WebTypeOK
<1>2. QueuedOnce'
  <2>1. hook'[e].at # "none" /\ p \notin hook'[e].left
    BY <1>0 DEF WebInv, QueuedOnce
  <2> SUFFICES ASSUME NEW f \in Events, NEW q \in Endpoints
               PROVE  /\ hook'[f].at = "none" => hook'[f].left = {} /\ post'[f][q].at = "none"
                      /\ q \in hook'[f].left => post'[f][q].at = "none"
                      /\ post'[f][q].at \notin {"succeeded", "failed"}
                           => post'[f][q].attempts < Tries
    BY DEF QueuedOnce
  <2>2. CASE f = e /\ q = p
    BY <2>1, <2>2 DEF PostStep
  <2>3. CASE f # e \/ q # p
    <3>1. post'[f][q] = post[f][q]
      BY <2>3 DEF PostStep
    <3>2. hook'[f].at = hook[f].at /\ hook'[f].left \subseteq hook[f].left
      BY <1>0
    <3> QED
      BY <3>1, <3>2 DEF WebInv, QueuedOnce
  <2> QED
    BY <2>2, <2>3
<1>3. RecordIsTrue'
  <2> SUFFICES ASSUME NEW f \in Events, NEW q \in Endpoints, ~blurs'[f][q]
               PROVE  taken'[f][q] = IF Answered(post'[f][q]) THEN 1 ELSE 0
    BY DEF RecordIsTrue, Answered
  <2>1. CASE f = e /\ q = p
    BY <2>1 DEF PostStep
  <2>2. CASE f # e \/ q # p
    <3>1. /\ post'[f][q] = post[f][q] /\ taken'[f][q] = taken[f][q]
          /\ blurs'[f][q] = blurs[f][q]
      BY <2>2 DEF PostStep
    <3>2. taken[f][q] = IF Answered(post[f][q]) THEN 1 ELSE 0
      BY <3>1 DEF WebInv, RecordIsTrue
    <3> QED
      BY <3>1, <3>2
  <2> QED
    BY <2>1, <2>2
<1> QED
  BY <1>1, <1>2, <1>3 DEF WebInv

LEMMA QueuePostKeeps ==
  ASSUME WebInv, NEW e \in Events, QueuePost(e)
  PROVE  WebInv'
<1>1. PICK p \in hook[e].left :
        /\ hook' = [hook EXCEPT ![e].left = @ \ {p}]
        /\ post' = [post EXCEPT ![e][p].at = "queued"]
        /\ UNCHANGED <<endpoints, webRows, taken, blurs, webFaults>>
  BY DEF QueuePost
<1>2. p \in Endpoints /\ hook[e].at # "none" /\ post[e][p].at = "none"
      /\ post[e][p].attempts < Tries /\ post[e][p] \in Posted
  BY <1>1 DEF WebInv, WebTypeOK, QueuedOnce, Posted
<1>3. /\ hook' \in [Events -> [at : {"none", "queue", "over"}, left : SUBSET Endpoints]]
      /\ \A f \in Events : hook'[f].at = hook[f].at /\ hook'[f].left \subseteq hook[f].left
      /\ p \notin hook'[e].left
  <2>1. hook \in [Events -> [at : {"none", "queue", "over"}, left : SUBSET Endpoints]]
    BY DEF WebInv, WebTypeOK
  <2>2. hook' = [hook EXCEPT ![e].left = @ \ {p}]
    BY <1>1
  <2>3. hook'[e] = [hook[e] EXCEPT !.left = @ \ {p}]
    BY <2>1, <2>2
  <2> QED
    BY <2>1, <2>2, <2>3
<1>4. post' = [post EXCEPT ![e][p] = [post[e][p] EXCEPT !.at = "queued"]]
  BY <1>1
<1> DEFINE j == [post[e][p] EXCEPT !.at = "queued"]
<1>5. j \in Posted /\ j.at = "queued" /\ j.attempts = post[e][p].attempts
  BY <1>2 DEF Posted
<1>6. /\ post' \in [Events -> [Endpoints -> Posted]] /\ post'[e][p] = j
      /\ \A f \in Events, q \in Endpoints : f # e \/ q # p => post'[f][q] = post[f][q]
  BY <1>2, <1>4, <1>5 DEF WebInv, WebTypeOK, Posted
<1>7. ~blurs[e][p] => taken[e][p] = 0
  BY <1>2 DEF WebInv, RecordIsTrue, Answered
<1> HIDE DEF j
<1>8. PostStep(e, p)
  BY <1>1, <1>2, <1>5, <1>6, <1>7 DEF PostStep, Answered, WebInv, WebTypeOK
<1> QED
  BY <1>2, <1>3, <1>8, PostStepKeeps

LEMMA SendEventKeeps ==
  ASSUME WebInv, NEW e \in Events, NEW p \in Endpoints, SendEvent(e, p)
  PROVE  WebInv'
<1>1. PICK answer \in {"ok", "refused", "lost"} :
       /\ post' = [post EXCEPT ![e][p].at = "sent", ![e][p].answer = answer]
       /\ IF answer = "lost" THEN WebFault ELSE UNCHANGED webFaults
       /\ \/ /\ answer # "refused"
             /\ taken' = [taken EXCEPT ![e][p] = @ + 1]
             /\ blurs' = [blurs EXCEPT ![e][p] = @ \/ answer = "lost"]
          \/ answer # "ok" /\ UNCHANGED <<taken, blurs>>
  BY DEF SendEvent
<1>2. post[e][p].at = "queued" /\ UNCHANGED <<endpoints, hook, webRows>>
  BY DEF SendEvent, Posts
<1>3. /\ post[e][p].attempts < Tries /\ (~blurs[e][p] => taken[e][p] = 0)
      /\ post[e][p] \in Posted
  BY <1>2 DEF WebInv, WebTypeOK, QueuedOnce, RecordIsTrue, Answered, Posted
<1>4. webFaults' \in 0..MaxWebFaults
  BY <1>1, WebhookAssumption DEF WebFault, WebInv, WebTypeOK
<1> DEFINE j == [[post[e][p] EXCEPT !.at = "sent"] EXCEPT !.answer = answer]
<1>5. post' = [post EXCEPT ![e][p] = j]
  BY <1>1 DEF WebInv, WebTypeOK
<1>6. j \in Posted /\ j.at = "sent" /\ j.answer = answer /\ j.attempts = post[e][p].attempts
  BY <1>1, <1>3 DEF Posted
<1>7. /\ post' \in [Events -> [Endpoints -> Posted]] /\ post'[e][p] = j
      /\ \A f \in Events, q \in Endpoints : f # e \/ q # p => post'[f][q] = post[f][q]
  BY <1>5, <1>6 DEF WebInv, WebTypeOK, Posted
<1> HIDE DEF j
<1>8. CASE answer # "ok" /\ UNCHANGED <<taken, blurs>>
  <2>1. PostStep(e, p)
    BY <1>2, <1>3, <1>4, <1>6, <1>7, <1>8 DEF PostStep, Answered, WebInv, WebTypeOK
  <2> QED
    BY <1>2, <2>1, PostStepKeeps
<1>9. CASE /\ answer # "refused"
           /\ taken' = [taken EXCEPT ![e][p] = @ + 1]
           /\ blurs' = [blurs EXCEPT ![e][p] = @ \/ answer = "lost"]
  <2>1. /\ taken' \in [Events -> [Endpoints -> Nat]] /\ taken'[e][p] = taken[e][p] + 1
        /\ \A f \in Events, q \in Endpoints : f # e \/ q # p => taken'[f][q] = taken[f][q]
    BY <1>9 DEF WebInv, WebTypeOK
  <2>2. /\ blurs' \in [Events -> [Endpoints -> BOOLEAN]]
        /\ blurs'[e][p] = (blurs[e][p] \/ answer = "lost")
        /\ \A f \in Events, q \in Endpoints : f # e \/ q # p => blurs'[f][q] = blurs[f][q]
    BY <1>9 DEF WebInv, WebTypeOK
  <2>3. ~blurs'[e][p] => answer = "ok" /\ taken'[e][p] = 1
    <3>1. ~blurs'[e][p] => answer # "lost" /\ ~blurs[e][p]
      BY <2>2
    <3> QED
      BY <1>1, <1>3, <1>9, <2>1, <3>1
  <2>4. PostStep(e, p)
    BY <1>2, <1>3, <1>4, <1>6, <1>7, <2>1, <2>2, <2>3 DEF PostStep, Answered, WebInv, WebTypeOK
  <2> QED
    BY <1>2, <2>4, PostStepKeeps
<1> QED
  BY <1>1, <1>8, <1>9

(* The job of p is over, or back in the queue with an attempt left. *)
LEMMA AnswerFacts ==
  ASSUME WebInv, NEW e \in Events, NEW p \in Endpoints, Posts(e, p, "sent")
  PROVE  /\ post[e][p] \in Posted /\ post[e][p].attempts \in Nat
         /\ post[e][p].attempts < Tries /\ Tries \in Nat
         /\ ~blurs[e][p] => taken[e][p] = IF post[e][p].answer = "ok" THEN 1 ELSE 0
BY WebhookAssumption DEF Posts, WebInv, WebTypeOK, QueuedOnce, RecordIsTrue, Answered, Posted

LEMMA JobMovesOn ==
  ASSUME WebInv, NEW e \in Events, NEW p \in Endpoints, Posts(e, p, "sent"),
         NEW j \in Posted, post' = [post EXCEPT ![e][p] = j],
         j.at # "none", j.at \notin {"succeeded", "failed"} => j.attempts < Tries,
         blurs' \in [Events -> [Endpoints -> BOOLEAN]],
         \A f \in Events, q \in Endpoints : f # e \/ q # p => blurs'[f][q] = blurs[f][q],
         ~blurs'[e][p] => taken[e][p] = IF Answered(j) THEN 1 ELSE 0,
         webRows' \in [Endpoints -> Nat], webFaults' \in 0..MaxWebFaults,
         UNCHANGED <<endpoints, hook, taken>>
  PROVE  WebInv'
<1>1. /\ post' \in [Events -> [Endpoints -> Posted]] /\ post'[e][p] = j
      /\ \A f \in Events, q \in Endpoints : f # e \/ q # p => post'[f][q] = post[f][q]
  BY DEF WebInv, WebTypeOK, Posted
<1>2. PostStep(e, p)
  BY <1>1 DEF PostStep, WebInv, WebTypeOK
<1> QED
  BY <1>2, PostStepKeeps DEF Posts

(* What the runner makes of a job whose worker threw. *)
Thrown(e, p) ==
  LET n == post[e][p].attempts + 1 IN
  [at |-> IF n >= Tries THEN "failed" ELSE "queued", attempts |-> n, answer |-> "none"]

LEMMA ThrownFacts ==
  ASSUME WebInv, NEW e \in Events, NEW p \in Endpoints, Posts(e, p, "sent")
  PROVE  /\ Thrown(e, p) \in Posted /\ Thrown(e, p).at # "none"
         /\ ~Answered(Thrown(e, p))
         /\ Thrown(e, p).at \notin {"succeeded", "failed"} => Thrown(e, p).attempts < Tries
<1>1. post[e][p].attempts \in Nat /\ post[e][p].attempts < Tries /\ Tries \in Nat
  BY AnswerFacts
<1> QED
  BY <1>1 DEF Thrown, Posted, Answered

(* A step that writes no history. *)
LEMMA RecordKept ==
  ASSUME WebInv, UNCHANGED <<blurs, webFaults>>
  PROVE  /\ blurs' \in [Events -> [Endpoints -> BOOLEAN]]
         /\ \A f \in Events, q \in Endpoints : blurs'[f][q] = blurs[f][q]
         /\ webFaults' \in 0..MaxWebFaults
BY DEF WebInv, WebTypeOK

LEMMA RecordAnswerKeeps ==
  ASSUME WebInv, NEW e \in Events, NEW p \in Endpoints, RecordAnswer(e, p)
  PROVE  WebInv'
<1>1. /\ Posts(e, p, "sent") /\ UNCHANGED <<endpoints, hook, taken, blurs, webFaults>>
  BY DEF RecordAnswer
<1>2. webRows' \in [Endpoints -> Nat]
  BY DEF RecordAnswer, Wrote, WebInv, WebTypeOK
<1>3. CASE post[e][p].answer = "ok"
  <2> DEFINE n == post[e][p].attempts + 1
             j == [[post[e][p] EXCEPT !.at = "succeeded"] EXCEPT !.attempts = n]
  <2>1. post' = [post EXCEPT ![e][p] = j]
    <3>1. post' = [post EXCEPT ![e][p].at = "succeeded", ![e][p].attempts = @ + 1]
      BY <1>3 DEF RecordAnswer
    <3>2. post[e][p] = [at |-> post[e][p].at, attempts |-> post[e][p].attempts,
                        answer |-> post[e][p].answer]
      BY <1>1, AnswerFacts DEF Posted
    <3> QED
      BY <3>1, <3>2 DEF WebInv, WebTypeOK
  <2>2. j \in Posted /\ j.at = "succeeded"
    <3>1. /\ post[e][p] \in Posted /\ post[e][p].attempts \in Nat
          /\ post[e][p].attempts < Tries /\ Tries \in Nat
      BY <1>1, AnswerFacts
    <3>2. post[e][p].attempts + 1 \in 0..Tries
      BY <3>1
    <3> QED
      BY <3>1, <3>2 DEF Posted
  <2>3. ~blurs[e][p] => taken[e][p] = 1
    BY <1>1, <1>3, AnswerFacts
  <2> HIDE DEF j
  <2>4. j.at # "none" /\ Answered(j)
    BY <2>2 DEF Answered
  <2>5. ~blurs'[e][p] => taken[e][p] = IF Answered(j) THEN 1 ELSE 0
    BY <1>1, <2>3, <2>4
  <2> QED
    BY <1>1, <1>2, <2>1, <2>2, <2>4, <2>5, RecordKept, JobMovesOn
<1>4. CASE post[e][p].answer # "ok"
  <2>1. post' = [post EXCEPT ![e][p] = Thrown(e, p)]
    BY <1>4 DEF RecordAnswer, Throws, Thrown
  <2>2. ~blurs'[e][p] => taken[e][p] = IF Answered(Thrown(e, p)) THEN 1 ELSE 0
    BY <1>1, <1>4, AnswerFacts, ThrownFacts
  <2>3. /\ Thrown(e, p) \in Posted /\ Thrown(e, p).at # "none"
        /\ Thrown(e, p).at \notin {"succeeded", "failed"} => Thrown(e, p).attempts < Tries
    BY <1>1, ThrownFacts
  <2>4. /\ blurs' \in [Events -> [Endpoints -> BOOLEAN]]
        /\ \A f \in Events, q \in Endpoints : blurs'[f][q] = blurs[f][q]
        /\ webFaults' \in 0..MaxWebFaults
    BY <1>1, RecordKept
  <2> QED
    BY <1>1, <1>2, <2>1, <2>2, <2>3, <2>4, JobMovesOn
<1> QED
  BY <1>3, <1>4

(* An answer that is lost after it was given is a blur. *)
LEMMA LostRecordKeeps ==
  ASSUME WebInv, NEW e \in Events, NEW p \in Endpoints,
         RecordRefused(e, p) \/ SenderDies(e, p)
  PROVE  WebInv'
<1>1. /\ Posts(e, p, "sent") /\ UNCHANGED <<endpoints, hook, taken>>
      /\ blurs' = [blurs EXCEPT ![e][p] = @ \/ post[e][p].answer = "ok"]
  BY DEF RecordRefused, SenderDies
<1>2. webRows' \in [Endpoints -> Nat] /\ webFaults' \in 0..MaxWebFaults
  <2>1. webRows' = webRows \/ Wrote(p)
    BY DEF RecordRefused, SenderDies
  <2>2. webFaults' = webFaults \/ WebFault
    BY DEF RecordRefused, SenderDies
  <2> QED
    <3>1. webRows' \in [Endpoints -> Nat]
      <4>1. webRows \in [Endpoints -> Nat]
        BY DEF WebInv, WebTypeOK
      <4> QED
        BY <2>1, <4>1 DEF Wrote
    <3>2. webFaults' \in 0..MaxWebFaults
      BY <2>2, WebhookAssumption DEF WebFault, WebInv, WebTypeOK
    <3> QED
      BY <3>1, <3>2
<1>4. /\ blurs' \in [Events -> [Endpoints -> BOOLEAN]]
      /\ blurs'[e][p] = (blurs[e][p] \/ post[e][p].answer = "ok")
      /\ \A f \in Events, q \in Endpoints : f # e \/ q # p => blurs'[f][q] = blurs[f][q]
  BY <1>1 DEF WebInv, WebTypeOK
<1>5. ~blurs'[e][p] => taken[e][p] = 0
  BY <1>1, <1>4, AnswerFacts
<1>6. \E j \in Posted :
        /\ post' = [post EXCEPT ![e][p] = j]
        /\ j.at # "none" /\ (j.at \notin {"succeeded", "failed"} => j.attempts < Tries)
        /\ ~Answered(j)
  <2>1. CASE RecordRefused(e, p)
    <3>1. post' = [post EXCEPT ![e][p] = Thrown(e, p)]
      BY <2>1 DEF RecordRefused, Throws, Thrown
    <3> QED
      BY <1>1, <3>1, ThrownFacts
  <2>2. CASE SenderDies(e, p)
    <3> DEFINE n == post[e][p].attempts
               j == [at |-> "queued", answer |-> "none",
                     attempts |-> IF n = 0 THEN 0 ELSE n - 1]
    <3>1. post' = [post EXCEPT ![e][p] = j]
      BY <2>2 DEF SenderDies, WebInv, WebTypeOK
    <3>2. j \in Posted /\ j.attempts < Tries
      BY <1>1, AnswerFacts DEF Posted
    <3> QED
      BY <3>1, <3>2 DEF Answered
  <2> QED
    BY <2>1, <2>2
<1>7. PICK j \in Posted :
        /\ post' = [post EXCEPT ![e][p] = j]
        /\ j.at # "none" /\ (j.at \notin {"succeeded", "failed"} => j.attempts < Tries)
        /\ ~Answered(j)
  BY <1>6
<1>8. ~blurs'[e][p] => taken[e][p] = IF Answered(j) THEN 1 ELSE 0
  BY <1>5, <1>7
<1>9. Posts(e, p, "sent") /\ j.at # "none"
  BY <1>1, <1>7
<1>10. j.at \notin {"succeeded", "failed"} => j.attempts < Tries
  BY <1>7
<1>11. blurs' \in [Events -> [Endpoints -> BOOLEAN]]
  BY <1>4
<1>12. \A f \in Events, q \in Endpoints : f # e \/ q # p => blurs'[f][q] = blurs[f][q]
  BY <1>4
<1>13. post' = [post EXCEPT ![e][p] = j]
  BY <1>7
<1>14. UNCHANGED <<endpoints, hook, taken>>
  BY <1>1
<1> QED
  BY <1>2, <1>8, <1>9, <1>10, <1>11, <1>12, <1>13, <1>14, JobMovesOn

LEMMA WebStep ==
  ASSUME WebInv, [WebNext]_webVars
  PROVE  WebInv'
<1>1. CASE UNCHANGED webVars
  BY <1>1 DEF webVars, WebInv, WebTypeOK, QueuedOnce, RecordIsTrue, Answered
<1>2. CASE DeleteEndpoint
  BY <1>2 DEF DeleteEndpoint, WebInv, WebTypeOK, QueuedOnce, RecordIsTrue, Answered
<1> QED
  BY <1>1, <1>2, HookSteps, QueuePostKeeps, SendEventKeeps, RecordAnswerKeeps,
     LostRecordKeeps DEF WebNext

LEMMA WebInvAlways == WebSpec => []WebInv
BY WebInitially, WebStep, PTL DEF WebSpec

(* A delivery job never runs more often than it may, and every endpoint's  *)
(* rows and posts are those of the events sent.                            *)
THEOREM WebTypes == WebSpec => []WebTypeOK
BY WebInvAlways, PTL DEF WebInv

(* For any number of events, endpoints, tries and faults: an endpoint      *)
(* takes an event twice only when an answer by which it took it was not    *)
(* put on record.                                                          *)
THEOREM TakenOnceAlways == WebSpec => []TakenOnce
<1>1. WebInv => TakenOnce
  <2> SUFFICES ASSUME WebInv, NEW e \in Events, NEW p \in Endpoints, ~blurs[e][p]
               PROVE  taken[e][p] <= 1
    BY DEF TakenOnce
  <2> QED
    BY DEF WebInv, RecordIsTrue
<1> QED
  BY <1>1, WebInvAlways, PTL

-----------------------------------------------------------------------------
(* The offline queue. *)

Writes == [image : Image, by : {"enqueue", "retry", "drop", "flush", "offline"},
           op : Operations \cup {NoOperation}]

Own(by) == by \in {"flush", "offline"}

(* Whom the flush is sending, and whose writes are under way.              *)
OwnWrite ==
  /\ flush.at = "sent" => flush.op \in Operations
  /\ \A i \in DOMAIN saves :
       /\ saves[i].by = "enqueue" => saves[i].op \in Operations
       /\ Own(saves[i].by) =>
            /\ flush.at = "saving"
            /\ \A j \in DOMAIN saves : Own(saves[j].by) => i = j

(* An operation accepted and neither carried out nor dropped is in the     *)
(* list, in the storage if its enqueue has resolved, and in every list     *)
(* that is being written from its own on.                                  *)
Kept ==
  "write overtaken" \notin missed =>
    /\ \A o \in resolved \ (applied \cup dropped) :
         /\ o \in queued /\ o \in stored.queued
         /\ \A i \in DOMAIN saves : o \in saves[i].image.queued
    /\ \A i \in DOMAIN saves :
         saves[i].by = "enqueue" /\ saves[i].op \notin applied \cup dropped =>
           /\ saves[i].op \in queued
           /\ \A j \in DOMAIN saves : i <= j => saves[i].op \in saves[j].image.queued

(* What an operation that failed and is to be tried again waits for.       *)
Awaits(o) ==
  \/ timer
  \/ Busy /\ o \in flush.left
  \/ flush.at = "sent" /\ o = flush.op
  \/ flush.at = "saving" /\ \E i \in DOMAIN saves : saves[i].by = "offline"

Undisturbed == missed \cap {"woken while busy", "restarted"} = {}

Retried ==
  Undisturbed =>
    \A o \in queued : object[o].status = "pending" /\ object[o].attempts > 0 => Awaits(o)

OfflineInv == OfflineTypeOK /\ OwnWrite /\ Kept /\ Retried

-----------------------------------------------------------------------------
LEMMA OfflineInitially == OfflineInit => OfflineInv
<1> SUFFICES ASSUME OfflineInit PROVE OfflineInv
  OBVIOUS
<1>1. OfflineTypeOK
  <2>1. 0 \in 0..MaxManual /\ 0 \in 0..MaxOutages
    BY OfflineAssumption
  <2>2. [o \in Operations |-> Fresh]
          \in [Operations -> [status : {"pending", "failed"}, attempts : Nat]]
    BY DEF Fresh
  <2>3. stored \in Image
    BY <2>2 DEF OfflineInit, Image
  <2>4. flush \in [at : {"idle", "next", "sent", "saving"}, left : SUBSET Operations,
                  op : Operations \cup {NoOperation}]
    BY DEF OfflineInit, Idle
  <2>5. saves \in Seq([image : Image, by : {"enqueue", "retry", "drop", "flush", "offline"},
                      op : Operations \cup {NoOperation}])
    BY DEF OfflineInit
  <2> QED
    BY <2>1, <2>2, <2>3, <2>4, <2>5 DEF OfflineInit, OfflineTypeOK
<1>2. OwnWrite /\ Kept /\ Retried
  BY DEF OfflineInit, OwnWrite, Kept, Retried, Idle, Fresh
<1> QED
  BY <1>1, <1>2 DEF OfflineInv

(* The empty list has no index. *)
LEMMA NoneOfNone == \A s : s = <<>> => ~\E i \in DOMAIN s : i = i
OBVIOUS

(* The first of the indices of a list. *)
LEMMA TheFirst ==
  ASSUME NEW n \in Nat
  PROVE  \A j \in 1..n : 1 <= j /\ (~(j > 1) => j = 1)
OBVIOUS

(* The indices of a list that has one more element. *)
LEMMA OneMore ==
  ASSUME NEW n \in Nat
  PROVE  \A i \in 1..(n + 1) : /\ i \in 1..n \/ i = n + 1
                               /\ i <= n + 1
                               /\ n + 1 <= i => i = n + 1
OBVIOUS

(* A write that is asked for is the last of those under way. *)
LEMMA SaveFacts ==
  ASSUME OfflineTypeOK, NEW by, NEW o, Save(by, o),
         queued' \subseteq Operations,
         object' \in [Operations -> [status : {"pending", "failed"}, attempts : Nat]],
         by \in {"enqueue", "retry", "drop", "flush", "offline"},
         o \in Operations \cup {NoOperation}
  PROVE  /\ saves' \in Seq(Writes)
         /\ DOMAIN saves = 1..Len(saves) /\ DOMAIN saves' = 1..(Len(saves) + 1)
         /\ Len(saves) \in Nat
         /\ \A i \in DOMAIN saves : i \in DOMAIN saves' /\ saves'[i] = saves[i]
         /\ saves'[Len(saves) + 1].by = by /\ saves'[Len(saves) + 1].op = o
         /\ saves'[Len(saves) + 1].image.queued = queued'
<1> DEFINE w == [image |-> [queued |-> queued', object |-> object'], by |-> by, op |-> o]
<1>1. w \in Writes /\ w.by = by /\ w.op = o /\ w.image.queued = queued'
  BY DEF Writes, Image
<1>2. saves' = Append(saves, w) /\ saves \in Seq(Writes)
  BY DEF Save, OfflineTypeOK, Writes
<1> HIDE DEF w
<1> QED
  BY <1>1, <1>2

(* A call that leaves the flush alone and asks for one write of its own.   *)
LEMMA CallsKeep ==
  ASSUME OfflineInv, NEW o \in Operations, Enqueue(o) \/ Retry(o) \/ Drop(o)
  PROVE  OfflineInv'
<1> USE DEF OfflineInv
<1>1. PICK by \in {"enqueue", "retry", "drop"} :
        /\ Save(by, o)
        /\ by = "enqueue" => o \in queued'
  BY DEF Enqueue, Retry, Drop, OfflineTypeOK
<1>2. /\ queued' \subseteq Operations
      /\ object' \in [Operations -> [status : {"pending", "failed"}, attempts : Nat]]
      /\ \A p \in queued' : \/ p \in queued /\ object'[p] = object[p]
                            \/ object'[p].attempts = 0
      /\ dropped' \subseteq Operations /\ dropped \subseteq dropped'
      /\ \A p \in queued \ dropped' : p \in queued'
      /\ manual' \in 0..MaxManual
      /\ UNCHANGED <<stored, flush, timer, resolved, applied, missed, outages>>
  <2>1. /\ queued \subseteq Operations /\ dropped \subseteq Operations
        /\ object \in [Operations -> [status : {"pending", "failed"}, attempts : Nat]]
        /\ manual \in 0..MaxManual /\ MaxManual \in Nat
    BY OfflineAssumption DEF OfflineTypeOK
  <2>2. CASE Enqueue(o)
    BY <2>1, <2>2 DEF Enqueue, Fresh
  <2>3. CASE Retry(o)
    BY <2>1, <2>3 DEF Retry, Fresh, ByHand
  <2>4. CASE Drop(o)
    BY <2>1, <2>4 DEF Drop, ByHand
  <2> QED
    BY <2>2, <2>3, <2>4
<1>3. /\ saves' \in Seq(Writes)
      /\ DOMAIN saves = 1..Len(saves) /\ DOMAIN saves' = 1..(Len(saves) + 1)
      /\ Len(saves) \in Nat
      /\ \A i \in DOMAIN saves : i \in DOMAIN saves' /\ saves'[i] = saves[i]
      /\ saves'[Len(saves) + 1].by = by /\ saves'[Len(saves) + 1].op = o
      /\ saves'[Len(saves) + 1].image.queued = queued'
  BY <1>1, <1>2, SaveFacts
<1>4. OfflineTypeOK'
  BY <1>2, <1>3 DEF OfflineTypeOK, Writes
<1>5. OwnWrite'
  BY <1>1, <1>2, <1>3 DEF OwnWrite, Own
<1>6. Kept'
  <2> SUFFICES ASSUME "write overtaken" \notin missed'
               PROVE  /\ \A p \in resolved' \ (applied' \cup dropped') :
                           /\ p \in queued' /\ p \in stored'.queued
                           /\ \A i \in DOMAIN saves' : p \in saves'[i].image.queued
                      /\ \A i \in DOMAIN saves' :
                           saves'[i].by = "enqueue" /\ saves'[i].op \notin applied' \cup dropped' =>
                             /\ saves'[i].op \in queued'
                             /\ \A j \in DOMAIN saves' :
                                  i <= j => saves'[i].op \in saves'[j].image.queued
    BY DEF Kept
  <2>0. \A i \in DOMAIN saves' : i \in DOMAIN saves \/ i = Len(saves) + 1
    BY <1>3, OneMore
  <2>1. ASSUME NEW p \in resolved' \ (applied' \cup dropped')
        PROVE  /\ p \in queued' /\ p \in stored'.queued
               /\ \A i \in DOMAIN saves' : p \in saves'[i].image.queued
    <3>1. /\ p \in resolved \ (applied \cup dropped) /\ p \notin dropped'
      BY <1>2
    <3>2. /\ p \in queued /\ p \in stored.queued
          /\ \A i \in DOMAIN saves : p \in saves[i].image.queued
      BY <1>2, <3>1 DEF Kept
    <3> QED
      BY <1>2, <1>3, <2>0, <3>1, <3>2
  <2>2. ASSUME NEW i \in DOMAIN saves', saves'[i].by = "enqueue",
               saves'[i].op \notin applied' \cup dropped'
        PROVE  /\ saves'[i].op \in queued'
               /\ \A j \in DOMAIN saves' : i <= j => saves'[i].op \in saves'[j].image.queued
    <3>1. CASE i = Len(saves) + 1
      <4>1. /\ by = "enqueue" /\ saves'[i].op = o /\ saves'[i].image.queued = queued'
            /\ o \in queued'
        BY <1>1, <1>3, <2>2, <3>1
      <4>2. \A j \in DOMAIN saves' : i <= j => j = i
        BY <1>3, <3>1, OneMore
      <4> QED
        BY <4>1, <4>2
    <3>2. CASE i \in DOMAIN saves
      <4>1. /\ saves[i].op \in queued /\ saves'[i] = saves[i]
            /\ \A j \in DOMAIN saves : i <= j => saves[i].op \in saves[j].image.queued
        BY <1>2, <1>3, <2>2, <3>2 DEF Kept
      <4>2. saves[i].op \in queued'
        BY <1>2, <2>2, <4>1
      <4> QED
        BY <1>3, <2>0, <4>1, <4>2
    <3> QED
      BY <2>0, <3>1, <3>2
  <2> QED
    BY <2>1, <2>2
<1>7. Retried'
  <2> SUFFICES ASSUME Undisturbed', NEW p \in queued', object'[p].status = "pending",
                      object'[p].attempts > 0
               PROVE  Awaits(p)'
    BY DEF Retried, Awaits, Busy
  <2>1. p \in queued /\ object'[p] = object[p]
    BY <1>2
  <2>2. Awaits(p)
    BY <1>2, <2>1 DEF Retried, Undisturbed
  <2> QED
    BY <1>2, <1>3, <2>2 DEF Awaits, Busy
<1> QED
  BY <1>4, <1>5, <1>6, <1>7

Flushes == [at : {"idle", "next", "sent", "saving"}, left : SUBSET Operations,
            op : Operations \cup {NoOperation}]

(* A step of the flush that asks for no write. *)
LEMMA FlushMovesKeep ==
  ASSUME OfflineInv, CallFlush \/ TimerFires \/ FlushOver \/ \E o \in Operations : SendNext(o)
  PROVE  OfflineInv'
<1>1. UNCHANGED <<queued, object, stored, saves, resolved, applied, dropped, manual, outages>>
  BY DEF CallFlush, TimerFires, FlushOver, SendNext
<1>2. /\ missed \subseteq missed'
      /\ missed' \subseteq {"write overtaken", "woken while busy", "restarted"}
      /\ timer' \in BOOLEAN /\ flush' \in Flushes
      /\ "write overtaken" \in missed' => "write overtaken" \in missed
  <2>1. /\ queued \subseteq Operations /\ flush \in Flushes /\ timer \in BOOLEAN
        /\ missed \subseteq {"write overtaken", "woken while busy", "restarted"}
    BY DEF OfflineInv, OfflineTypeOK, Flushes
  <2>2. CASE CallFlush
    BY <2>1, <2>2 DEF CallFlush, Began, Flushes
  <2>3. CASE TimerFires
    <3>1. timer' \in BOOLEAN
      BY <2>3 DEF TimerFires
    <3>2. CASE Busy
      <4>1. flush' = flush /\ missed' = missed \cup {"woken while busy"}
        BY <2>3, <3>2 DEF TimerFires, Woken
      <4> QED
        BY <2>1, <3>1, <4>1
    <3>3. CASE ~Busy
      <4>1. flush' = [at |-> "next", left |-> queued, op |-> NoOperation] /\ missed' = missed
        BY <2>3, <3>3 DEF TimerFires, Woken, Began
      <4>2. flush' \in Flushes
        BY <2>1, <4>1 DEF Flushes
      <4> QED
        BY <2>1, <3>1, <4>1, <4>2
    <3> QED
      BY <3>2, <3>3
  <2>4. CASE FlushOver
    BY <2>1, <2>4 DEF FlushOver, Idle, Flushes
  <2>5. CASE \E o \in Operations : SendNext(o)
    <3> SUFFICES ASSUME NEW o \in Operations, SendNext(o)
                 PROVE  flush' \in Flushes
      BY <2>1, <2>5 DEF SendNext
    <3>1. CASE object[o].status = "pending"
      BY <2>1, <3>1 DEF SendNext, Flushes
    <3>2. CASE object[o].status # "pending"
      BY <2>1, <3>2 DEF SendNext, Flushes
    <3> QED
      BY <3>1, <3>2
  <2> QED
    BY <2>2, <2>3, <2>4, <2>5
<1>3. OfflineTypeOK'
  BY <1>1, <1>2 DEF OfflineInv, OfflineTypeOK, Flushes
<1>4. Kept'
  BY <1>1, <1>2 DEF OfflineInv, Kept
<1>5. OwnWrite'
  <2> SUFFICES /\ (flush'.at = "saving") <=> (flush.at = "saving")
               /\ flush'.at = "sent" => flush'.op \in Operations
    BY <1>1 DEF OfflineInv, OwnWrite, Own
  <2>1. flush \in Flushes /\ (flush.at = "sent" => flush.op \in Operations)
    BY DEF OfflineInv, OfflineTypeOK, OwnWrite, Flushes
  <2>2. CASE CallFlush
    BY <2>1, <2>2 DEF CallFlush, Busy, Began
  <2>3. CASE TimerFires
    <3>1. CASE Busy
      BY <2>1, <2>3, <3>1 DEF TimerFires, Woken
    <3>2. CASE ~Busy
      BY <2>1, <2>3, <3>2 DEF TimerFires, Woken, Busy, Began
    <3> QED
      BY <3>1, <3>2
  <2>4. CASE FlushOver
    BY <2>1, <2>4 DEF FlushOver, Idle
  <2>5. CASE \E o \in Operations : SendNext(o)
    <3>1. PICK o \in Operations : SendNext(o)
      BY <2>5
    <3>2. CASE object[o].status = "pending"
      BY <2>1, <3>1, <3>2 DEF SendNext
    <3>3. CASE object[o].status # "pending"
      <4>1. flush' = [flush EXCEPT !.left = @ \ {o}]
        BY <3>1, <3>3 DEF SendNext
      <4> QED
        BY <2>1, <4>1 DEF Flushes
    <3> QED
      BY <3>2, <3>3
  <2> QED
    BY <2>2, <2>3, <2>4, <2>5
<1>6. Retried'
  <2> SUFFICES ASSUME Undisturbed', NEW p \in queued', object'[p].status = "pending",
                      object'[p].attempts > 0
               PROVE  Awaits(p)'
    BY DEF Retried, Awaits, Busy
  <2>1. Awaits(p)
    BY <1>1, <1>2 DEF OfflineInv, Retried, Undisturbed
  <2>2. CASE CallFlush
    BY <1>1, <2>1, <2>2 DEF CallFlush, Began, Awaits, Busy
  <2>3. CASE TimerFires
    <3>1. CASE Busy
      BY <2>3, <3>1 DEF TimerFires, Woken, Undisturbed
    <3>2. CASE ~Busy
      <4>1. flush' = [at |-> "next", left |-> queued, op |-> NoOperation]
        BY <2>3, <3>2 DEF TimerFires, Woken, Began
      <4> QED
        BY <1>1, <4>1 DEF Awaits, Busy
    <3> QED
      BY <3>1, <3>2
  <2>4. CASE FlushOver
    BY <1>1, <2>1, <2>4 DEF FlushOver, Idle, Awaits, Busy
  <2>5. ASSUME NEW o \in Operations, SendNext(o)
        PROVE  Awaits(p)'
    BY <1>1, <2>1, <2>5 DEF SendNext, Awaits, Busy, OfflineInv, OfflineTypeOK
  <2> QED
    BY <2>2, <2>3, <2>4, <2>5
<1> QED
  BY <1>3, <1>4, <1>5, <1>6 DEF OfflineInv

(* The answer to what the flush was sending. *)
LEMMA AnswersKeep ==
  ASSUME OfflineInv, Delivered \/ Refused \/ CutOff
  PROVE  OfflineInv'
<1> DEFINE o == flush.op
<1>1. /\ flush.at = "sent" /\ o \in Operations
      /\ flush' = [flush EXCEPT !.at = "saving"]
      /\ UNCHANGED <<stored, resolved, dropped, missed, manual>>
  BY DEF OfflineInv, OwnWrite, Delivered, Refused, CutOff, Saving
<1>2. PICK by \in {"flush", "offline"} :
        /\ Save(by, NoOperation)
        /\ CutOff => by = "offline"
  BY DEF Delivered, Refused, CutOff
<1>3. /\ queued' \subseteq Operations
      /\ object' \in [Operations -> [status : {"pending", "failed"}, attempts : Nat]]
      /\ applied' \subseteq Operations /\ applied \subseteq applied'
      /\ timer' \in BOOLEAN /\ (timer => timer')
      /\ outages' \in 0..MaxOutages
      /\ queued' \subseteq queued
      /\ \A p \in queued \ applied' : p \in queued'
      /\ \A p \in queued' : p # o => object'[p] = object[p]
      /\ o \in queued' /\ object'[o].status = "pending" => timer' \/ CutOff
  <2>1. /\ queued \subseteq Operations /\ applied \subseteq Operations /\ timer \in BOOLEAN
        /\ object \in [Operations -> [status : {"pending", "failed"}, attempts : Nat]]
        /\ outages \in 0..MaxOutages /\ MaxOutages \in Nat
    BY OfflineAssumption DEF OfflineInv, OfflineTypeOK
  <2>2. CASE Delivered
    BY <1>1, <2>1, <2>2 DEF Delivered, Serves
  <2>3. CASE Refused
    <3>1. PICK forGood \in BOOLEAN, failed \in BOOLEAN :
            /\ applied' = applied \/ applied' = applied \cup {o}
            /\ object' = [object EXCEPT ![o] = [status |-> IF failed THEN "failed" ELSE "pending",
                                               attempts |-> object[o].attempts + 1]]
            /\ timer' = Armed(failed)
            /\ queued' = queued
      BY <2>3 DEF Refused, Serves
    <3>2. timer' \in BOOLEAN /\ (timer => timer') /\ (~failed => timer')
      BY <2>1, <3>1 DEF Armed
    <3>3. object[o].attempts + 1 \in Nat
      BY <1>1, <2>1
    <3>4. applied' \subseteq Operations /\ applied \subseteq applied'
      BY <1>1, <2>1, <3>1
    <3>5. object'[o].status = "pending" => ~failed
      BY <1>1, <2>1, <3>1
    <3>6. outages' = outages
      BY <2>3 DEF Refused
    <3>7. /\ object' \in [Operations -> [status : {"pending", "failed"}, attempts : Nat]]
          /\ \A p \in queued' : p # o => object'[p] = object[p]
      BY <1>1, <2>1, <3>1, <3>3
    <3> QED
      BY <2>1, <3>1, <3>2, <3>4, <3>5, <3>6, <3>7
  <2>4. CASE CutOff
    BY <1>1, <2>1, <2>4 DEF CutOff, Serves, Outage
  <2> QED
    BY <2>2, <2>3, <2>4
<1>4. /\ saves' \in Seq(Writes)
      /\ DOMAIN saves = 1..Len(saves) /\ DOMAIN saves' = 1..(Len(saves) + 1)
      /\ Len(saves) \in Nat
      /\ \A i \in DOMAIN saves : i \in DOMAIN saves' /\ saves'[i] = saves[i]
      /\ saves'[Len(saves) + 1].by = by /\ saves'[Len(saves) + 1].op = NoOperation
      /\ saves'[Len(saves) + 1].image.queued = queued'
  BY <1>2, <1>3, SaveFacts DEF OfflineInv
<1>5. \A i \in DOMAIN saves' : i \in DOMAIN saves \/ i = Len(saves) + 1
  BY <1>4, OneMore
<1>6. OfflineTypeOK'
  <2>1. flush' \in Flushes
    BY <1>1 DEF OfflineInv, OfflineTypeOK, Flushes
  <2> QED
    BY <1>1, <1>3, <1>4, <2>1 DEF OfflineInv, OfflineTypeOK, Writes, Flushes
<1>7. OwnWrite'
  <2>1. flush'.at = "saving" /\ \A i \in DOMAIN saves : ~Own(saves[i].by)
    BY <1>1 DEF OfflineInv, OfflineTypeOK, OwnWrite
  <2>2. \A i \in DOMAIN saves' : Own(saves'[i].by) => i = Len(saves) + 1
    BY <1>4, <1>5, <2>1 DEF Own
  <2>3. \A i \in DOMAIN saves' : saves'[i].by = "enqueue" => saves'[i].op \in Operations
    BY <1>2, <1>4, <1>5 DEF OfflineInv, OwnWrite
  <2> QED
    BY <2>1, <2>2, <2>3 DEF OwnWrite, Own
<1>8. Kept'
  <2> SUFFICES ASSUME "write overtaken" \notin missed'
               PROVE  /\ \A p \in resolved' \ (applied' \cup dropped') :
                           /\ p \in queued' /\ p \in stored'.queued
                           /\ \A i \in DOMAIN saves' : p \in saves'[i].image.queued
                      /\ \A i \in DOMAIN saves' :
                           saves'[i].by = "enqueue" /\ saves'[i].op \notin applied' \cup dropped' =>
                             /\ saves'[i].op \in queued'
                             /\ \A j \in DOMAIN saves' :
                                  i <= j => saves'[i].op \in saves'[j].image.queued
    BY DEF Kept
  <2>1. ASSUME NEW p \in resolved' \ (applied' \cup dropped')
        PROVE  /\ p \in queued' /\ p \in stored'.queued
               /\ \A i \in DOMAIN saves' : p \in saves'[i].image.queued
    <3>1. /\ p \in queued /\ p \in stored.queued /\ p \notin applied'
          /\ \A i \in DOMAIN saves : p \in saves[i].image.queued
      BY <1>1, <1>3 DEF OfflineInv, Kept
    <3> QED
      BY <1>1, <1>3, <1>4, <1>5, <3>1
  <2>2. ASSUME NEW i \in DOMAIN saves', saves'[i].by = "enqueue",
               saves'[i].op \notin applied' \cup dropped'
        PROVE  /\ saves'[i].op \in queued'
               /\ \A j \in DOMAIN saves' : i <= j => saves'[i].op \in saves'[j].image.queued
    <3>1. i \in DOMAIN saves
      BY <1>2, <1>4, <1>5, <2>2
    <3>2. /\ saves[i].op \in queued /\ saves'[i] = saves[i]
          /\ \A j \in DOMAIN saves : i <= j => saves[i].op \in saves[j].image.queued
      BY <1>1, <1>3, <1>4, <2>2, <3>1 DEF OfflineInv, Kept
    <3>3. saves[i].op \in queued'
      BY <1>3, <2>2, <3>2
    <3> QED
      BY <1>4, <1>5, <3>2, <3>3
  <2> QED
    BY <2>1, <2>2
<1>9. Retried'
  <2> SUFFICES ASSUME Undisturbed', NEW p \in queued', object'[p].status = "pending",
                      object'[p].attempts > 0
               PROVE  Awaits(p)'
    BY DEF Retried, Awaits, Busy
  <2>1. CASE by = "offline"
    <3>1. Len(saves) + 1 \in DOMAIN saves'
      BY <1>4
    <3>2. flush'.at = "saving"
      BY <1>1 DEF OfflineInv, OfflineTypeOK
    <3> QED
      BY <1>4, <2>1, <3>1, <3>2 DEF Awaits
  <2>2. CASE by = "flush" /\ p = o
    BY <1>2, <1>3, <2>2 DEF Awaits
  <2>3. CASE p # o
    <3>1. Awaits(p)
      BY <1>1, <1>3, <2>3 DEF OfflineInv, Retried, Undisturbed
    <3>2. timer \/ p \in flush.left
      BY <1>1, <2>3, <3>1 DEF Awaits
    <3>3. flush'.left = flush.left /\ flush'.at = "saving"
      BY <1>1 DEF OfflineInv, OfflineTypeOK
    <3> QED
      BY <1>3, <3>2, <3>3 DEF Awaits, Busy
  <2> QED
    BY <2>1, <2>2, <2>3
<1> QED
  BY <1>6, <1>7, <1>8, <1>9 DEF OfflineInv

(* What is left of the writes under way when one of them is done.          *)
LEMMA RemovalFacts ==
  ASSUME NEW S, NEW s \in Seq(S), NEW n \in 1..Len(s)
  PROVE  /\ RemoveAt(s, n) \in Seq(S) /\ Len(RemoveAt(s, n)) = Len(s) - 1
         /\ \A k \in 1..(n - 1) : RemoveAt(s, n)[k] = s[k]
         /\ \A k \in n..(Len(s) - 1) : RemoveAt(s, n)[k] = s[k + 1]
<1> DEFINE a == SubSeq(s, 1, n - 1)
           b == SubSeq(s, n + 1, Len(s))
           t == a \o b
<1>1. RemoveAt(s, n) = t
  BY DEF RemoveAt
<1>2. /\ a \in Seq(S) /\ Len(a) = n - 1
      /\ \A k \in 1..(n - 1) : a[k] = s[k]
  <2>1. \A k \in 1..(n - 1) : s[k] \in S
    OBVIOUS
  <2> QED
    BY <2>1, SubSeqProperties
<1>3. /\ b \in Seq(S) /\ Len(b) = Len(s) - n
      /\ \A k \in 1..(Len(s) - n) : b[k] = s[n + k]
  <2>1. \A k \in (n + 1)..Len(s) : s[k] \in S
    OBVIOUS
  <2> QED
    BY <2>1, SubSeqProperties
<1> HIDE DEF a, b
<1>4. /\ t \in Seq(S) /\ Len(t) = Len(a) + Len(b)
      /\ \A k \in 1..Len(t) : t[k] = IF k <= Len(a) THEN a[k] ELSE b[k - Len(a)]
  <2>1. /\ t \in Seq(S) /\ Len(t) = Len(a) + Len(b)
        /\ \A k \in 1..(Len(a) + Len(b)) : t[k] = IF k <= Len(a) THEN a[k] ELSE b[k - Len(a)]
    BY <1>2, <1>3, ConcatProperties, Zenon
  <2> HIDE DEF t
  <2> QED
    BY <2>1
<1> HIDE DEF t
<1>5. Len(t) = Len(s) - 1
  BY <1>2, <1>3, <1>4
<1>6. ASSUME NEW k \in 1..(n - 1) PROVE t[k] = s[k]
  <2>1. k \in 1..Len(t) /\ k <= Len(a)
    BY <1>2, <1>5
  <2> QED
    BY <1>2, <1>4, <2>1
<1>7. ASSUME NEW k \in n..(Len(s) - 1) PROVE t[k] = s[k + 1]
  <2>1. k - (n - 1) \in 1..(Len(s) - n) /\ n + (k - (n - 1)) = k + 1
    OBVIOUS
  <2>2. t[k] = b[k - (n - 1)]
    BY <1>2, <1>4, <1>5
  <2> QED
    BY <1>3, <2>1, <2>2
<1> QED
  BY <1>1, <1>4, <1>5, <1>6, <1>7

(* Where a write that is still under way was before another was done.      *)
From(k, n) == IF k < n THEN k ELSE k + 1

LEMMA FromFacts ==
  ASSUME OfflineTypeOK, NEW n \in DOMAIN saves, saves' = RemoveAt(saves, n)
  PROVE  /\ saves' \in Seq(Writes)
         /\ \A k \in DOMAIN saves' : /\ From(k, n) \in DOMAIN saves \ {n}
                                     /\ saves'[k] = saves[From(k, n)]
                                     /\ k \in Nat /\ From(k, n) \in Nat
         /\ \A k, l \in DOMAIN saves' : /\ k <= l => From(k, n) <= From(l, n)
                                        /\ From(k, n) = From(l, n) => k = l
         /\ \A m \in DOMAIN saves \ {n} : \E k \in DOMAIN saves' : From(k, n) = m
<1>1. /\ saves \in Seq(Writes) /\ n \in 1..Len(saves)
      /\ Len(saves) \in Nat /\ DOMAIN saves = 1..Len(saves)
  <2>1. saves \in Seq(Writes)
    BY DEF OfflineTypeOK, Writes
  <2> QED
    BY <2>1
<1>2. /\ saves' \in Seq(Writes) /\ Len(saves') = Len(saves) - 1
      /\ \A k \in 1..(n - 1) : saves'[k] = saves[k]
      /\ \A k \in n..(Len(saves) - 1) : saves'[k] = saves[k + 1]
  BY <1>1, RemovalFacts
<1>3. DOMAIN saves' = 1..(Len(saves) - 1)
  BY <1>2
<1>4. ASSUME NEW k \in DOMAIN saves'
      PROVE  /\ From(k, n) \in DOMAIN saves \ {n}
             /\ saves'[k] = saves[From(k, n)]
             /\ k \in Nat /\ From(k, n) \in Nat
  <2>1. CASE k < n
    BY <1>1, <1>2, <1>3, <2>1 DEF From
  <2>2. CASE ~(k < n)
    <3>1. k \in n..(Len(saves) - 1) /\ k + 1 \in 1..Len(saves) /\ k + 1 # n
      BY <1>1, <1>3, <2>2
    <3> QED
      BY <1>1, <1>2, <2>2, <3>1 DEF From
  <2> QED
    BY <2>1, <2>2
<1>5. ASSUME NEW k \in DOMAIN saves', NEW l \in DOMAIN saves'
      PROVE  /\ k <= l => From(k, n) <= From(l, n)
             /\ From(k, n) = From(l, n) => k = l
  BY <1>1, <1>3 DEF From
<1>6. ASSUME NEW m \in DOMAIN saves \ {n}
      PROVE  \E k \in DOMAIN saves' : From(k, n) = m
  <2>1. CASE m < n
    <3>1. m \in DOMAIN saves'
      BY <1>1, <1>3, <2>1
    <3> QED
      BY <2>1, <3>1 DEF From
  <2>2. CASE ~(m < n)
    <3>1. m - 1 \in DOMAIN saves' /\ ~(m - 1 < n) /\ (m - 1) + 1 = m
      BY <1>1, <1>3, <2>2
    <3> QED
      BY <3>1 DEF From
  <2> QED
    BY <2>1, <2>2
<1> QED
  BY <1>2, <1>4, <1>5, <1>6

(* A write ends. *)
LEMMA WriteEndsKeeps ==
  ASSUME OfflineInv, SaveDone
  PROVE  OfflineInv'
<1>0. /\ OfflineTypeOK /\ OwnWrite /\ Kept /\ Retried
  BY DEF OfflineInv
<1>1. PICK n \in DOMAIN saves :
        /\ stored' = saves[n].image
        /\ saves'  = RemoveAt(saves, n)
        /\ resolved' = IF saves[n].by = "enqueue" THEN resolved \cup {saves[n].op} ELSE resolved
        /\ timer' = (timer \/ saves[n].by = "offline")
        /\ CASE saves[n].by = "flush"   -> flush' = [flush EXCEPT !.at = "next", !.op = NoOperation]
             [] saves[n].by = "offline" -> flush' = Idle
             [] saves[n].by = "retry" /\ ~Busy -> Began
             [] OTHER -> UNCHANGED flush
        /\ missed' = missed \cup Overtaken(n)
                       \cup (IF saves[n].by = "retry" /\ Busy THEN {"woken while busy"} ELSE {})
        /\ UNCHANGED <<queued, object, applied, dropped, manual, outages>>
  BY DEF SaveDone
<1> DEFINE by == saves[n].by
<1>2. /\ flush \in Flushes /\ queued \subseteq Operations
      /\ saves[n] \in Writes /\ n \in 1..Len(saves) /\ Len(saves) \in Nat
      /\ DOMAIN saves = 1..Len(saves)
  <2>1. saves \in Seq(Writes)
    BY <1>0 DEF OfflineTypeOK, Writes
  <2>2. flush \in Flushes /\ queued \subseteq Operations
    BY <1>0 DEF OfflineTypeOK, Flushes
  <2> QED
    BY <2>1, <2>2
<1>3. \/ by = "flush" /\ flush' = [at |-> "next", left |-> flush.left, op |-> NoOperation]
      \/ by = "offline" /\ flush' = Idle /\ timer'
      \/ by = "retry" /\ ~Busy /\ Began
      \/ by = "retry" /\ Busy /\ flush' = flush /\ "woken while busy" \in missed'
      \/ by \in {"enqueue", "drop"} /\ flush' = flush
  <2>1. CASE by = "flush"
    <3>1. flush' = [flush EXCEPT !.at = "next", !.op = NoOperation]
      BY <1>1, <2>1
    <3> QED
      BY <1>2, <2>1, <3>1 DEF Flushes
  <2>2. CASE by = "offline"
    <3>1. flush' = Idle
      BY <1>1, <2>2
    <3>2. timer'
      BY <1>1, <2>2
    <3> QED
      BY <2>2, <3>1, <3>2
  <2>3. CASE by = "retry" /\ ~Busy
    BY <1>1, <2>3
  <2>4. CASE by = "retry" /\ Busy
    BY <1>1, <2>4
  <2>5. CASE by \in {"enqueue", "drop"}
    BY <1>1, <2>5
  <2> QED
    BY <1>2, <2>1, <2>2, <2>3, <2>4, <2>5 DEF Writes
<1>4. /\ saves' \in Seq(Writes)
      /\ \A k \in DOMAIN saves' : /\ From(k, n) \in DOMAIN saves \ {n}
                                  /\ saves'[k] = saves[From(k, n)]
                                  /\ k \in Nat /\ From(k, n) \in Nat
      /\ \A k, l \in DOMAIN saves' : /\ k <= l => From(k, n) <= From(l, n)
                                     /\ From(k, n) = From(l, n) => k = l
      /\ \A m \in DOMAIN saves \ {n} : \E k \in DOMAIN saves' : From(k, n) = m
  BY <1>0, <1>1, FromFacts
<1>5. /\ missed \subseteq missed'
      /\ missed' \subseteq {"write overtaken", "woken while busy", "restarted"}
  BY <1>0, <1>1 DEF OfflineTypeOK, Overtaken
<1>6. OfflineTypeOK'
  <2>1. flush' \in Flushes
    <3>1. CASE flush' = [at |-> "next", left |-> flush.left, op |-> NoOperation]
      BY <1>2, <3>1 DEF Flushes
    <3>2. CASE flush' = Idle
      BY <3>2 DEF Idle, Flushes
    <3>3. CASE Began
      BY <1>2, <3>3 DEF Began, Flushes
    <3>4. CASE flush' = flush
      BY <1>2, <3>4
    <3> QED
      BY <1>3, <3>1, <3>2, <3>3, <3>4
  <2>2. stored' \in Image
    BY <1>1, <1>2 DEF Writes
  <2>3. timer' \in BOOLEAN
    BY <1>1
  <2>4. resolved' \subseteq Operations
    <3>1. CASE by = "enqueue"
      <4>1. saves[n].op \in Operations
        BY <1>0, <3>1 DEF OwnWrite
      <4> QED
        BY <1>0, <1>1, <3>1, <4>1 DEF OfflineTypeOK
    <3>2. CASE by # "enqueue"
      BY <1>0, <1>1, <3>2 DEF OfflineTypeOK
    <3> QED
      BY <3>1, <3>2
  <2>5. UNCHANGED <<queued, object, applied, dropped, manual, outages>>
    BY <1>1
  <2> QED
    BY <1>0, <1>4, <1>5, <2>1, <2>2, <2>3, <2>4, <2>5 DEF OfflineTypeOK, Writes, Flushes
<1>7. OwnWrite'
  <2>1. flush'.at = "sent" => flush'.op \in Operations
    <3>1. CASE flush' = [at |-> "next", left |-> flush.left, op |-> NoOperation]
      BY <3>1
    <3>2. CASE flush' = Idle
      BY <3>2 DEF Idle
    <3>3. CASE Began
      BY <3>3 DEF Began
    <3>4. CASE flush' = flush
      BY <1>0, <3>4 DEF OwnWrite
    <3> QED
      BY <1>3, <3>1, <3>2, <3>3, <3>4
  <2>2. \A k \in DOMAIN saves' : saves'[k].by = "enqueue" => saves'[k].op \in Operations
    BY <1>0, <1>4 DEF OwnWrite
  <2>3. ASSUME NEW k \in DOMAIN saves', Own(saves'[k].by)
        PROVE  /\ flush'.at = "saving"
               /\ \A l \in DOMAIN saves' : Own(saves'[l].by) => k = l
    <3>1. /\ Own(saves[From(k, n)].by) /\ From(k, n) \in DOMAIN saves /\ From(k, n) # n
      BY <1>4, <2>3
    <3>2. flush.at = "saving" /\ ~Own(by)
      BY <1>0, <3>1 DEF OwnWrite
    <3>3. flush' = flush
      BY <1>3, <3>2 DEF Own, Busy
    <3>4. \A l \in DOMAIN saves' : Own(saves'[l].by) => From(l, n) = From(k, n)
      BY <1>0, <1>4, <3>1 DEF OwnWrite
    <3> QED
      BY <1>4, <3>2, <3>3, <3>4
  <2> QED
    BY <2>1, <2>2, <2>3 DEF OwnWrite
<1>8. Kept'
  <2> SUFFICES ASSUME "write overtaken" \notin missed'
               PROVE  /\ \A p \in resolved' \ (applied' \cup dropped') :
                           /\ p \in queued' /\ p \in stored'.queued
                           /\ \A i \in DOMAIN saves' : p \in saves'[i].image.queued
                      /\ \A i \in DOMAIN saves' :
                           saves'[i].by = "enqueue" /\ saves'[i].op \notin applied' \cup dropped' =>
                             /\ saves'[i].op \in queued'
                             /\ \A j \in DOMAIN saves' :
                                  i <= j => saves'[i].op \in saves'[j].image.queued
    BY DEF Kept
  <2>1. n = 1 /\ "write overtaken" \notin missed /\ \A j \in DOMAIN saves : n <= j
    <3>1. ~(n > 1)
      BY <1>1 DEF Overtaken
    <3>2. n = 1
      BY <1>2, <3>1, TheFirst
    <3>3. \A j \in 1..Len(saves) : 1 <= j
      BY <1>2, TheFirst
    <3> QED
      BY <1>2, <1>5, <3>2, <3>3
  <2>2. ASSUME NEW p \in resolved' \ (applied' \cup dropped')
        PROVE  /\ p \in queued' /\ p \in stored'.queued
               /\ \A i \in DOMAIN saves' : p \in saves'[i].image.queued
    <3>1. /\ p \in queued
          /\ \A j \in DOMAIN saves : p \in saves[j].image.queued
      <4>1. CASE p \in resolved
        BY <1>0, <1>1, <2>1, <2>2, <4>1 DEF Kept
      <4>2. CASE p \notin resolved
        <5>1. by = "enqueue" /\ p = saves[n].op /\ p \notin applied \cup dropped
          BY <1>1, <2>2, <4>2
        <5> QED
          BY <1>0, <2>1, <5>1 DEF Kept
      <4> QED
        BY <4>1, <4>2
    <3> QED
      BY <1>1, <1>4, <3>1
  <2>3. ASSUME NEW i \in DOMAIN saves', saves'[i].by = "enqueue",
               saves'[i].op \notin applied' \cup dropped'
        PROVE  /\ saves'[i].op \in queued'
               /\ \A j \in DOMAIN saves' : i <= j => saves'[i].op \in saves'[j].image.queued
    <3>1. /\ From(i, n) \in DOMAIN saves /\ saves'[i] = saves[From(i, n)]
          /\ saves[From(i, n)].by = "enqueue" /\ saves[From(i, n)].op \notin applied \cup dropped
      BY <1>1, <1>4, <2>3
    <3>2. /\ saves[From(i, n)].op \in queued
          /\ \A j \in DOMAIN saves :
               From(i, n) <= j => saves[From(i, n)].op \in saves[j].image.queued
      BY <1>0, <2>1, <3>1 DEF Kept
    <3>3. ASSUME NEW j \in DOMAIN saves', i <= j
          PROVE  saves'[i].op \in saves'[j].image.queued
      <4>1. From(j, n) \in DOMAIN saves /\ From(i, n) <= From(j, n) /\ saves'[j] = saves[From(j, n)]
        BY <1>4, <3>3
      <4> QED
        BY <3>1, <3>2, <4>1
    <3> QED
      BY <1>1, <3>1, <3>2, <3>3
  <2> QED
    BY <2>2, <2>3
<1>9. Retried'
  <2> SUFFICES ASSUME Undisturbed', NEW p \in queued', object'[p].status = "pending",
                      object'[p].attempts > 0
               PROVE  Awaits(p)'
    BY DEF Retried, Awaits, Busy
  <2>1. p \in queued /\ object'[p] = object[p] /\ Undisturbed /\ "woken while busy" \notin missed'
    BY <1>1, <1>5 DEF Undisturbed
  <2>2. Awaits(p)
    BY <1>0, <2>1 DEF Retried
  <2>3. CASE timer \/ by = "offline"
    BY <1>1, <2>3 DEF Awaits
  <2>4. CASE by = "retry"
    <3>1. ~Busy /\ Began
      BY <1>3, <2>1, <2>4
    <3>2. flush' = [at |-> "next", left |-> queued, op |-> NoOperation]
      BY <3>1 DEF Began
    <3>3. Busy' /\ p \in flush'.left
      BY <2>1, <3>2 DEF Busy
    <3> QED
      BY <3>3 DEF Awaits
  <2>5. CASE by = "flush" /\ ~timer
    <3>1. flush.at = "saving" /\ \A j \in DOMAIN saves : Own(saves[j].by) => j = n
      BY <1>0, <2>5 DEF OwnWrite, Own
    <3>2. p \in flush.left
      BY <2>2, <2>5, <3>1 DEF Awaits, Own
    <3>3. flush'.at = "next" /\ flush'.left = flush.left
      BY <1>3, <2>5
    <3> QED
      BY <3>2, <3>3 DEF Awaits, Busy
  <2>6. CASE by \in {"enqueue", "drop"} /\ ~timer
    <3>1. flush' = flush
      BY <1>3, <2>6
    <3>2. CASE flush.at = "saving" /\ \E j \in DOMAIN saves : saves[j].by = "offline"
      <4>1. PICK j \in DOMAIN saves : saves[j].by = "offline"
        BY <3>2
      <4>2. j # n
        BY <2>6, <4>1
      <4>3. PICK k \in DOMAIN saves' : From(k, n) = j
        BY <1>4, <4>1, <4>2
      <4> QED
        BY <1>4, <3>1, <3>2, <4>1, <4>3 DEF Awaits
    <3> QED
      BY <2>2, <2>6, <3>1, <3>2 DEF Awaits, Busy
  <2> QED
    BY <1>2, <2>3, <2>4, <2>5, <2>6 DEF Writes
<1> QED
  BY <1>6, <1>7, <1>8, <1>9 DEF OfflineInv

(* The client is closed and comes back with what was stored. *)
LEMMA RestartKeeps ==
  ASSUME OfflineInv, Restart
  PROVE  OfflineInv'
<1>0. /\ OfflineTypeOK /\ OwnWrite /\ Kept /\ Retried
  BY DEF OfflineInv
<1>1. /\ queued' = stored.queued /\ object' = stored.object /\ saves' = <<>>
      /\ flush' = Idle /\ timer' = FALSE /\ missed' = missed \cup {"restarted"}
      /\ applied \subseteq applied' /\ applied' \subseteq Operations
      /\ outages' \in 0..MaxOutages
      /\ UNCHANGED <<stored, resolved, dropped, manual>>
  <2>1. outages' \in 0..MaxOutages
    <3>1. outages < MaxOutages /\ outages' = outages + 1
      BY DEF Restart, Outage
    <3>2. outages \in 0..MaxOutages /\ MaxOutages \in Nat
      BY <1>0, OfflineAssumption DEF OfflineTypeOK
    <3> QED
      BY <3>1, <3>2
  <2>2. applied' = applied \/ (flush.at = "sent" /\ applied' = applied \cup {flush.op})
    BY DEF Restart, Serves
  <2>3. applied \subseteq applied' /\ applied' \subseteq Operations
    BY <1>0, <2>2 DEF OfflineTypeOK, OwnWrite
  <2> QED
    BY <2>1, <2>3 DEF Restart
<1>2. OfflineTypeOK'
  <2>1. Idle \in Flushes
    BY DEF Idle, Flushes
  <2>2. stored.queued \subseteq Operations
        /\ stored.object \in [Operations -> [status : {"pending", "failed"}, attempts : Nat]]
    BY <1>0 DEF OfflineTypeOK, Image
  <2>3. saves' \in Seq(Writes)
    BY <1>1
  <2> QED
    BY <1>0, <1>1, <2>1, <2>2, <2>3 DEF OfflineTypeOK, Writes, Flushes
<1>3. OwnWrite'
  BY <1>1 DEF OwnWrite, Idle
<1>4. Kept'
  <2> SUFFICES ASSUME "write overtaken" \notin missed'
               PROVE  /\ \A p \in resolved' \ (applied' \cup dropped') :
                           p \in queued' /\ p \in stored'.queued
                      /\ ~\E i \in DOMAIN saves' : i = i
    BY DEF Kept
  <2>1. "write overtaken" \notin missed
    BY <1>1
  <2>2. \A p \in resolved \ (applied \cup dropped) : p \in stored.queued
    BY <1>0, <2>1 DEF Kept
  <2>3. ~\E i \in DOMAIN saves' : i = i
    <3>1. saves' = <<>>
      BY <1>1
    <3> QED
      BY <3>1, NoneOfNone
  <2> QED
    BY <1>1, <2>2, <2>3
<1>5. Retried'
  BY <1>1 DEF Retried, Undisturbed
<1> QED
  BY <1>2, <1>3, <1>4, <1>5 DEF OfflineInv

LEMMA OfflineInvariant == OfflineInv /\ [OfflineNext]_offlineVars => OfflineInv'
<1> SUFFICES ASSUME OfflineInv, [OfflineNext]_offlineVars PROVE OfflineInv'
  OBVIOUS
<1>1. ASSUME NEW o \in Operations, Enqueue(o) \/ Retry(o) \/ Drop(o) PROVE OfflineInv'
  BY <1>1, CallsKeep
<1>2. CASE CallFlush \/ TimerFires \/ FlushOver \/ \E o \in Operations : SendNext(o)
  BY <1>2, FlushMovesKeep
<1>3. CASE Delivered \/ Refused \/ CutOff
  BY <1>3, AnswersKeep
<1>4. CASE SaveDone
  BY <1>4, WriteEndsKeeps
<1>5. CASE Restart
  BY <1>5, RestartKeeps
<1>6. CASE UNCHANGED offlineVars
  BY <1>6 DEF offlineVars, OfflineInv, OfflineTypeOK, OwnWrite, Kept, Retried, Own, Awaits,
              Undisturbed, Busy
<1> QED
  BY <1>1, <1>2, <1>3, <1>4, <1>5, <1>6 DEF OfflineNext

(* No list, storage or write holds anything but operations of the client. *)
THEOREM OfflineTypes == OfflineSpec => []OfflineTypeOK
<1> QED
  BY OfflineInitially, OfflineInvariant, PTL DEF OfflineSpec, OfflineInv

(* For any number of operations, manual calls, restarts and writes under   *)
(* way at once: what an enqueue resolved for is stored, carried out or     *)
(* dropped, unless the storage finished two writes in the wrong order.     *)
THEOREM NothingResolvedIsLostAlways == OfflineSpec => []NothingResolvedIsLost
<1>1. OfflineInv => NothingResolvedIsLost
  BY DEF OfflineInv, Kept, NothingResolvedIsLost
<1> QED
  BY <1>1, OfflineInitially, OfflineInvariant, PTL DEF OfflineSpec

(* An operation that failed and is to be tried again always has the timer  *)
(* or a flush to wait for, but for the two events the property names.      *)
THEOREM FailureIsRetriedAlways == OfflineSpec => []FailureIsRetried
<1>1. OfflineInv => FailureIsRetried
  BY DEF OfflineInv, Retried, Awaits, Undisturbed, Busy, FailureIsRetried
<1> QED
  BY <1>1, OfflineInitially, OfflineInvariant, PTL DEF OfflineSpec

-----------------------------------------------------------------------------
(* The shop. A step of one part leaves the others where they are.          *)
LEMMA ShopParts ==
  ShopSpec => Spec /\ WebSpec /\ DiscountSpec /\ OfflineSpec /\ BookingSpec
<1>1. ShopInit => Init /\ WebInit /\ DiscountInit /\ OfflineInit /\ BookingInit
  BY DEF ShopInit
<1> DEFINE allVars == <<scene, vars, webVars, discountVars, offlineVars, bookingVars>>
<1>2. [ShopNext]_allVars => [Next]_vars
  BY DEF ShopNext
<1>3. [ShopNext]_allVars => [WebNext]_webVars
  BY DEF ShopNext
<1>4. [ShopNext]_allVars => [DiscountNext]_discountVars
  BY DEF ShopNext
<1>5. [ShopNext]_allVars => [OfflineNext]_offlineVars
  BY DEF ShopNext
<1>6. [ShopNext]_allVars => [BookingNext]_bookingVars
  BY DEF ShopNext
<1> QED
  BY <1>1, <1>2, <1>3, <1>4, <1>5, <1>6, PTL
     DEF ShopSpec, Spec, WebSpec, DiscountSpec, OfflineSpec, BookingSpec

(* Whatever happens in the shop, every part's state keeps its type: no     *)
(* level of stock, balance, count of attempts or of retries leaves its     *)
(* range.                                                                  *)
THEOREM ShopTypes == ShopSpec => []TypesOK
<1>1. DiscountInv => DiscountTypeOK
  BY DEF DiscountInv
<1>2. BookingInv => BookingTypeOK
  BY DEF BookingInv
<1> QED
  BY ShopParts, StockTypes, WebTypes, DiscountInvariant, OfflineTypes, BookingInvariant,
     <1>1, <1>2, PTL DEF TypesOK

(* The shop as the run explores it, for every value of its constants:      *)
(* every part keeps its promises beside the others.                        *)
THEOREM ShopIsSafe ==
  ShopSpec => []( /\ ReservedIsHeld /\ NeverOversold /\ LedgerExplainsStock
                  /\ TakenOnce
                  /\ RowsExplainBalance /\ PriceIsPaid /\ UsesWithinLimit
                  /\ NothingResolvedIsLost /\ FailureIsRetried
                  /\ NoDoubleBooking )
BY ShopParts, ReservedIsHeldAlways, NeverOversoldAlways, LedgerExplainsStockAlways,
   TakenOnceAlways, RowsExplainBalanceAlways, PriceIsPaidAlways, UsesWithinLimitAlways,
   NothingResolvedIsLostAlways, FailureIsRetriedAlways, NoDoubleBookingAlways, PTL
=============================================================================
