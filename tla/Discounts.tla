----------------------------- MODULE Discounts ------------------------------
(***************************************************************************)
(* What a checkout takes besides stock and payment: money from gift cards, *)
(* debited by a hook in transactions of its own before the payment, and a  *)
(* use of a promotion, counted before and recorded after the order. Staff  *)
(* issue, adjust and disable cards meanwhile.                              *)
(***************************************************************************)
EXTENDS Integers

CONSTANTS
  Checkouts,
  Cards,
  Codes,      \* [Checkouts -> the cards whose code the shopper gave]
  Due,        \* what a checkout costs before the promotion
  Rebate,     \* what the promotion takes off
  UsageLimit, \* usageLimitTotal
  FaceValue,  \* initialAmount of a card
  Deltas,     \* what staff adjust a balance by
  NoCard,
  MaxAdjusts

ASSUME DiscountAssumption ==
  /\ Codes \in [Checkouts -> SUBSET Cards] /\ NoCard \notin Cards
  /\ Due \in Nat /\ Rebate \in 0..Due
  /\ UsageLimit \in Nat /\ FaceValue \in Nat \ {0}
  /\ Deltas \subseteq Int /\ MaxAdjusts \in Nat

VARIABLES
  card,      \* [Cards -> balance and status]
  recorded,  \* [Cards -> the sum of its transaction rows]
  unlisted,  \* cards whose first row is still to be written, or never was
  uses,      \* promotion_usages rows
  checkout,  \* [Checkouts -> step, codes left, card and amount asked, remaining, given, rebate]
  charged,   \* [Checkouts -> total of its order, -1 without one]
  miscounts, \* history: uses recorded on a count that was no longer true
  adjusts

discountVars == <<card, recorded, unlisted, uses, checkout, charged, miscounts, adjusts>>

Steps == {"idle", "cards", "debit", "pay", "create", "count", "insert", "placed", "failed"}

DiscountTypeOK ==
  /\ card \in [Cards -> [balance : 0..FaceValue,
                         status : {"none", "active", "disabled", "exhausted"}]]
  /\ recorded \in [Cards -> Int]
  /\ unlisted \subseteq Cards
  /\ uses \in Nat
  /\ checkout \in [Checkouts -> [at : Steps, left : SUBSET Cards,
                                 card : Cards \cup {NoCard}, asked : Nat,
                                 remaining : Nat, given : Nat, rebate : 0..Due]]
  /\ charged \in [Checkouts -> Nat \cup {-1}]
  /\ miscounts \in Nat
  /\ adjusts \in 0..MaxAdjusts

DiscountInit ==
  /\ card      = [c \in Cards |-> [balance |-> 0, status |-> "none"]]
  /\ recorded  = [c \in Cards |-> 0]
  /\ unlisted  = {}
  /\ uses      = 0
  /\ checkout  = [r \in Checkouts |-> [at |-> "idle", left |-> Codes[r], card |-> NoCard,
                    asked |-> 0, remaining |-> 0, given |-> 0, rebate |-> 0]]
  /\ charged   = [r \in Checkouts |-> -1]
  /\ miscounts = 0
  /\ adjusts   = 0

Least(m, n) == IF m < n THEN m ELSE n
Most(m, n)  == IF m < n THEN n ELSE m

-----------------------------------------------------------------------------
(* create: the card's row, then its first transaction row.                 *)
IssueCard(c) ==
  /\ card[c].status = "none"
  /\ card' = [card EXCEPT ![c] = [balance |-> FaceValue, status |-> "active"]]
  /\ unlisted' = unlisted \cup {c}
  /\ UNCHANGED <<recorded, uses, checkout, charged, miscounts, adjusts>>

RecordIssue(c) ==
  /\ c \in unlisted
  /\ unlisted' = unlisted \ {c}
  /\ recorded' = [recorded EXCEPT ![c] = @ + FaceValue]
  /\ UNCHANGED <<card, uses, checkout, charged, miscounts, adjusts>>

(* updateBalance and the row, under the card's row lock *)
Balanced(c, balance) ==
  card' = [card EXCEPT ![c] = [balance |-> balance,
                               status |-> IF balance = 0 THEN "exhausted" ELSE "active"]]

(* mutant: the row says what was asked for *)
DeltaAsked(c, delta) == delta

(* What an adjustment comes to between nothing and the initial amount.     *)
DeltaMade(c, delta) ==
  Most(0, Least(FaceValue, card[c].balance + delta)) - card[c].balance

(* An adjustment makes a disabled card active or exhausted again.          *)
AdjustCard(c) ==
  \E delta \in Deltas :
    /\ card[c].status # "none"
    /\ adjusts < MaxAdjusts /\ adjusts' = adjusts + 1
    /\ Balanced(c, Most(0, Least(FaceValue, card[c].balance + delta)))
    /\ recorded' = [recorded EXCEPT ![c] = @ + DeltaMade(c, delta)]
    /\ UNCHANGED <<unlisted, uses, checkout, charged, miscounts>>

DisableCard(c) ==
  /\ card[c].status # "none"
  /\ adjusts < MaxAdjusts /\ adjusts' = adjusts + 1
  /\ card' = [card EXCEPT ![c].status = "disabled"]
  /\ UNCHANGED <<recorded, unlisted, uses, checkout, charged, miscounts>>

-----------------------------------------------------------------------------
At(r, step) == checkout[r].at = step
Goto(r, step) == checkout' = [checkout EXCEPT ![r].at = step]

(* applyPromotions: a promotion used up is left out, not an error.         *)
ApplyPromotion(r) ==
  /\ At(r, "idle")
  /\ LET rebate == IF uses >= UsageLimit THEN 0 ELSE Rebate IN
       checkout' = [checkout EXCEPT ![r].at = "cards", ![r].rebate = rebate,
                                    ![r].remaining = Due - rebate]
  /\ UNCHANGED <<card, recorded, unlisted, uses, charged, miscounts, adjusts>>

(* The deduction hook, code by code: the balance is read without a lock.   *)
CheckBalance(r) ==
  \E c \in checkout[r].left :
    /\ At(r, "cards") /\ checkout[r].remaining > 0
    /\ LET k == checkout[r]  amount == Least(k.remaining, card[c].balance) IN
         checkout' = [checkout EXCEPT
           ![r] = IF card[c].status = "none" \/ amount = 0
                  THEN [k EXCEPT !.left = @ \ {c}]
                  ELSE [k EXCEPT !.left = @ \ {c}, !.at = "debit", !.card = c, !.asked = amount]]
    /\ UNCHANGED <<card, recorded, unlisted, uses, charged, miscounts, adjusts>>

Debitable(c, amount) == card[c].status = "active" /\ card[c].balance >= amount

(* mutant: what was asked for is taken off the total, debited or not *)
CountedAnyhow(r) ==
  checkout' = [checkout EXCEPT
    ![r].at = "cards", ![r].card = NoCard, ![r].asked = 0,
    ![r].remaining = @ - checkout[r].asked,
    ![r].given = IF Debitable(checkout[r].card, checkout[r].asked)
                 THEN @ + checkout[r].asked ELSE @]

(* Only a debit that was made is taken off the total.                      *)
CountDebit(r) ==
  LET got == IF Debitable(checkout[r].card, checkout[r].asked)
             THEN checkout[r].asked ELSE 0
  IN checkout' = [checkout EXCEPT
       ![r].at = "cards", ![r].card = NoCard, ![r].asked = 0,
       ![r].remaining = @ - got, ![r].given = @ + got]

(* debitWithLock, then the hook's own sums *)
DebitCard(r) ==
  LET c == checkout[r].card  amount == checkout[r].asked IN
  /\ At(r, "debit")
  /\ IF Debitable(c, amount)
     THEN /\ Balanced(c, card[c].balance - amount)
          /\ recorded' = [recorded EXCEPT ![c] = @ - amount]
     ELSE UNCHANGED <<card, recorded>>
  /\ CountDebit(r)
  /\ UNCHANGED <<unlisted, uses, charged, miscounts, adjusts>>

CardsDone(r) ==
  /\ At(r, "cards")
  /\ checkout[r].left = {} \/ checkout[r].remaining = 0
  /\ Goto(r, "pay")
  /\ UNCHANGED <<card, recorded, unlisted, uses, charged, miscounts, adjusts>>

(* Authorization and creation. A checkout that fails returns nothing to    *)
(* the cards: no pipeline runs checkout.afterCreate without a result.      *)
Authorize(r) ==
  /\ At(r, "pay")
  /\ Goto(r, "create") \/ Goto(r, "failed")
  /\ UNCHANGED <<card, recorded, unlisted, uses, charged, miscounts, adjusts>>

CreateOrder(r) ==
  /\ At(r, "create")
  /\ \/ Goto(r, "failed") /\ UNCHANGED charged
     \/ /\ charged' = [charged EXCEPT ![r] = checkout[r].remaining]
        /\ Goto(r, IF checkout[r].rebate > 0 THEN "count" ELSE "placed")
  /\ UNCHANGED <<card, recorded, unlisted, uses, miscounts, adjusts>>

(* createUsage: the lock on the promotion's row lasts for its own          *)
(* statement only; then the count, then the insert. A used-up promotion    *)
(* throws and leaves the order behind.                                     *)
CountAnyhow(r) ==   \* mutant: the count made with the prices is enough
  /\ At(r, "count")
  /\ Goto(r, "insert")
  /\ UNCHANGED <<card, recorded, unlisted, uses, charged, miscounts, adjusts>>

CountUses(r) ==
  /\ At(r, "count")
  /\ Goto(r, IF uses >= UsageLimit THEN "failed" ELSE "insert")
  /\ UNCHANGED <<card, recorded, unlisted, uses, charged, miscounts, adjusts>>

InsertUse(r) ==
  /\ At(r, "insert")
  /\ Goto(r, "placed")
  /\ uses' = uses + 1
  /\ miscounts' = IF \E q \in Checkouts \ {r} : At(q, "insert")
                  THEN miscounts + 1 ELSE miscounts
  /\ UNCHANGED <<card, recorded, unlisted, charged, adjusts>>

DiscountNext ==
  \/ \E c \in Cards : IssueCard(c) \/ RecordIssue(c) \/ AdjustCard(c) \/ DisableCard(c)
  \/ \E r \in Checkouts :
       \/ ApplyPromotion(r) \/ CheckBalance(r) \/ DebitCard(r) \/ CardsDone(r)
       \/ Authorize(r) \/ CreateOrder(r) \/ CountUses(r) \/ InsertUse(r)

DiscountSpec == DiscountInit /\ [][DiscountNext]_discountVars

-----------------------------------------------------------------------------
(* The transaction rows of a card sum up to its balance, whatever is       *)
(* clamped, debited at once by two checkouts or adjusted before the first  *)
(* row is there.                                                           *)
RowsExplainBalance ==
  \A c \in Cards :
    card[c].balance = recorded[c] + IF c \in unlisted THEN FaceValue ELSE 0

(* An order's total and what the cards really gave make up its price: a    *)
(* debit refused because another checkout was faster is charged.           *)
PriceIsPaid ==
  \A r \in Checkouts :
    charged[r] # -1 => charged[r] + checkout[r].given + checkout[r].rebate = Due

(* A promotion is recorded beyond its limit only by checkouts that counted *)
(* its uses while another was about to record its own.                     *)
UsesWithinLimit == uses <= UsageLimit + miscounts
=============================================================================
