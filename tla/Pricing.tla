------------------------------ MODULE Pricing ------------------------------
(***************************************************************************)
(* What a transfer costs and what a currency is worth: FeesService and     *)
(* FxService, on tables that the administrator changes while the system    *)
(* runs (PlatformSettingsService).  Fees are in hundredths; rates are      *)
(* fractions <<n, d>>, rounded wherever a Decimal is.                      *)
(***************************************************************************)
EXTENDS Actors, Integers

CONSTANTS
  Currencies,  \* the currency codes; USD is the bridge
  USD,
  Priced,      \* the currencies fee rules are made for
  Rails,       \* the rails of transfers of one type
  Amount,      \* the amount of the transfers looked at
  MinFees,     \* what a minFee can be set to
  MaxFees,     \* what a maxFee can be set to
  RateRows,    \* what an ExchangeRate row can hold, in units of 1/RateUnit
  RateUnit,
  Powers,      \* the powers of ten that matter
  Least        \* the least number with as many digits as a Decimal keeps

ASSUME PricingAssumption ==
  /\ USD \in Currencies /\ Priced \subseteq Currencies
  /\ None \notin Currencies \cup Rails \cup Nat
  /\ Amount \in Nat /\ MinFees \subseteq Nat /\ MaxFees \subseteq Nat
  /\ RateRows \subseteq Nat \ {0} /\ RateUnit \in Nat \ {0}
  /\ Powers \subseteq Nat \ {0}
  /\ \A p \in Powers : p = 1 \/ (p % 10 = 0 /\ p \div 10 \in Powers)
  /\ Least \in Nat /\ Least >= 10

VARIABLES
  active,  \* the fee rules in force, by what they are for
  bounds,  \* bounds[rule]: the minFee and maxFee of the rule; None: no maxFee
  rates    \* rates[<<base, quote>>]: the ExchangeRate row, 0 where there is none

pricingVars == <<active, bounds, rates>>

(* A rule is for a rail and a currency, or for any (null).                 *)
RuleFor == [rail : Rails \cup {None}, currency : Priced \cup {None}]

(* A rule's flatFee and percentageFee stay as they are made: the more      *)
(* specific, the dearer.                                                   *)
Flat(rule) == (IF rule.rail = None THEN 0 ELSE 20) + (IF rule.currency = None THEN 0 ELSE 10)
Percentage == 1

PairsOf == {p \in Currencies \X Currencies : p[1] # p[2]}

PricingInit ==
  /\ active = {}
  /\ bounds = [rule \in RuleFor |-> [min |-> 0, max |-> None]]
  /\ rates = [p \in PairsOf |-> 0]

(* setFeeRuleActive, updateFeeRule and the upsert of an exchange rate.     *)
SetFeeRuleActive ==
  /\ \E rule \in RuleFor :
       active' = IF rule \in active THEN active \ {rule} ELSE active \cup {rule}
  /\ UNCHANGED <<bounds, rates>>

(* A bound that is not given, or empty, stays: a maxFee is never taken back. *)
UpdateFeeRule ==
  /\ \E rule \in RuleFor :
       \E min \in MinFees \cup {bounds[rule].min}, max \in MaxFees \cup {bounds[rule].max} :
         bounds' = [bounds EXCEPT ![rule] = [min |-> min, max |-> max]]
  /\ UNCHANGED <<active, rates>>

UpsertExchangeRate ==
  /\ \E p \in PairsOf, r \in RateRows : rates' = [rates EXCEPT ![p] = r]
  /\ UNCHANGED <<active, bounds>>

PricingNext == SetFeeRuleActive \/ UpdateFeeRule \/ UpsertExchangeRate

PricingSpec == PricingInit /\ [][PricingNext]_pricingVars

-----------------------------------------------------------------------------
(* calculateFee.                                                           *)

Candidates(rail) == {rule \in active : rule.rail \in {rail, None}}

(* As a bug would: a rule for the currency is preferred to one for the rail. *)
PreferredCurrency(rail, currency) ==
  << [rail |-> rail, currency |-> currency], [rail |-> None, currency |-> currency],
     [rail |-> rail, currency |-> None], [rail |-> None, currency |-> None] >>

(* The rules that are tried one after the other: rail and currency, rail,  *)
(* currency, neither.                                                      *)
Preferred(rail, currency) ==
  << [rail |-> rail, currency |-> currency], [rail |-> rail, currency |-> None],
     [rail |-> None, currency |-> currency], [rail |-> None, currency |-> None] >>

(* The rules calculateFee may apply: the first that is there; when none is, *)
(* the first candidate the query returned, whatever its currency.          *)
Applied(rail, currency) ==
  LET found == {i \in 1..4 : Preferred(rail, currency)[i] \in Candidates(rail)}
  IN  IF found = {} THEN Candidates(rail)
      ELSE {Preferred(rail, currency)[CHOOSE i \in found : \A j \in found : i <= j]}

(* First raised to the rule's minFee, then cut to its maxFee.  The bounds  *)
(* are Decimals, which count as given even when they are zero.             *)
Bounded(rule, fee) ==
  LET raised == IF fee < bounds[rule].min THEN bounds[rule].min ELSE fee
  IN  IF bounds[rule].max # None /\ raised > bounds[rule].max THEN bounds[rule].max ELSE raised

FeeOf(rule) == Bounded(rule, Amount * Percentage + Flat(rule))

CalculateFee(rail, currency) ==
  IF Candidates(rail) = {} THEN {0} ELSE {FeeOf(rule) : rule \in Applied(rail, currency)}

-----------------------------------------------------------------------------
(* getRate.                                                                *)

NoRate == <<0, 0>>
Product(x, y) == <<x[1] * y[1], x[2] * y[2]>>

(* dividedBy and times keep so many digits and round half up: x is scaled  *)
(* by a power of ten to a number of that many digits, and back.            *)
Places == {<<p, 1>> : p \in Powers} \cup {<<1, p>> : p \in Powers}
FitsAt(x, s) == (s[1] * x[1]) \div (s[2] * x[2]) \in Least..(10 * Least - 1)
HalfUp(n, d) == (2 * n + d) \div (2 * d)
Rounded(x) ==
  LET s == CHOOSE s \in Places : FitsAt(x, s)
  IN  <<HalfUp(s[1] * x[1], s[2] * x[2]) * s[2], s[1]>>

(* A row as it stands, and its inverse.                                    *)
Direct(r) == <<r, RateUnit>>
Inverse(r) == <<RateUnit, r>>

(* Powers has what every rate in use needs: a Decimal has any exponent.    *)
Legs == {Direct(r) : r \in RateRows} \cup {Rounded(Inverse(r)) : r \in RateRows}
ASSUME PowersSuffice ==
  \A x \in {Inverse(r) : r \in RateRows} \cup {Product(y, z) : y, z \in Legs} :
    \E s \in Places : FitsAt(x, s)

(* rateBetweenIds: the row, or the inverse of the row the other way.       *)
Leg(base, quote) ==
  IF base = quote THEN <<1, 1>>
  ELSE IF rates[<<base, quote>>] # 0 THEN Direct(rates[<<base, quote>>])
  ELSE IF rates[<<quote, base>>] # 0 THEN Rounded(Inverse(rates[<<quote, base>>]))
  ELSE NoRate

(* Otherwise the bridge through USD.                                       *)
GetRate(base, quote) ==
  IF Leg(base, quote) # NoRate \/ USD \in {base, quote} THEN Leg(base, quote)
  ELSE LET toUsd == Leg(base, USD)
           fromUsd == Leg(USD, quote)
       IN  IF toUsd # NoRate /\ fromUsd # NoRate THEN Rounded(Product(toUsd, fromUsd))
           ELSE NoRate

-----------------------------------------------------------------------------
PricingTypeOK ==
  /\ active \subseteq RuleFor
  /\ bounds \in [RuleFor -> [min : Nat, max : Nat \cup {None}]]
  /\ rates \in [PairsOf -> RateRows \cup {0}]

Fitting(rail, currency) ==
  {rule \in active : rule.rail \in {rail, None} /\ rule.currency \in {currency, None}}

(* A rule for the rail comes before one that is not, and then one for the  *)
(* currency.                                                               *)
AtLeastAsClose(rule, other) ==
  \/ rule.rail # None /\ other.rail = None
  \/ (rule.rail = None <=> other.rail = None) /\ (other.currency # None => rule.currency # None)

(* Where a rule fits rail and currency, the fee is that of the closest     *)
(* one, and it keeps that rule's own bounds, the upper one in any case     *)
(* (calculateFee).                                                         *)
FeeOfClosestRule ==
  \A rail \in Rails, currency \in Currencies :
    Fitting(rail, currency) # {} =>
      \E best \in Fitting(rail, currency) :
        /\ \A rule \in Fitting(rail, currency) : AtLeastAsClose(best, rule)
        /\ \A fee \in CalculateFee(rail, currency) :
             /\ fee \in {Amount * Percentage + Flat(best), bounds[best].min, bounds[best].max}
             /\ bounds[best].max # None => fee <= bounds[best].max
             /\ bounds[best].max = None \/ bounds[best].min <= bounds[best].max =>
                  fee >= bounds[best].min

(* What the comment of calculateFee says: a transfer that no rule fits     *)
(* costs nothing.                                                          *)
ZeroFeeWithoutRule ==
  \A rail \in Rails, currency \in Currencies :
    Fitting(rail, currency) = {} => CalculateFee(rail, currency) = {0}

(* A fraction that is one to within so many halves of the last digit.      *)
NearOne(x, below, above) ==
  /\ (2 * Least - below) * x[2] <= 2 * Least * x[1]
  /\ 2 * Least * x[1] <= (2 * Least + above) * x[2]

OneRow(a, b) == a = b \/ rates[<<a, b>>] = 0 \/ rates[<<b, a>>] = 0

(* There and back gives the amount back, as far as the digits go: a rate   *)
(* one way is a rate the other way, and their product is one to within a   *)
(* half of the last digit, or five over the bridge, where four roundings   *)
(* meet; as long as no pair has a row of its own for each way (getRate).   *)
RoundTrip ==
  \A a, b \in Currencies :
    LET there == GetRate(a, b)
        back == GetRate(b, a)
    IN  /\ there = NoRate <=> back = NoRate
        /\ there # NoRate /\ OneRow(a, b) /\ OneRow(a, USD) /\ OneRow(b, USD) =>
             IF Leg(a, b) # NoRate THEN NearOne(Product(there, back), 1, 1)
             ELSE NearOne(Product(there, back), 4, 5)

(* The tables keep their shapes; fees and rates are true to them.          *)
PricingTrue == PricingTypeOK /\ FeeOfClosestRule /\ RoundTrip
=============================================================================
