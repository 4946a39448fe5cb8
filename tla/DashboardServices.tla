-------------------------- MODULE DashboardServices --------------------------
(***************************************************************************)
(* What the browser can ask of the API, one record per service of the      *)
(* backend: for a request that changes something, the status of the row it *)
(* acts on, the statuses it accepts, the status it leaves, whether asking  *)
(* twice makes a second row, the tables it writes and what others may make *)
(* of the row meanwhile; for a query, the tables its answer is taken from. *)
(*                                                                         *)
(* "-" stands for a request that acts on no row shown by a page.  A table  *)
(* is split where one user writes and another reads: "my offers" are not   *)
(* the "offers" of other sellers.                                          *)
(***************************************************************************)

(* Tables that have no entry in common, as one.                            *)
Together(tables) ==
  [x \in UNION {DOMAIN f : f \in tables} |-> (CHOOSE f \in tables : x \in DOMAIN f)[x]]

(* A request that makes one more row each time.                            *)
Makes(tables) ==
  [rows |-> {"-"}, from |-> {"-"}, to |-> "-", again |-> TRUE, writes |-> tables, others |-> {}]

(* A request that writes the same thing however often it is asked.         *)
Sets(tables) ==
  [rows |-> {"-"}, from |-> {"-"}, to |-> "-", again |-> FALSE, writes |-> tables, others |-> {}]

(* A request that adds to a row and leaves its status as it is.            *)
Adds(rows, from, tables, others) ==
  [rows |-> rows, from |-> from, to |-> "same", again |-> TRUE, writes |-> tables,
   others |-> others]

(* A request that moves a row: accepted in the statuses from, left in to;  *)
(* others are the moves made by other users, by jobs or by another window. *)
Moves(rows, from, to, tables, others) ==
  [rows |-> rows, from |-> from, to |-> to, again |-> FALSE, writes |-> tables, others |-> others]

-----------------------------------------------------------------------------
(* Requests that change something.                                         *)

OfferStatus == {"ACTIVE", "PAUSED", "CLOSED"}

(* Offers: setOfferStatus looks at the owner only, never at the status.    *)
P2pOffers ==
  [createOffer |-> Makes({"my offers"}),
   pause       |-> Moves(OfferStatus, OfferStatus, "PAUSED", {"my offers"}, {}),
   resume      |-> Moves(OfferStatus, OfferStatus, "ACTIVE", {"my offers"}, {}),
   close       |-> Moves(OfferStatus, OfferStatus, "CLOSED", {"my offers"}, {})]

GiftOrderStatus == {"PENDING_DELIVERY", "DELIVERED", "DISPUTED", "COMPLETED", "CANCELLED"}

(* What the other party, the compliance desk and the expiry job do.        *)
GiftOrderMoves ==
  {<<"PENDING_DELIVERY", "DELIVERED">>, <<"PENDING_DELIVERY", "DISPUTED">>,
   <<"PENDING_DELIVERY", "CANCELLED">>, <<"DELIVERED", "DISPUTED">>,
   <<"DELIVERED", "COMPLETED">>, <<"DISPUTED", "COMPLETED">>, <<"DISPUTED", "CANCELLED">>}

(* A purchase takes from another seller's offer and from the buyer's wallet. *)
P2pPurchase == [createP2POrder |-> Makes({"p2p orders", "offers", "wallets"})]

(* deliverGiftCardCode, confirmDelivery, raiseDispute.                     *)
P2pOrders ==
  [deliverCode  |-> Moves(GiftOrderStatus, {"PENDING_DELIVERY"}, "DELIVERED",
                          {"p2p orders", "codes", "validations"}, GiftOrderMoves),
   confirm      |-> Moves(GiftOrderStatus, {"DELIVERED"}, "COMPLETED",
                          {"p2p orders", "wallets"}, GiftOrderMoves),
   raiseDispute |-> Moves(GiftOrderStatus, {"PENDING_DELIVERY", "DELIVERED"}, "DISPUTED",
                          {"p2p orders"}, GiftOrderMoves)]

OrderStatus == {"OPEN", "FILLED", "CANCELLED", "EXPIRED"}
OrderMoves == {"OPEN"} \X (OrderStatus \ {"OPEN"})

(* placeOrder and cancelOrder.                                             *)
CryptoOrdersDesk ==
  [placeOrder  |-> Makes({"crypto orders", "wallets"}),
   cancelOrder |-> Moves(OrderStatus, {"OPEN"}, "CANCELLED", {"crypto orders"}, OrderMoves)]

(* The watchlist is upserted and deleted by code; an alert is found before *)
(* it is deleted.                                                          *)
Watchlist ==
  [addToWatchlist      |-> Moves({"in", "out"}, {"in", "out"}, "in", {"watchlist"}, {}),
   removeFromWatchlist |-> Moves({"in", "out"}, {"in", "out"}, "out", {"watchlist"}, {}),
   createAlert         |-> Makes({"alerts"}),
   deleteAlert         |-> Moves({"here", "gone"}, {"here"}, "gone", {"alerts"}, {})]

(* The three transfers: those that leave the account are screened for fraud. *)
Transfers ==
  [walletToWallet |-> Makes({"transfers", "wallets", "fraud alerts"}),
   convert        |-> Makes({"transfers", "wallets"}),
   bankTransfer   |-> Makes({"transfers", "wallets", "fraud alerts"})]

(* create takes what it is given; remove finds the row first.              *)
Beneficiaries ==
  [createBeneficiary |-> Makes({"beneficiaries"}),
   removeBeneficiary |-> Moves({"here", "gone"}, {"here"}, "gone", {"beneficiaries"}, {})]

CardStatus == {"ACTIVE", "FROZEN", "TERMINATED"}
CardMoves == {"ACTIVE", "FROZEN"} \X CardStatus

(* Freezing, terminating and limiting look at the owner only; a purchase   *)
(* that is declined is recorded too.                                       *)
Cards ==
  [issueCard |-> Makes({"cards"}),
   freeze    |-> Moves(CardStatus, CardStatus, "FROZEN", {"cards"}, CardMoves),
   unfreeze  |-> Moves(CardStatus, {"ACTIVE", "FROZEN"}, "ACTIVE", {"cards"}, CardMoves),
   terminate |-> Moves(CardStatus, CardStatus, "TERMINATED", {"cards"}, CardMoves),
   setLimit  |-> Moves(CardStatus, CardStatus, "same", {"cards"}, CardMoves),
   purchase  |-> Adds(CardStatus, {"ACTIVE"}, {"card statements", "wallets"}, CardMoves)]

(* One account per user (a unique column).                                 *)
MerchantAccounts ==
  [createAccount |-> Moves({"none", "open"}, {"none"}, "open", {"merchant accounts"}, {})]

(* Links are switched off whatever they were; a paid invoice stays paid.   *)
MerchantPapers ==
  [createPaymentLink |-> Makes({"payment links"}),
   deactivateLink    |-> Moves({"on", "off"}, {"on", "off"}, "off", {"payment links"}, {}),
   createInvoice     |-> Makes({"invoices"}),
   voidInvoice       |-> Moves({"SENT", "PAID", "VOID"}, {"SENT", "VOID"}, "VOID", {"invoices"},
                               {<<"SENT", "PAID">>})]

(* Every call opens a session; a session is paid once.                     *)
CheckoutDesk ==
  [startSession |-> Makes({"checkouts"}),
   paySession   |-> Moves({"PENDING", "COMPLETED"}, {"PENDING"}, "COMPLETED",
                          {"checkouts", "wallets"}, {})]

KycOpen == {"PENDING", "IN_REVIEW", "NEEDS_MORE_INFO"}
KycStatus == KycOpen \cup {"none", "APPROVED", "REJECTED"}
KycMoves == KycOpen \X {"APPROVED", "REJECTED", "NEEDS_MORE_INFO"}

(* The user's side of a submission, here one that screening has flagged,   *)
(* and the reviewer's three decisions.                                     *)
KycDesk ==
  [submitTier     |-> Moves(KycStatus, {"none", "REJECTED"}, "PENDING", {"submissions"}, {}),
   addDocument    |-> Adds(KycStatus, KycOpen, {"submissions"}, KycMoves),
   removeDocument |-> Moves({"here", "gone"}, {"here"}, "gone", {"submissions"}, {}),
   finalize       |-> Moves(KycStatus, KycOpen, "IN_REVIEW", {"submissions"}, KycMoves),
   approve        |-> Moves(KycStatus, KycOpen, "APPROVED", {"submissions", "users"}, KycMoves),
   askMore        |-> Moves(KycStatus, KycOpen, "NEEDS_MORE_INFO", {"submissions"}, KycMoves),
   reject         |-> Moves(KycStatus, KycOpen, "REJECTED", {"submissions"}, KycMoves)]

(* Both messages of a turn are kept; the first turn opens a conversation.  *)
Assistant == [sendMessage |-> Makes({"messages"})]
(* A budget is upserted by category and currency.                          *)
BudgetsDesk == [upsertBudget |-> Sets({"budgets"})]
(* Dismissing looks at the owner only.                                     *)
FraudDesk ==
  [dismissAlert |-> Moves({"OPEN", "DISMISSED"}, {"OPEN", "DISMISSED"}, "DISMISSED",
                          {"fraud alerts"}, {})]

UserStatus == {"PENDING_VERIFICATION", "ACTIVE", "SUSPENDED", "BLOCKED", "CLOSED"}

(* updateStatus refuses the status the user already has.                   *)
UserManagement ==
  [suspend    |-> Moves(UserStatus, UserStatus \ {"SUSPENDED"}, "SUSPENDED", {"users", "audit"},
                        {<<"PENDING_VERIFICATION", "ACTIVE">>}),
   reactivate |-> Moves(UserStatus, UserStatus \ {"ACTIVE"}, "ACTIVE", {"users", "audit"},
                        {<<"PENDING_VERIFICATION", "ACTIVE">>})]

(* A flag is upserted by key, a fee rule is switched by id: both are told  *)
(* the value to take, not to change it.                                    *)
PlatformSettings ==
  [upsertFlag   |-> Sets({"flags"}),
   flagOn       |-> Moves({"on", "off"}, {"on", "off"}, "on", {"flags"}, {}),
   flagOff      |-> Moves({"on", "off"}, {"on", "off"}, "off", {"flags"}, {}),
   feeOn        |-> Moves({"on", "off"}, {"on", "off"}, "on", {"fee rules"}, {}),
   feeOff       |-> Moves({"on", "off"}, {"on", "off"}, "off", {"fee rules"}, {})]

(* register answers an address that is taken with an error; a code is used *)
(* up by the verification it proves, and each resend makes another.        *)
SignUp ==
  [register  |-> Moves({"none", "there"}, {"none"}, "there", {"users"}, {}),
   verifyOtp |-> Moves({"live", "used"}, {"live"}, "used", {"users"}, {}),
   resendOtp |-> Makes({"codes by mail"})]
(* Every sign-in makes a session, a login token is good for several.       *)
SignIn == [login |-> Makes({"sessions"}), loginWithTwoFactor |-> Makes({"sessions"})]
(* A link is used up by the reset, which ends every session.               *)
PasswordReset ==
  [forgotPassword |-> Makes({"reset links"}),
   resetPassword  |-> Moves({"out", "used"}, {"out"}, "used", {"sessions"}, {})]
(* A secret is made anew by each set-up and is confirmed by its code,      *)
(* however often; it can be given up once.                                 *)
TwoFactor ==
  [setupTwoFactor        |-> Makes({"secrets"}),
   confirmTwoFactorSetup |-> Moves({"off", "on"}, {"off", "on"}, "on", {"secrets"}, {}),
   disableTwoFactor      |-> Moves({"off", "on"}, {"on"}, "off", {"secrets"}, {})]
(* The first PIN, and each after it.                                       *)
Pins ==
  [setPin    |-> Moves({"none", "set"}, {"none"}, "set", {"pins"}, {}),
   changePin |-> Sets({"pins"})]
(* The caller's own session ends with the others: asked again it is denied. *)
LogoutAllDevices ==
  [logoutAll |-> Moves({"live", "revoked"}, {"live"}, "revoked", {"sessions"}, {})]
Profile == [updateProfile |-> Sets({"users"})]

Services ==
  Together({P2pOffers, P2pPurchase, P2pOrders, CryptoOrdersDesk, Watchlist, Transfers,
            Beneficiaries, Cards, MerchantAccounts, MerchantPapers, CheckoutDesk, KycDesk,
            Assistant, BudgetsDesk, FraudDesk, UserManagement, PlatformSettings, SignUp,
            SignIn, PasswordReset, TwoFactor, Pins, LogoutAllDevices, Profile})

-----------------------------------------------------------------------------
(* Answers that are put together from several tables.                      *)

(* listOffers: every active offer with stock, the caller's own included.   *)
ListOffers == {"offers", "my offers"}
(* listWatchlist and getPortfolio price what they list.                    *)
ListWatchlist == {"watchlist", "rates"}
Portfolio == {"wallets", "rates"}
(* The merchant's dashboard: settlement balance and completed checkouts.   *)
MerchantSummary == {"merchant accounts", "wallets", "checkouts"}
(* The insights are computed from the transfers, budgets and wallets.      *)
SpendingByCategory == {"transfers"}
BudgetsReport == {"budgets", "transfers"}
HealthScore == {"wallets", "transfers", "budgets"}
(* getPlatformSummary counts everybody's rows.                             *)
PlatformSummary ==
  {"users", "wallets", "transfers", "crypto orders", "submissions", "p2p orders"}
=============================================================================
