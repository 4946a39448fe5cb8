--------------------------- MODULE PlatformProofs ---------------------------
(***************************************************************************)
(* Theorems about the platform around the money: the dashboard, the        *)
(* verification of an account, its credentials, its tiers, and, with what  *)
(* SessionsProofs shows of the sessions, the whole that MCPlatform puts    *)
(* together.  Each holds for any number of clicks, requests, handlers and  *)
(* tabs at a time and for any bound on codes, secrets, links and           *)
(* submissions.                                                            *)
(***************************************************************************)
EXTENDS MCPlatform, SessionsProofs

-----------------------------------------------------------------------------
(* What the tables of the dashboard say, service by service and page by    *)
(* page.                                                                   *)

(* The query that shows a table, but for those computed from several.      *)
Shows ==
  {<<"wallets", "wallets">>, <<"transfers", "transfers">>, <<"offers", "p2p-offers">>,
   <<"my offers", "p2p-offers">>, <<"my offers", "p2p-my-offers">>, <<"p2p orders", "p2p-orders">>,
   <<"codes", "p2p-code">>, <<"validations", "p2p-validation">>,
   <<"crypto orders", "crypto-orders">>, <<"rates", "crypto-prices">>, <<"rates", "watchlist">>,
   <<"watchlist", "watchlist">>, <<"alerts", "price-alerts">>,
   <<"beneficiaries", "beneficiaries">>, <<"cards", "cards">>,
   <<"card statements", "card-statement">>, <<"merchant accounts", "merchant-account">>,
   <<"payment links", "payment-links">>, <<"invoices", "invoices">>,
   <<"submissions", "kyc-status">>, <<"submissions", "compliance-queue">>,
   <<"messages", "ai-conversation">>, <<"fraud alerts", "fraud-alerts">>,
   <<"users", "admin-users">>, <<"flags", "feature-flags">>, <<"fee rules", "fee-rules">>,
   <<"sessions", "sessions">>}

(* What the hook of a request tells of it.                                 *)
Tells ==
  ({"walletToWallet", "convert", "bankTransfer"} \X {"transfers", "wallets"})
    \cup ({"createOffer", "pause", "resume", "close"} \X {"p2p-my-offers"})
    \cup ({"createP2POrder"} \X {"p2p-orders", "p2p-offers", "wallets"})
    \cup ({"deliverCode", "confirm", "raiseDispute"} \X {"p2p-orders", "wallets"})
    \cup ({"placeOrder", "cancelOrder"} \X {"crypto-orders", "wallets"})
    \cup ({"addToWatchlist", "removeFromWatchlist"} \X {"watchlist"})
    \cup ({"createAlert", "deleteAlert"} \X {"price-alerts"})
    \cup ({"createBeneficiary", "removeBeneficiary"} \X {"beneficiaries"})
    \cup ({"issueCard", "freeze", "unfreeze", "terminate", "setLimit"} \X {"cards"})
    \cup ({"purchase"} \X {"card-statement", "wallets"})
    \cup {<<"createAccount", "merchant-account">>}
    \cup ({"createPaymentLink", "deactivateLink"} \X {"payment-links"})
    \cup ({"createInvoice", "voidInvoice"} \X {"invoices"})
    \cup ({"submitTier", "addDocument", "removeDocument", "finalize"} \X {"kyc-status"})
    \cup ({"approve", "askMore", "reject"} \X {"compliance-queue"})
    \cup {<<"sendMessage", "ai-conversation">>, <<"dismissAlert", "fraud-alerts">>}
    \cup ({"suspend", "reactivate"} \X {"admin-users"})
    \cup ({"upsertFlag", "flagOn", "flagOff"} \X {"feature-flags"})
    \cup ({"feeOn", "feeOff"} \X {"fee-rules"})
    \cup {<<"logoutAll", "sessions">>}

(* The requests whose button can be clicked again at once.                 *)
Unguarded ==
  {"pause", "resume", "close", "addToWatchlist", "removeFromWatchlist", "cancelOrder",
   "deleteAlert", "removeBeneficiary", "deactivateLink", "voidInvoice", "startSession",
   "addDocument", "removeDocument", "dismissAlert", "suspend", "reactivate", "upsertFlag",
   "flagOn", "flagOff", "feeOn", "feeOff", "logoutAll"}

Reaches(a, t) == \A key : <<t, key>> \in Shows => <<a, key>> \in Tells \cup Gaps
Settles(to, others) == to # "same" /\ \A m \in others : m[1] # to

(* Every query that shows what a request writes is told by its hook, or is *)
(* a gap; one that can be clicked again leaves the row where neither it    *)
(* nor anybody else takes it from.                                         *)
ServiceFits(a, s) ==
  /\ \A t \in s.writes : Reaches(a, t)
  /\ a \in Unguarded \ MayDouble => ~s.again /\ Settles(s.to, s.others)

TableFits(f) == \A a \in DOMAIN f : ServiceFits(a, f[a])

(* Each kind of request fits when what it writes is reached.               *)
LEMMA MakesFit ==
  ASSUME NEW a, a \notin Unguarded \ MayDouble, NEW tables, \A t \in tables : Reaches(a, t)
  PROVE  ServiceFits(a, Makes(tables))
BY DEF ServiceFits, Makes
LEMMA SetsFit ==
  ASSUME NEW a, NEW tables, \A t \in tables : Reaches(a, t)
  PROVE  ServiceFits(a, Sets(tables))
BY DEF ServiceFits, Sets, Settles
LEMMA MovesFit ==
  ASSUME NEW a, NEW rows, NEW from, NEW to, NEW tables, NEW others,
         \A t \in tables : Reaches(a, t), a \in Unguarded \ MayDouble => Settles(to, others)
  PROVE  ServiceFits(a, Moves(rows, from, to, tables, others))
BY DEF ServiceFits, Moves
LEMMA AddsFit ==
  ASSUME NEW a, a \notin Unguarded \ MayDouble, NEW rows, NEW from, NEW tables, NEW others,
         \A t \in tables : Reaches(a, t)
  PROVE  ServiceFits(a, Adds(rows, from, tables, others))
BY DEF ServiceFits, Adds

(* Table by table: the hooks of whoever writes it reach the queries that   *)
(* show it.                                                                *)
LEMMA ReachMyOffers == \A a \in {"createOffer", "pause", "resume", "close"} :
  Reaches(a, "my offers")
<1>1. \A key : <<"my offers", key>> \in Shows => key \in {"p2p-offers", "p2p-my-offers"}
  BY DEF Shows
<1>2. \A a \in {"createOffer", "pause", "resume", "close"} : <<a, "p2p-offers">> \in Gaps
  BY DEF Gaps
<1>3. \A a \in {"createOffer", "pause", "resume", "close"} : <<a, "p2p-my-offers">> \in Tells
  BY DEF Tells
<1> QED
  BY <1>1, <1>2, <1>3 DEF Reaches

LEMMA ReachP2pOrders == \A a \in {"createP2POrder", "deliverCode", "confirm", "raiseDispute"} :
  Reaches(a, "p2p orders")
<1>1. \A key : <<"p2p orders", key>> \in Shows => key \in {"p2p-orders"}
  BY DEF Shows
<1>2. \A a \in {"createP2POrder", "deliverCode", "confirm", "raiseDispute"} :
      <<a, "p2p-orders">> \in Tells
  BY DEF Tells
<1> QED
  BY <1>1, <1>2 DEF Reaches

LEMMA ReachOffers == \A a \in {"createP2POrder"} : Reaches(a, "offers")
<1>1. \A key : <<"offers", key>> \in Shows => key \in {"p2p-offers"}
  BY DEF Shows
<1>2. \A a \in {"createP2POrder"} : <<a, "p2p-offers">> \in Tells
  BY DEF Tells
<1> QED
  BY <1>1, <1>2 DEF Reaches

LEMMA ReachWallets == \A a \in {"createP2POrder", "confirm", "placeOrder", "walletToWallet",
  "convert", "bankTransfer", "purchase", "paySession"} : Reaches(a, "wallets")
<1>1. \A key : <<"wallets", key>> \in Shows => key \in {"wallets"}
  BY DEF Shows
<1>2. \A a \in {"createP2POrder", "confirm", "placeOrder", "walletToWallet", "convert",
      "bankTransfer", "purchase"} : <<a, "wallets">> \in Tells
  BY DEF Tells
<1>3. \A a \in {"paySession"} : <<a, "wallets">> \in Gaps
  BY DEF Gaps
<1> QED
  BY <1>1, <1>2, <1>3 DEF Reaches

LEMMA ReachCodes == \A a \in {"deliverCode"} : Reaches(a, "codes")
<1>1. \A key : <<"codes", key>> \in Shows => key \in {"p2p-code"}
  BY DEF Shows
<1>2. \A a \in {"deliverCode"} : <<a, "p2p-code">> \in Gaps
  BY DEF Gaps
<1> QED
  BY <1>1, <1>2 DEF Reaches

LEMMA ReachValidations == \A a \in {"deliverCode"} : Reaches(a, "validations")
<1>1. \A key : <<"validations", key>> \in Shows => key \in {"p2p-validation"}
  BY DEF Shows
<1>2. \A a \in {"deliverCode"} : <<a, "p2p-validation">> \in Gaps
  BY DEF Gaps
<1> QED
  BY <1>1, <1>2 DEF Reaches

LEMMA ReachCryptoOrders == \A a \in {"placeOrder", "cancelOrder"} : Reaches(a, "crypto orders")
<1>1. \A key : <<"crypto orders", key>> \in Shows => key \in {"crypto-orders"}
  BY DEF Shows
<1>2. \A a \in {"placeOrder", "cancelOrder"} : <<a, "crypto-orders">> \in Tells
  BY DEF Tells
<1> QED
  BY <1>1, <1>2 DEF Reaches

LEMMA ReachWatchlist == \A a \in {"addToWatchlist", "removeFromWatchlist"} :
  Reaches(a, "watchlist")
<1>1. \A key : <<"watchlist", key>> \in Shows => key \in {"watchlist"}
  BY DEF Shows
<1>2. \A a \in {"addToWatchlist", "removeFromWatchlist"} : <<a, "watchlist">> \in Tells
  BY DEF Tells
<1> QED
  BY <1>1, <1>2 DEF Reaches

LEMMA ReachAlerts == \A a \in {"createAlert", "deleteAlert"} : Reaches(a, "alerts")
<1>1. \A key : <<"alerts", key>> \in Shows => key \in {"price-alerts"}
  BY DEF Shows
<1>2. \A a \in {"createAlert", "deleteAlert"} : <<a, "price-alerts">> \in Tells
  BY DEF Tells
<1> QED
  BY <1>1, <1>2 DEF Reaches

LEMMA ReachTransfers == \A a \in {"walletToWallet", "convert", "bankTransfer"} :
  Reaches(a, "transfers")
<1>1. \A key : <<"transfers", key>> \in Shows => key \in {"transfers"}
  BY DEF Shows
<1>2. \A a \in {"walletToWallet", "convert", "bankTransfer"} : <<a, "transfers">> \in Tells
  BY DEF Tells
<1> QED
  BY <1>1, <1>2 DEF Reaches

LEMMA ReachFraudAlerts == \A a \in {"walletToWallet", "bankTransfer", "dismissAlert"} :
  Reaches(a, "fraud alerts")
<1>1. \A key : <<"fraud alerts", key>> \in Shows => key \in {"fraud-alerts"}
  BY DEF Shows
<1>2. \A a \in {"dismissAlert"} : <<a, "fraud-alerts">> \in Tells
  BY DEF Tells
<1>3. \A a \in {"walletToWallet", "bankTransfer"} : <<a, "fraud-alerts">> \in Gaps
  BY DEF Gaps
<1> QED
  BY <1>1, <1>2, <1>3 DEF Reaches

LEMMA ReachBeneficiaries == \A a \in {"createBeneficiary", "removeBeneficiary"} :
  Reaches(a, "beneficiaries")
<1>1. \A key : <<"beneficiaries", key>> \in Shows => key \in {"beneficiaries"}
  BY DEF Shows
<1>2. \A a \in {"createBeneficiary", "removeBeneficiary"} : <<a, "beneficiaries">> \in Tells
  BY DEF Tells
<1> QED
  BY <1>1, <1>2 DEF Reaches

LEMMA ReachCards == \A a \in {"issueCard", "freeze", "unfreeze", "terminate", "setLimit"} :
  Reaches(a, "cards")
<1>1. \A key : <<"cards", key>> \in Shows => key \in {"cards"}
  BY DEF Shows
<1>2. \A a \in {"issueCard", "freeze", "unfreeze", "terminate", "setLimit"} : <<a, "cards">>
      \in Tells
  BY DEF Tells
<1> QED
  BY <1>1, <1>2 DEF Reaches

LEMMA ReachCardStatements == \A a \in {"purchase"} : Reaches(a, "card statements")
<1>1. \A key : <<"card statements", key>> \in Shows => key \in {"card-statement"}
  BY DEF Shows
<1>2. \A a \in {"purchase"} : <<a, "card-statement">> \in Tells
  BY DEF Tells
<1> QED
  BY <1>1, <1>2 DEF Reaches

LEMMA ReachMerchantAccounts == \A a \in {"createAccount"} : Reaches(a, "merchant accounts")
<1>1. \A key : <<"merchant accounts", key>> \in Shows => key \in {"merchant-account"}
  BY DEF Shows
<1>2. \A a \in {"createAccount"} : <<a, "merchant-account">> \in Tells
  BY DEF Tells
<1> QED
  BY <1>1, <1>2 DEF Reaches

LEMMA ReachPaymentLinks == \A a \in {"createPaymentLink", "deactivateLink"} :
  Reaches(a, "payment links")
<1>1. \A key : <<"payment links", key>> \in Shows => key \in {"payment-links"}
  BY DEF Shows
<1>2. \A a \in {"createPaymentLink", "deactivateLink"} : <<a, "payment-links">> \in Tells
  BY DEF Tells
<1> QED
  BY <1>1, <1>2 DEF Reaches

LEMMA ReachInvoices == \A a \in {"createInvoice", "voidInvoice"} : Reaches(a, "invoices")
<1>1. \A key : <<"invoices", key>> \in Shows => key \in {"invoices"}
  BY DEF Shows
<1>2. \A a \in {"createInvoice", "voidInvoice"} : <<a, "invoices">> \in Tells
  BY DEF Tells
<1> QED
  BY <1>1, <1>2 DEF Reaches

LEMMA ReachCheckouts == \A a : Reaches(a, "checkouts")
<1>1. \A key : <<"checkouts", key>> \notin Shows
  BY DEF Shows
<1> QED
  BY <1>1 DEF Reaches

LEMMA ReachSubmissions == \A a \in {"submitTier", "addDocument", "removeDocument", "finalize",
  "approve", "askMore", "reject"} : Reaches(a, "submissions")
<1>1. \A key : <<"submissions", key>> \in Shows => key \in {"kyc-status", "compliance-queue"}
  BY DEF Shows
<1>2. \A a \in {"submitTier", "addDocument", "removeDocument", "finalize"} :
      <<a, "kyc-status">> \in Tells
  BY DEF Tells
<1>3. \A a \in {"approve", "askMore", "reject"} : <<a, "kyc-status">> \in Gaps
  BY DEF Gaps
<1>4. \A a \in {"approve", "askMore", "reject"} : <<a, "compliance-queue">> \in Tells
  BY DEF Tells
<1>5. \A a \in {"submitTier", "addDocument", "removeDocument", "finalize"} :
      <<a, "compliance-queue">> \in Gaps
  BY DEF Gaps
<1> QED
  BY <1>1, <1>2, <1>3, <1>4, <1>5 DEF Reaches

LEMMA ReachUsers == \A a \in {"approve", "suspend", "reactivate", "register", "verifyOtp",
  "updateProfile"} : Reaches(a, "users")
<1>1. \A key : <<"users", key>> \in Shows => key \in {"admin-users"}
  BY DEF Shows
<1>2. \A a \in {"suspend", "reactivate"} : <<a, "admin-users">> \in Tells
  BY DEF Tells
<1>3. \A a \in {"approve", "register", "verifyOtp", "updateProfile"} : <<a, "admin-users">> \in
      Gaps
  BY DEF Gaps
<1> QED
  BY <1>1, <1>2, <1>3 DEF Reaches

LEMMA ReachMessages == \A a \in {"sendMessage"} : Reaches(a, "messages")
<1>1. \A key : <<"messages", key>> \in Shows => key \in {"ai-conversation"}
  BY DEF Shows
<1>2. \A a \in {"sendMessage"} : <<a, "ai-conversation">> \in Tells
  BY DEF Tells
<1> QED
  BY <1>1, <1>2 DEF Reaches

LEMMA ReachBudgets == \A a : Reaches(a, "budgets")
<1>1. \A key : <<"budgets", key>> \notin Shows
  BY DEF Shows
<1> QED
  BY <1>1 DEF Reaches

LEMMA ReachAudit == \A a : Reaches(a, "audit")
<1>1. \A key : <<"audit", key>> \notin Shows
  BY DEF Shows
<1> QED
  BY <1>1 DEF Reaches

LEMMA ReachFlags == \A a \in {"upsertFlag", "flagOn", "flagOff"} : Reaches(a, "flags")
<1>1. \A key : <<"flags", key>> \in Shows => key \in {"feature-flags"}
  BY DEF Shows
<1>2. \A a \in {"upsertFlag", "flagOn", "flagOff"} : <<a, "feature-flags">> \in Tells
  BY DEF Tells
<1> QED
  BY <1>1, <1>2 DEF Reaches

LEMMA ReachFeeRules == \A a \in {"feeOn", "feeOff"} : Reaches(a, "fee rules")
<1>1. \A key : <<"fee rules", key>> \in Shows => key \in {"fee-rules"}
  BY DEF Shows
<1>2. \A a \in {"feeOn", "feeOff"} : <<a, "fee-rules">> \in Tells
  BY DEF Tells
<1> QED
  BY <1>1, <1>2 DEF Reaches

LEMMA ReachCodesByMail == \A a : Reaches(a, "codes by mail")
<1>1. \A key : <<"codes by mail", key>> \notin Shows
  BY DEF Shows
<1> QED
  BY <1>1 DEF Reaches

LEMMA ReachSessions == \A a \in {"login", "loginWithTwoFactor", "resetPassword", "logoutAll"} :
  Reaches(a, "sessions")
<1>1. \A key : <<"sessions", key>> \in Shows => key \in {"sessions"}
  BY DEF Shows
<1>2. \A a \in {"logoutAll"} : <<a, "sessions">> \in Tells
  BY DEF Tells
<1>3. \A a \in {"login", "loginWithTwoFactor", "resetPassword"} : <<a, "sessions">> \in Gaps
  BY DEF Gaps
<1> QED
  BY <1>1, <1>2, <1>3 DEF Reaches

LEMMA ReachResetLinks == \A a : Reaches(a, "reset links")
<1>1. \A key : <<"reset links", key>> \notin Shows
  BY DEF Shows
<1> QED
  BY <1>1 DEF Reaches

LEMMA ReachSecrets == \A a : Reaches(a, "secrets")
<1>1. \A key : <<"secrets", key>> \notin Shows
  BY DEF Shows
<1> QED
  BY <1>1 DEF Reaches

LEMMA ReachPins == \A a : Reaches(a, "pins")
<1>1. \A key : <<"pins", key>> \notin Shows
  BY DEF Shows
<1> QED
  BY <1>1 DEF Reaches

(* Service by service.                                                     *)
LEMMA P2pOffersFit == TableFits(P2pOffers)
<1>1. ServiceFits("createOffer", P2pOffers["createOffer"])
  BY ReachMyOffers, MakesFit DEF P2pOffers, Unguarded
<1>2. ServiceFits("pause", P2pOffers["pause"])
  BY ReachMyOffers, MovesFit DEF P2pOffers, Settles
<1>3. ServiceFits("resume", P2pOffers["resume"])
  BY ReachMyOffers, MovesFit DEF P2pOffers, Settles
<1>4. ServiceFits("close", P2pOffers["close"])
  BY ReachMyOffers, MovesFit DEF P2pOffers, Settles
<1>5. DOMAIN P2pOffers = {"createOffer", "pause", "resume", "close"}
  BY DEF P2pOffers
<1> QED
  BY <1>1, <1>2, <1>3, <1>4, <1>5 DEF TableFits

LEMMA P2pPurchaseFit == TableFits(P2pPurchase)
<1>1. ServiceFits("createP2POrder", P2pPurchase["createP2POrder"])
  BY ReachP2pOrders, ReachOffers, ReachWallets, MakesFit DEF P2pPurchase, Unguarded
<1>2. DOMAIN P2pPurchase = {"createP2POrder"}
  BY DEF P2pPurchase
<1> QED
  BY <1>1, <1>2 DEF TableFits

LEMMA P2pOrdersFit == TableFits(P2pOrders)
<1>1. ServiceFits("deliverCode", P2pOrders["deliverCode"])
  BY ReachP2pOrders, ReachCodes, ReachValidations, MovesFit DEF P2pOrders, Unguarded
<1>2. ServiceFits("confirm", P2pOrders["confirm"])
  BY ReachP2pOrders, ReachWallets, MovesFit DEF P2pOrders, Unguarded
<1>3. ServiceFits("raiseDispute", P2pOrders["raiseDispute"])
  BY ReachP2pOrders, MovesFit DEF P2pOrders, Unguarded
<1>4. DOMAIN P2pOrders = {"deliverCode", "confirm", "raiseDispute"}
  BY DEF P2pOrders
<1> QED
  BY <1>1, <1>2, <1>3, <1>4 DEF TableFits

LEMMA CryptoOrdersDeskFit == TableFits(CryptoOrdersDesk)
<1>1. ServiceFits("placeOrder", CryptoOrdersDesk["placeOrder"])
  BY ReachCryptoOrders, ReachWallets, MakesFit DEF CryptoOrdersDesk, Unguarded
<1>2. ServiceFits("cancelOrder", CryptoOrdersDesk["cancelOrder"])
  BY ReachCryptoOrders, MovesFit DEF CryptoOrdersDesk, Settles, OrderMoves, OrderStatus
<1>3. DOMAIN CryptoOrdersDesk = {"placeOrder", "cancelOrder"}
  BY DEF CryptoOrdersDesk
<1> QED
  BY <1>1, <1>2, <1>3 DEF TableFits

LEMMA WatchlistFit == TableFits(Watchlist)
<1>1. ServiceFits("addToWatchlist", Watchlist["addToWatchlist"])
  BY ReachWatchlist, MovesFit DEF Watchlist, Settles
<1>2. ServiceFits("removeFromWatchlist", Watchlist["removeFromWatchlist"])
  BY ReachWatchlist, MovesFit DEF Watchlist, Settles
<1>3. ServiceFits("createAlert", Watchlist["createAlert"])
  BY ReachAlerts, MakesFit DEF Watchlist, Unguarded
<1>4. ServiceFits("deleteAlert", Watchlist["deleteAlert"])
  BY ReachAlerts, MovesFit DEF Watchlist, Settles
<1>5. DOMAIN Watchlist = {"addToWatchlist", "removeFromWatchlist", "createAlert",
      "deleteAlert"}
  BY DEF Watchlist
<1> QED
  BY <1>1, <1>2, <1>3, <1>4, <1>5 DEF TableFits

LEMMA TransfersFit == TableFits(Transfers)
<1>1. ServiceFits("walletToWallet", Transfers["walletToWallet"])
  BY ReachTransfers, ReachWallets, ReachFraudAlerts, MakesFit DEF Transfers, Unguarded
<1>2. ServiceFits("convert", Transfers["convert"])
  BY ReachTransfers, ReachWallets, MakesFit DEF Transfers, Unguarded
<1>3. ServiceFits("bankTransfer", Transfers["bankTransfer"])
  BY ReachTransfers, ReachWallets, ReachFraudAlerts, MakesFit DEF Transfers, Unguarded
<1>4. DOMAIN Transfers = {"walletToWallet", "convert", "bankTransfer"}
  BY DEF Transfers
<1> QED
  BY <1>1, <1>2, <1>3, <1>4 DEF TableFits

LEMMA BeneficiariesFit == TableFits(Beneficiaries)
<1>1. ServiceFits("createBeneficiary", Beneficiaries["createBeneficiary"])
  BY ReachBeneficiaries, MakesFit DEF Beneficiaries, Unguarded
<1>2. ServiceFits("removeBeneficiary", Beneficiaries["removeBeneficiary"])
  BY ReachBeneficiaries, MovesFit DEF Beneficiaries, Settles
<1>3. DOMAIN Beneficiaries = {"createBeneficiary", "removeBeneficiary"}
  BY DEF Beneficiaries
<1> QED
  BY <1>1, <1>2, <1>3 DEF TableFits

LEMMA CardsFit == TableFits(Cards)
<1>1. ServiceFits("issueCard", Cards["issueCard"])
  BY ReachCards, MakesFit DEF Cards, Unguarded
<1>2. ServiceFits("freeze", Cards["freeze"])
  BY ReachCards, MovesFit DEF Cards, Unguarded
<1>3. ServiceFits("unfreeze", Cards["unfreeze"])
  BY ReachCards, MovesFit DEF Cards, Unguarded
<1>4. ServiceFits("terminate", Cards["terminate"])
  BY ReachCards, MovesFit DEF Cards, Unguarded
<1>5. ServiceFits("setLimit", Cards["setLimit"])
  BY ReachCards, MovesFit DEF Cards, Unguarded
<1>6. ServiceFits("purchase", Cards["purchase"])
  BY ReachCardStatements, ReachWallets, AddsFit DEF Cards, Unguarded
<1>7. DOMAIN Cards = {"issueCard", "freeze", "unfreeze", "terminate", "setLimit", "purchase"}
  BY DEF Cards
<1> QED
  BY <1>1, <1>2, <1>3, <1>4, <1>5, <1>6, <1>7 DEF TableFits

LEMMA MerchantAccountsFit == TableFits(MerchantAccounts)
<1>1. ServiceFits("createAccount", MerchantAccounts["createAccount"])
  BY ReachMerchantAccounts, MovesFit DEF MerchantAccounts, Unguarded
<1>2. DOMAIN MerchantAccounts = {"createAccount"}
  BY DEF MerchantAccounts
<1> QED
  BY <1>1, <1>2 DEF TableFits

LEMMA MerchantPapersFit == TableFits(MerchantPapers)
<1>1. ServiceFits("createPaymentLink", MerchantPapers["createPaymentLink"])
  BY ReachPaymentLinks, MakesFit DEF MerchantPapers, Unguarded
<1>2. ServiceFits("deactivateLink", MerchantPapers["deactivateLink"])
  BY ReachPaymentLinks, MovesFit DEF MerchantPapers, Settles
<1>3. ServiceFits("createInvoice", MerchantPapers["createInvoice"])
  BY ReachInvoices, MakesFit DEF MerchantPapers, Unguarded
<1>4. ServiceFits("voidInvoice", MerchantPapers["voidInvoice"])
  BY ReachInvoices, MovesFit DEF MerchantPapers, Settles
<1>5. DOMAIN MerchantPapers = {"createPaymentLink", "deactivateLink", "createInvoice",
      "voidInvoice"}
  BY DEF MerchantPapers
<1> QED
  BY <1>1, <1>2, <1>3, <1>4, <1>5 DEF TableFits

LEMMA CheckoutDeskFit == TableFits(CheckoutDesk)
<1>1. ServiceFits("startSession", CheckoutDesk["startSession"])
  BY ReachCheckouts, MakesFit DEF CheckoutDesk, Unguarded, MayDouble
<1>2. ServiceFits("paySession", CheckoutDesk["paySession"])
  BY ReachCheckouts, ReachWallets, MovesFit DEF CheckoutDesk, Unguarded
<1>3. DOMAIN CheckoutDesk = {"startSession", "paySession"}
  BY DEF CheckoutDesk
<1> QED
  BY <1>1, <1>2, <1>3 DEF TableFits

LEMMA KycDeskFit == TableFits(KycDesk)
<1>1. ServiceFits("submitTier", KycDesk["submitTier"])
  BY ReachSubmissions, MovesFit DEF KycDesk, Unguarded
<1>2. ServiceFits("addDocument", KycDesk["addDocument"])
  BY ReachSubmissions, AddsFit DEF KycDesk, Unguarded, MayDouble
<1>3. ServiceFits("removeDocument", KycDesk["removeDocument"])
  BY ReachSubmissions, MovesFit DEF KycDesk, Settles
<1>4. ServiceFits("finalize", KycDesk["finalize"])
  BY ReachSubmissions, MovesFit DEF KycDesk, Unguarded
<1>5. ServiceFits("approve", KycDesk["approve"])
  BY ReachSubmissions, ReachUsers, MovesFit DEF KycDesk, Unguarded
<1>6. ServiceFits("askMore", KycDesk["askMore"])
  BY ReachSubmissions, MovesFit DEF KycDesk, Unguarded
<1>7. ServiceFits("reject", KycDesk["reject"])
  BY ReachSubmissions, MovesFit DEF KycDesk, Unguarded
<1>8. DOMAIN KycDesk = {"submitTier", "addDocument", "removeDocument", "finalize", "approve",
      "askMore", "reject"}
  BY DEF KycDesk
<1> QED
  BY <1>1, <1>2, <1>3, <1>4, <1>5, <1>6, <1>7, <1>8 DEF TableFits

LEMMA AssistantFit == TableFits(Assistant)
<1>1. ServiceFits("sendMessage", Assistant["sendMessage"])
  BY ReachMessages, MakesFit DEF Assistant, Unguarded
<1>2. DOMAIN Assistant = {"sendMessage"}
  BY DEF Assistant
<1> QED
  BY <1>1, <1>2 DEF TableFits

LEMMA BudgetsDeskFit == TableFits(BudgetsDesk)
<1>1. ServiceFits("upsertBudget", BudgetsDesk["upsertBudget"])
  BY ReachBudgets, SetsFit DEF BudgetsDesk
<1>2. DOMAIN BudgetsDesk = {"upsertBudget"}
  BY DEF BudgetsDesk
<1> QED
  BY <1>1, <1>2 DEF TableFits

LEMMA FraudDeskFit == TableFits(FraudDesk)
<1>1. ServiceFits("dismissAlert", FraudDesk["dismissAlert"])
  BY ReachFraudAlerts, MovesFit DEF FraudDesk, Settles
<1>2. DOMAIN FraudDesk = {"dismissAlert"}
  BY DEF FraudDesk
<1> QED
  BY <1>1, <1>2 DEF TableFits

LEMMA UserManagementFit == TableFits(UserManagement)
<1>1. ServiceFits("suspend", UserManagement["suspend"])
  BY ReachUsers, ReachAudit, MovesFit DEF UserManagement, Settles
<1>2. ServiceFits("reactivate", UserManagement["reactivate"])
  BY ReachUsers, ReachAudit, MovesFit DEF UserManagement, Settles
<1>3. DOMAIN UserManagement = {"suspend", "reactivate"}
  BY DEF UserManagement
<1> QED
  BY <1>1, <1>2, <1>3 DEF TableFits

LEMMA PlatformSettingsFit == TableFits(PlatformSettings)
<1>1. ServiceFits("upsertFlag", PlatformSettings["upsertFlag"])
  BY ReachFlags, SetsFit DEF PlatformSettings
<1>2. ServiceFits("flagOn", PlatformSettings["flagOn"])
  BY ReachFlags, MovesFit DEF PlatformSettings, Settles
<1>3. ServiceFits("flagOff", PlatformSettings["flagOff"])
  BY ReachFlags, MovesFit DEF PlatformSettings, Settles
<1>4. ServiceFits("feeOn", PlatformSettings["feeOn"])
  BY ReachFeeRules, MovesFit DEF PlatformSettings, Settles
<1>5. ServiceFits("feeOff", PlatformSettings["feeOff"])
  BY ReachFeeRules, MovesFit DEF PlatformSettings, Settles
<1>6. DOMAIN PlatformSettings = {"upsertFlag", "flagOn", "flagOff", "feeOn", "feeOff"}
  BY DEF PlatformSettings
<1> QED
  BY <1>1, <1>2, <1>3, <1>4, <1>5, <1>6 DEF TableFits

LEMMA SignUpFit == TableFits(SignUp)
<1>1. ServiceFits("register", SignUp["register"])
  BY ReachUsers, MovesFit DEF SignUp, Unguarded
<1>2. ServiceFits("verifyOtp", SignUp["verifyOtp"])
  BY ReachUsers, MovesFit DEF SignUp, Unguarded
<1>3. ServiceFits("resendOtp", SignUp["resendOtp"])
  BY ReachCodesByMail, MakesFit DEF SignUp, Unguarded
<1>4. DOMAIN SignUp = {"register", "verifyOtp", "resendOtp"}
  BY DEF SignUp
<1> QED
  BY <1>1, <1>2, <1>3, <1>4 DEF TableFits

LEMMA SignInFit == TableFits(SignIn)
<1>1. ServiceFits("login", SignIn["login"])
  BY ReachSessions, MakesFit DEF SignIn, Unguarded
<1>2. ServiceFits("loginWithTwoFactor", SignIn["loginWithTwoFactor"])
  BY ReachSessions, MakesFit DEF SignIn, Unguarded
<1>3. DOMAIN SignIn = {"login", "loginWithTwoFactor"}
  BY DEF SignIn
<1> QED
  BY <1>1, <1>2, <1>3 DEF TableFits

LEMMA PasswordResetFit == TableFits(PasswordReset)
<1>1. ServiceFits("forgotPassword", PasswordReset["forgotPassword"])
  BY ReachResetLinks, MakesFit DEF PasswordReset, Unguarded
<1>2. ServiceFits("resetPassword", PasswordReset["resetPassword"])
  BY ReachSessions, MovesFit DEF PasswordReset, Unguarded
<1>3. DOMAIN PasswordReset = {"forgotPassword", "resetPassword"}
  BY DEF PasswordReset
<1> QED
  BY <1>1, <1>2, <1>3 DEF TableFits

LEMMA TwoFactorFit == TableFits(TwoFactor)
<1>1. ServiceFits("setupTwoFactor", TwoFactor["setupTwoFactor"])
  BY ReachSecrets, MakesFit DEF TwoFactor, Unguarded
<1>2. ServiceFits("confirmTwoFactorSetup", TwoFactor["confirmTwoFactorSetup"])
  BY ReachSecrets, MovesFit DEF TwoFactor, Unguarded
<1>3. ServiceFits("disableTwoFactor", TwoFactor["disableTwoFactor"])
  BY ReachSecrets, MovesFit DEF TwoFactor, Unguarded
<1>4. DOMAIN TwoFactor = {"setupTwoFactor", "confirmTwoFactorSetup", "disableTwoFactor"}
  BY DEF TwoFactor
<1> QED
  BY <1>1, <1>2, <1>3, <1>4 DEF TableFits

LEMMA PinsFit == TableFits(Pins)
<1>1. ServiceFits("setPin", Pins["setPin"])
  BY ReachPins, MovesFit DEF Pins, Unguarded
<1>2. ServiceFits("changePin", Pins["changePin"])
  BY ReachPins, SetsFit DEF Pins
<1>3. DOMAIN Pins = {"setPin", "changePin"}
  BY DEF Pins
<1> QED
  BY <1>1, <1>2, <1>3 DEF TableFits

LEMMA LogoutAllDevicesFit == TableFits(LogoutAllDevices)
<1>1. ServiceFits("logoutAll", LogoutAllDevices["logoutAll"])
  BY ReachSessions, MovesFit DEF LogoutAllDevices, Settles
<1>2. DOMAIN LogoutAllDevices = {"logoutAll"}
  BY DEF LogoutAllDevices
<1> QED
  BY <1>1, <1>2 DEF TableFits

LEMMA ProfileFit == TableFits(Profile)
<1>1. ServiceFits("updateProfile", Profile["updateProfile"])
  BY ReachUsers, SetsFit DEF Profile
<1>2. DOMAIN Profile = {"updateProfile"}
  BY DEF Profile
<1> QED
  BY <1>1, <1>2 DEF TableFits

(* What holds of every table holds of the tables as one.                   *)
LEMMA TogetherDomain == \A tables : \A f \in tables : DOMAIN f \subseteq DOMAIN Together(tables)
BY DEF Together

LEMMA TogetherFits ==
  ASSUME NEW tables, \A f \in tables : TableFits(f)
  PROVE  TableFits(Together(tables))
<1> SUFFICES ASSUME NEW x \in DOMAIN Together(tables)
             PROVE  ServiceFits(x, Together(tables)[x])
  BY DEF TableFits
<1>1. \E f \in tables : x \in DOMAIN f
  BY DEF Together
<1>2. DEFINE g == CHOOSE f \in tables : x \in DOMAIN f
<1>3. g \in tables /\ x \in DOMAIN g
  BY <1>1
<1>4. Together(tables)[x] = g[x]
  BY DEF Together
<1> QED
  BY <1>3, <1>4 DEF TableFits

-----------------------------------------------------------------------------
(* The hooks: a query shows the tables it is taken from, unless it is      *)
(* derived; a mutation asks a service and tells what it is said to tell.   *)
QueryFits(q) == q.key \in Derived \/ \A t \in q.tables : <<t, q.key>> \in Shows
HookFits(h) ==
  h.act \in DOMAIN Services /\ \A key : <<h.act, key>> \in Tells => key \in h.tells

LEMMA QueryFit ==
  ASSUME NEW key, NEW tables, key \in Derived \/ \A t \in tables : <<t, key>> \in Shows
  PROVE  QueryFits(Query(key, tables))
BY DEF QueryFits, Query

LEMMA HookFit ==
  ASSUME NEW a \in DOMAIN Services, NEW keys, \A key : <<a, key>> \in Tells => key \in keys
  PROVE  HookFits(Mutation(a, keys))
BY DEF HookFits, Mutation

LEMMA QueriesFit == \A q \in {UseWallets, UseTransfers, UseOffers, UseMyOffers, UseP2POrders,
    UseGiftCardCode, UseGiftCardValidation, UseOrders, UseCryptoPrices, UsePortfolio,
    UseWatchlist, UseAlerts, UseBeneficiaries, UseCards, UseCardStatement, UseMerchantAccount,
    UseMerchantDashboard, UsePaymentLinks, UseInvoices, UseKycStatus, UseComplianceQueue,
    UseAiStatus, UseConversation, UseHealthScore, UseSpendingByCategory, UseBudgets,
    UseFraudAlerts, UseAdminUsers, UsePlatformSummary, UseFeatureFlags, UseFeeRules,
    UseAuditLog, UseSessions} : QueryFits(q)
<1>1. QueryFits(UseWallets)
  BY QueryFit DEF UseWallets, Shows
<1>2. QueryFits(UseTransfers)
  BY QueryFit DEF UseTransfers, Shows
<1>3. QueryFits(UseOffers)
  BY QueryFit DEF UseOffers, ListOffers, Shows
<1>4. QueryFits(UseMyOffers)
  BY QueryFit DEF UseMyOffers, Shows
<1>5. QueryFits(UseP2POrders)
  BY QueryFit DEF UseP2POrders, Shows
<1>6. QueryFits(UseGiftCardCode)
  BY QueryFit DEF UseGiftCardCode, Shows
<1>7. QueryFits(UseGiftCardValidation)
  BY QueryFit DEF UseGiftCardValidation, Shows
<1>8. QueryFits(UseOrders)
  BY QueryFit DEF UseOrders, Shows
<1>9. QueryFits(UseCryptoPrices)
  BY QueryFit DEF UseCryptoPrices, Shows
<1>10. QueryFits(UsePortfolio)
  BY QueryFit DEF UsePortfolio, Derived
<1>11. QueryFits(UseWatchlist)
  BY QueryFit DEF UseWatchlist, ListWatchlist, Shows
<1>12. QueryFits(UseAlerts)
  BY QueryFit DEF UseAlerts, Shows
<1>13. QueryFits(UseBeneficiaries)
  BY QueryFit DEF UseBeneficiaries, Shows
<1>14. QueryFits(UseCards)
  BY QueryFit DEF UseCards, Shows
<1>15. QueryFits(UseCardStatement)
  BY QueryFit DEF UseCardStatement, Shows
<1>16. QueryFits(UseMerchantAccount)
  BY QueryFit DEF UseMerchantAccount, Shows
<1>17. QueryFits(UseMerchantDashboard)
  BY QueryFit DEF UseMerchantDashboard, Derived
<1>18. QueryFits(UsePaymentLinks)
  BY QueryFit DEF UsePaymentLinks, Shows
<1>19. QueryFits(UseInvoices)
  BY QueryFit DEF UseInvoices, Shows
<1>20. QueryFits(UseKycStatus)
  BY QueryFit DEF UseKycStatus, Shows
<1>21. QueryFits(UseComplianceQueue)
  BY QueryFit DEF UseComplianceQueue, Shows
<1>22. QueryFits(UseAiStatus)
  BY QueryFit DEF UseAiStatus
<1>23. QueryFits(UseConversation)
  BY QueryFit DEF UseConversation, Shows
<1>24. QueryFits(UseHealthScore)
  BY QueryFit DEF UseHealthScore, Derived
<1>25. QueryFits(UseSpendingByCategory)
  BY QueryFit DEF UseSpendingByCategory, Derived
<1>26. QueryFits(UseBudgets)
  BY QueryFit DEF UseBudgets, Derived
<1>27. QueryFits(UseFraudAlerts)
  BY QueryFit DEF UseFraudAlerts, Shows
<1>28. QueryFits(UseAdminUsers)
  BY QueryFit DEF UseAdminUsers, Shows
<1>29. QueryFits(UsePlatformSummary)
  BY QueryFit DEF UsePlatformSummary, Derived
<1>30. QueryFits(UseFeatureFlags)
  BY QueryFit DEF UseFeatureFlags, Shows
<1>31. QueryFits(UseFeeRules)
  BY QueryFit DEF UseFeeRules, Shows
<1>32. QueryFits(UseAuditLog)
  BY QueryFit DEF UseAuditLog, Derived
<1>33. QueryFits(UseSessions)
  BY QueryFit DEF UseSessions, Shows
<1> QED
  BY <1>1, <1>2, <1>3, <1>4, <1>5, <1>6, <1>7, <1>8, <1>9, <1>10, <1>11, <1>12, <1>13, <1>14,
    <1>15, <1>16, <1>17, <1>18, <1>19, <1>20, <1>21, <1>22, <1>23, <1>24, <1>25, <1>26, <1>27,
    <1>28, <1>29, <1>30, <1>31, <1>32, <1>33

LEMMA ServicesFit == TableFits(Services)
BY TogetherFits, P2pOffersFit, P2pPurchaseFit, P2pOrdersFit, CryptoOrdersDeskFit, WatchlistFit,
    TransfersFit, BeneficiariesFit, CardsFit, MerchantAccountsFit, MerchantPapersFit,
    CheckoutDeskFit, KycDeskFit, AssistantFit, BudgetsDeskFit, FraudDeskFit, UserManagementFit,
    PlatformSettingsFit, SignUpFit, SignInFit, PasswordResetFit, TwoFactorFit, PinsFit,
    LogoutAllDevicesFit, ProfileFit DEF Services

LEMMA ActsServed ==
  /\ DOMAIN P2pOffers \subseteq DOMAIN Services
  /\ DOMAIN P2pPurchase \subseteq DOMAIN Services
  /\ DOMAIN P2pOrders \subseteq DOMAIN Services
  /\ DOMAIN CryptoOrdersDesk \subseteq DOMAIN Services
  /\ DOMAIN Watchlist \subseteq DOMAIN Services
  /\ DOMAIN Transfers \subseteq DOMAIN Services
  /\ DOMAIN Beneficiaries \subseteq DOMAIN Services
  /\ DOMAIN Cards \subseteq DOMAIN Services
  /\ DOMAIN MerchantAccounts \subseteq DOMAIN Services
  /\ DOMAIN MerchantPapers \subseteq DOMAIN Services
  /\ DOMAIN CheckoutDesk \subseteq DOMAIN Services
  /\ DOMAIN KycDesk \subseteq DOMAIN Services
  /\ DOMAIN Assistant \subseteq DOMAIN Services
  /\ DOMAIN BudgetsDesk \subseteq DOMAIN Services
  /\ DOMAIN FraudDesk \subseteq DOMAIN Services
  /\ DOMAIN UserManagement \subseteq DOMAIN Services
  /\ DOMAIN PlatformSettings \subseteq DOMAIN Services
  /\ DOMAIN SignUp \subseteq DOMAIN Services
  /\ DOMAIN SignIn \subseteq DOMAIN Services
  /\ DOMAIN PasswordReset \subseteq DOMAIN Services
  /\ DOMAIN TwoFactor \subseteq DOMAIN Services
  /\ DOMAIN Pins \subseteq DOMAIN Services
  /\ DOMAIN LogoutAllDevices \subseteq DOMAIN Services
  /\ DOMAIN Profile \subseteq DOMAIN Services
BY TogetherDomain DEF Services

LEMMA P2pOffersHooks ==
  /\ HookFits(UseCreateOffer)
  /\ HookFits(UseSetOfferStatus("pause")) /\ UseSetOfferStatus("pause").act \in Unguarded
  /\ HookFits(UseSetOfferStatus("resume")) /\ UseSetOfferStatus("resume").act \in Unguarded
  /\ HookFits(UseSetOfferStatus("close")) /\ UseSetOfferStatus("close").act \in Unguarded
<1>1. \A key : <<"createOffer", key>> \in Tells => key \in {"p2p-my-offers"}
  BY DEF Tells
<1>2. HookFits(UseCreateOffer)
  BY <1>1, ActsServed, HookFit DEF P2pOffers, UseCreateOffer
<1>3. \A key : <<"pause", key>> \in Tells => key \in {"p2p-my-offers"}
  BY DEF Tells
<1>4. HookFits(UseSetOfferStatus("pause")) /\ UseSetOfferStatus("pause").act \in Unguarded
  BY <1>3, ActsServed, HookFit DEF P2pOffers, UseSetOfferStatus, Mutation, Unguarded
<1>5. \A key : <<"resume", key>> \in Tells => key \in {"p2p-my-offers"}
  BY DEF Tells
<1>6. HookFits(UseSetOfferStatus("resume")) /\ UseSetOfferStatus("resume").act \in Unguarded
  BY <1>5, ActsServed, HookFit DEF P2pOffers, UseSetOfferStatus, Mutation, Unguarded
<1>7. \A key : <<"close", key>> \in Tells => key \in {"p2p-my-offers"}
  BY DEF Tells
<1>8. HookFits(UseSetOfferStatus("close")) /\ UseSetOfferStatus("close").act \in Unguarded
  BY <1>7, ActsServed, HookFit DEF P2pOffers, UseSetOfferStatus, Mutation, Unguarded
<1> QED
  BY <1>2, <1>4, <1>6, <1>8

LEMMA P2pPurchaseHooks ==
  /\ HookFits(UseCreateP2POrder)
<1>1. \A key : <<"createP2POrder", key>> \in Tells => key \in {"p2p-orders", "p2p-offers", "wallets"}
  BY DEF Tells
<1>2. HookFits(UseCreateP2POrder)
  BY <1>1, ActsServed, HookFit DEF P2pPurchase, UseCreateP2POrder
<1> QED
  BY <1>2

LEMMA P2pOrdersHooks ==
  /\ HookFits(UseDeliverCode)
  /\ HookFits(UseConfirmDelivery)
  /\ HookFits(UseRaiseDispute)
<1>1. \A key : <<"deliverCode", key>> \in Tells => key \in {"p2p-orders", "wallets"}
  BY DEF Tells
<1>2. HookFits(UseDeliverCode)
  BY <1>1, ActsServed, HookFit DEF P2pOrders, UseDeliverCode, InvalidateOrders
<1>3. \A key : <<"confirm", key>> \in Tells => key \in {"p2p-orders", "wallets"}
  BY DEF Tells
<1>4. HookFits(UseConfirmDelivery)
  BY <1>3, ActsServed, HookFit DEF P2pOrders, UseConfirmDelivery, InvalidateOrders
<1>5. \A key : <<"raiseDispute", key>> \in Tells => key \in {"p2p-orders", "wallets"}
  BY DEF Tells
<1>6. HookFits(UseRaiseDispute)
  BY <1>5, ActsServed, HookFit DEF P2pOrders, UseRaiseDispute, InvalidateOrders
<1> QED
  BY <1>2, <1>4, <1>6

LEMMA CryptoOrdersDeskHooks ==
  /\ HookFits(UsePlaceOrder)
  /\ HookFits(UseCancelOrder) /\ UseCancelOrder.act \in Unguarded
<1>1. \A key : <<"placeOrder", key>> \in Tells => key \in {"crypto-orders", "wallets"}
  BY DEF Tells
<1>2. HookFits(UsePlaceOrder)
  BY <1>1, ActsServed, HookFit DEF CryptoOrdersDesk, UsePlaceOrder, InvalidateAfterOrder
<1>3. \A key : <<"cancelOrder", key>> \in Tells => key \in {"crypto-orders", "wallets"}
  BY DEF Tells
<1>4. HookFits(UseCancelOrder) /\ UseCancelOrder.act \in Unguarded
  BY <1>3, ActsServed, HookFit DEF CryptoOrdersDesk, UseCancelOrder, InvalidateAfterOrder, Mutation, Unguarded
<1> QED
  BY <1>2, <1>4

LEMMA WatchlistHooks ==
  /\ HookFits(UseToggleWatchlist("addToWatchlist")) /\ UseToggleWatchlist("addToWatchlist").act \in Unguarded
  /\ HookFits(UseToggleWatchlist("removeFromWatchlist")) /\ UseToggleWatchlist("removeFromWatchlist").act \in Unguarded
  /\ HookFits(UseCreateAlert)
  /\ HookFits(UseDeleteAlert) /\ UseDeleteAlert.act \in Unguarded
<1>1. \A key : <<"addToWatchlist", key>> \in Tells => key \in {"watchlist"}
  BY DEF Tells
<1>2. HookFits(UseToggleWatchlist("addToWatchlist")) /\ UseToggleWatchlist("addToWatchlist").act \in Unguarded
  BY <1>1, ActsServed, HookFit DEF Watchlist, UseToggleWatchlist, Mutation, Unguarded
<1>3. \A key : <<"removeFromWatchlist", key>> \in Tells => key \in {"watchlist"}
  BY DEF Tells
<1>4. HookFits(UseToggleWatchlist("removeFromWatchlist")) /\ UseToggleWatchlist("removeFromWatchlist").act \in Unguarded
  BY <1>3, ActsServed, HookFit DEF Watchlist, UseToggleWatchlist, Mutation, Unguarded
<1>5. \A key : <<"createAlert", key>> \in Tells => key \in {"price-alerts"}
  BY DEF Tells
<1>6. HookFits(UseCreateAlert)
  BY <1>5, ActsServed, HookFit DEF Watchlist, UseCreateAlert
<1>7. \A key : <<"deleteAlert", key>> \in Tells => key \in {"price-alerts"}
  BY DEF Tells
<1>8. HookFits(UseDeleteAlert) /\ UseDeleteAlert.act \in Unguarded
  BY <1>7, ActsServed, HookFit DEF Watchlist, UseDeleteAlert, Mutation, Unguarded
<1> QED
  BY <1>2, <1>4, <1>6, <1>8

LEMMA TransfersHooks ==
  /\ HookFits(UseWalletToWalletTransfer)
  /\ HookFits(UseCurrencyConversion)
  /\ HookFits(UseBankTransfer)
<1>1. \A key : <<"walletToWallet", key>> \in Tells => key \in {"transfers", "wallets"}
  BY DEF Tells
<1>2. HookFits(UseWalletToWalletTransfer)
  BY <1>1, ActsServed, HookFit DEF Transfers, UseWalletToWalletTransfer, InvalidateAfterTransfer
<1>3. \A key : <<"convert", key>> \in Tells => key \in {"transfers", "wallets"}
  BY DEF Tells
<1>4. HookFits(UseCurrencyConversion)
  BY <1>3, ActsServed, HookFit DEF Transfers, UseCurrencyConversion, InvalidateAfterTransfer
<1>5. \A key : <<"bankTransfer", key>> \in Tells => key \in {"transfers", "wallets"}
  BY DEF Tells
<1>6. HookFits(UseBankTransfer)
  BY <1>5, ActsServed, HookFit DEF Transfers, UseBankTransfer, InvalidateAfterTransfer
<1> QED
  BY <1>2, <1>4, <1>6

LEMMA BeneficiariesHooks ==
  /\ HookFits(UseCreateBeneficiary)
  /\ HookFits(UseDeleteBeneficiary) /\ UseDeleteBeneficiary.act \in Unguarded
<1>1. \A key : <<"createBeneficiary", key>> \in Tells => key \in {"beneficiaries"}
  BY DEF Tells
<1>2. HookFits(UseCreateBeneficiary)
  BY <1>1, ActsServed, HookFit DEF Beneficiaries, UseCreateBeneficiary
<1>3. \A key : <<"removeBeneficiary", key>> \in Tells => key \in {"beneficiaries"}
  BY DEF Tells
<1>4. HookFits(UseDeleteBeneficiary) /\ UseDeleteBeneficiary.act \in Unguarded
  BY <1>3, ActsServed, HookFit DEF Beneficiaries, UseDeleteBeneficiary, Mutation, Unguarded
<1> QED
  BY <1>2, <1>4

LEMMA CardsHooks ==
  /\ HookFits(UseIssueCard)
  /\ HookFits(UseFreezeCard)
  /\ HookFits(UseUnfreezeCard)
  /\ HookFits(UseTerminateCard)
  /\ HookFits(UseSetCardLimit)
  /\ HookFits(UseSimulatePurchase)
<1>1. \A key : <<"issueCard", key>> \in Tells => key \in {"cards"}
  BY DEF Tells
<1>2. HookFits(UseIssueCard)
  BY <1>1, ActsServed, HookFit DEF Cards, UseIssueCard, InvalidateCards
<1>3. \A key : <<"freeze", key>> \in Tells => key \in {"cards"}
  BY DEF Tells
<1>4. HookFits(UseFreezeCard)
  BY <1>3, ActsServed, HookFit DEF Cards, UseFreezeCard, InvalidateCards
<1>5. \A key : <<"unfreeze", key>> \in Tells => key \in {"cards"}
  BY DEF Tells
<1>6. HookFits(UseUnfreezeCard)
  BY <1>5, ActsServed, HookFit DEF Cards, UseUnfreezeCard, InvalidateCards
<1>7. \A key : <<"terminate", key>> \in Tells => key \in {"cards"}
  BY DEF Tells
<1>8. HookFits(UseTerminateCard)
  BY <1>7, ActsServed, HookFit DEF Cards, UseTerminateCard, InvalidateCards
<1>9. \A key : <<"setLimit", key>> \in Tells => key \in {"cards"}
  BY DEF Tells
<1>10. HookFits(UseSetCardLimit)
  BY <1>9, ActsServed, HookFit DEF Cards, UseSetCardLimit, InvalidateCards
<1>11. \A key : <<"purchase", key>> \in Tells => key \in {"card-statement", "wallets"}
  BY DEF Tells
<1>12. HookFits(UseSimulatePurchase)
  BY <1>11, ActsServed, HookFit DEF Cards, UseSimulatePurchase
<1> QED
  BY <1>2, <1>4, <1>6, <1>8, <1>10, <1>12

LEMMA MerchantAccountsHooks ==
  /\ HookFits(UseCreateMerchantAccount)
<1>1. \A key : <<"createAccount", key>> \in Tells => key \in {"merchant-account"}
  BY DEF Tells
<1>2. HookFits(UseCreateMerchantAccount)
  BY <1>1, ActsServed, HookFit DEF MerchantAccounts, UseCreateMerchantAccount
<1> QED
  BY <1>2

LEMMA MerchantPapersHooks ==
  /\ HookFits(UseCreatePaymentLink)
  /\ HookFits(UseDeactivatePaymentLink) /\ UseDeactivatePaymentLink.act \in Unguarded
  /\ HookFits(UseCreateInvoice)
  /\ HookFits(UseVoidInvoice) /\ UseVoidInvoice.act \in Unguarded
<1>1. \A key : <<"createPaymentLink", key>> \in Tells => key \in {"payment-links"}
  BY DEF Tells
<1>2. HookFits(UseCreatePaymentLink)
  BY <1>1, ActsServed, HookFit DEF MerchantPapers, UseCreatePaymentLink
<1>3. \A key : <<"deactivateLink", key>> \in Tells => key \in {"payment-links"}
  BY DEF Tells
<1>4. HookFits(UseDeactivatePaymentLink) /\ UseDeactivatePaymentLink.act \in Unguarded
  BY <1>3, ActsServed, HookFit DEF MerchantPapers, UseDeactivatePaymentLink, Mutation, Unguarded
<1>5. \A key : <<"createInvoice", key>> \in Tells => key \in {"invoices"}
  BY DEF Tells
<1>6. HookFits(UseCreateInvoice)
  BY <1>5, ActsServed, HookFit DEF MerchantPapers, UseCreateInvoice
<1>7. \A key : <<"voidInvoice", key>> \in Tells => key \in {"invoices"}
  BY DEF Tells
<1>8. HookFits(UseVoidInvoice) /\ UseVoidInvoice.act \in Unguarded
  BY <1>7, ActsServed, HookFit DEF MerchantPapers, UseVoidInvoice, Mutation, Unguarded
<1> QED
  BY <1>2, <1>4, <1>6, <1>8

LEMMA CheckoutDeskHooks ==
  /\ HookFits(StartSession) /\ StartSession.act \in Unguarded
  /\ HookFits(PaySession)
<1>1. \A key : <<"startSession", key>> \notin Tells
  BY DEF Tells
<1>2. HookFits(StartSession) /\ StartSession.act \in Unguarded
  BY <1>1, ActsServed, HookFit DEF CheckoutDesk, StartSession, Mutation, Unguarded
<1>3. \A key : <<"paySession", key>> \notin Tells
  BY DEF Tells
<1>4. HookFits(PaySession)
  BY <1>3, ActsServed, HookFit DEF CheckoutDesk, PaySession
<1> QED
  BY <1>2, <1>4

LEMMA KycDeskHooks ==
  /\ HookFits(UseSubmitTier)
  /\ HookFits(UseUploadKycDocument) /\ UseUploadKycDocument.act \in Unguarded
  /\ HookFits(UseFinalizeSubmission)
  /\ HookFits(UseRemoveKycDocument) /\ UseRemoveKycDocument.act \in Unguarded
  /\ HookFits(UseReviewSubmission("approve"))
  /\ HookFits(UseReviewSubmission("askMore"))
  /\ HookFits(UseReviewSubmission("reject"))
<1>1. \A key : <<"submitTier", key>> \in Tells => key \in {"kyc-status"}
  BY DEF Tells
<1>2. HookFits(UseSubmitTier)
  BY <1>1, ActsServed, HookFit DEF KycDesk, UseSubmitTier, InvalidateKyc
<1>3. \A key : <<"addDocument", key>> \in Tells => key \in {"kyc-status"}
  BY DEF Tells
<1>4. HookFits(UseUploadKycDocument) /\ UseUploadKycDocument.act \in Unguarded
  BY <1>3, ActsServed, HookFit DEF KycDesk, UseUploadKycDocument, InvalidateKyc, Mutation, Unguarded
<1>5. \A key : <<"finalize", key>> \in Tells => key \in {"kyc-status"}
  BY DEF Tells
<1>6. HookFits(UseFinalizeSubmission)
  BY <1>5, ActsServed, HookFit DEF KycDesk, UseFinalizeSubmission, InvalidateKyc
<1>7. \A key : <<"removeDocument", key>> \in Tells => key \in {"kyc-status"}
  BY DEF Tells
<1>8. HookFits(UseRemoveKycDocument) /\ UseRemoveKycDocument.act \in Unguarded
  BY <1>7, ActsServed, HookFit DEF KycDesk, UseRemoveKycDocument, InvalidateKyc, Mutation, Unguarded
<1>9. \A key : <<"approve", key>> \in Tells => key \in {"compliance-queue"}
  BY DEF Tells
<1>10. HookFits(UseReviewSubmission("approve"))
  BY <1>9, ActsServed, HookFit DEF KycDesk, UseReviewSubmission
<1>11. \A key : <<"askMore", key>> \in Tells => key \in {"compliance-queue"}
  BY DEF Tells
<1>12. HookFits(UseReviewSubmission("askMore"))
  BY <1>11, ActsServed, HookFit DEF KycDesk, UseReviewSubmission
<1>13. \A key : <<"reject", key>> \in Tells => key \in {"compliance-queue"}
  BY DEF Tells
<1>14. HookFits(UseReviewSubmission("reject"))
  BY <1>13, ActsServed, HookFit DEF KycDesk, UseReviewSubmission
<1> QED
  BY <1>2, <1>4, <1>6, <1>8, <1>10, <1>12, <1>14

LEMMA AssistantHooks ==
  /\ HookFits(UseSendMessage)
<1>1. \A key : <<"sendMessage", key>> \in Tells => key \in {"ai-conversation"}
  BY DEF Tells
<1>2. HookFits(UseSendMessage)
  BY <1>1, ActsServed, HookFit DEF Assistant, UseSendMessage
<1> QED
  BY <1>2

LEMMA BudgetsDeskHooks ==
  /\ HookFits(UseUpsertBudget)
<1>1. \A key : <<"upsertBudget", key>> \notin Tells
  BY DEF Tells
<1>2. HookFits(UseUpsertBudget)
  BY <1>1, ActsServed, HookFit DEF BudgetsDesk, UseUpsertBudget
<1> QED
  BY <1>2

LEMMA FraudDeskHooks ==
  /\ HookFits(UseDismissFraudAlert) /\ UseDismissFraudAlert.act \in Unguarded
<1>1. \A key : <<"dismissAlert", key>> \in Tells => key \in {"fraud-alerts"}
  BY DEF Tells
<1>2. HookFits(UseDismissFraudAlert) /\ UseDismissFraudAlert.act \in Unguarded
  BY <1>1, ActsServed, HookFit DEF FraudDesk, UseDismissFraudAlert, Mutation, Unguarded
<1> QED
  BY <1>2

LEMMA UserManagementHooks ==
  /\ HookFits(UseUpdateUserStatus("suspend")) /\ UseUpdateUserStatus("suspend").act \in Unguarded
  /\ HookFits(UseUpdateUserStatus("reactivate")) /\ UseUpdateUserStatus("reactivate").act \in Unguarded
<1>1. \A key : <<"suspend", key>> \in Tells => key \in {"admin-users"}
  BY DEF Tells
<1>2. HookFits(UseUpdateUserStatus("suspend")) /\ UseUpdateUserStatus("suspend").act \in Unguarded
  BY <1>1, ActsServed, HookFit DEF UserManagement, UseUpdateUserStatus, Mutation, Unguarded
<1>3. \A key : <<"reactivate", key>> \in Tells => key \in {"admin-users"}
  BY DEF Tells
<1>4. HookFits(UseUpdateUserStatus("reactivate")) /\ UseUpdateUserStatus("reactivate").act \in Unguarded
  BY <1>3, ActsServed, HookFit DEF UserManagement, UseUpdateUserStatus, Mutation, Unguarded
<1> QED
  BY <1>2, <1>4

LEMMA PlatformSettingsHooks ==
  /\ HookFits(UseUpsertFeatureFlag("upsertFlag")) /\ UseUpsertFeatureFlag("upsertFlag").act \in Unguarded
  /\ HookFits(UseUpsertFeatureFlag("flagOn")) /\ UseUpsertFeatureFlag("flagOn").act \in Unguarded
  /\ HookFits(UseUpsertFeatureFlag("flagOff")) /\ UseUpsertFeatureFlag("flagOff").act \in Unguarded
  /\ HookFits(UseSetFeeRuleActive("feeOn")) /\ UseSetFeeRuleActive("feeOn").act \in Unguarded
  /\ HookFits(UseSetFeeRuleActive("feeOff")) /\ UseSetFeeRuleActive("feeOff").act \in Unguarded
<1>1. \A key : <<"upsertFlag", key>> \in Tells => key \in {"feature-flags"}
  BY DEF Tells
<1>2. HookFits(UseUpsertFeatureFlag("upsertFlag")) /\ UseUpsertFeatureFlag("upsertFlag").act \in Unguarded
  BY <1>1, ActsServed, HookFit DEF PlatformSettings, UseUpsertFeatureFlag, Mutation, Unguarded
<1>3. \A key : <<"flagOn", key>> \in Tells => key \in {"feature-flags"}
  BY DEF Tells
<1>4. HookFits(UseUpsertFeatureFlag("flagOn")) /\ UseUpsertFeatureFlag("flagOn").act \in Unguarded
  BY <1>3, ActsServed, HookFit DEF PlatformSettings, UseUpsertFeatureFlag, Mutation, Unguarded
<1>5. \A key : <<"flagOff", key>> \in Tells => key \in {"feature-flags"}
  BY DEF Tells
<1>6. HookFits(UseUpsertFeatureFlag("flagOff")) /\ UseUpsertFeatureFlag("flagOff").act \in Unguarded
  BY <1>5, ActsServed, HookFit DEF PlatformSettings, UseUpsertFeatureFlag, Mutation, Unguarded
<1>7. \A key : <<"feeOn", key>> \in Tells => key \in {"fee-rules"}
  BY DEF Tells
<1>8. HookFits(UseSetFeeRuleActive("feeOn")) /\ UseSetFeeRuleActive("feeOn").act \in Unguarded
  BY <1>7, ActsServed, HookFit DEF PlatformSettings, UseSetFeeRuleActive, Mutation, Unguarded
<1>9. \A key : <<"feeOff", key>> \in Tells => key \in {"fee-rules"}
  BY DEF Tells
<1>10. HookFits(UseSetFeeRuleActive("feeOff")) /\ UseSetFeeRuleActive("feeOff").act \in Unguarded
  BY <1>9, ActsServed, HookFit DEF PlatformSettings, UseSetFeeRuleActive, Mutation, Unguarded
<1> QED
  BY <1>2, <1>4, <1>6, <1>8, <1>10

LEMMA SignUpHooks ==
  /\ HookFits(Mutation("register", {}))
  /\ HookFits(Mutation("verifyOtp", {}))
  /\ HookFits(Mutation("resendOtp", {}))
<1>1. \A key : <<"register", key>> \notin Tells
  BY DEF Tells
<1>2. HookFits(Mutation("register", {}))
  BY <1>1, ActsServed, HookFit DEF SignUp
<1>3. \A key : <<"verifyOtp", key>> \notin Tells
  BY DEF Tells
<1>4. HookFits(Mutation("verifyOtp", {}))
  BY <1>3, ActsServed, HookFit DEF SignUp
<1>5. \A key : <<"resendOtp", key>> \notin Tells
  BY DEF Tells
<1>6. HookFits(Mutation("resendOtp", {}))
  BY <1>5, ActsServed, HookFit DEF SignUp
<1> QED
  BY <1>2, <1>4, <1>6

LEMMA SignInHooks ==
  /\ HookFits(Mutation("login", {}))
  /\ HookFits(Mutation("loginWithTwoFactor", {}))
<1>1. \A key : <<"login", key>> \notin Tells
  BY DEF Tells
<1>2. HookFits(Mutation("login", {}))
  BY <1>1, ActsServed, HookFit DEF SignIn
<1>3. \A key : <<"loginWithTwoFactor", key>> \notin Tells
  BY DEF Tells
<1>4. HookFits(Mutation("loginWithTwoFactor", {}))
  BY <1>3, ActsServed, HookFit DEF SignIn
<1> QED
  BY <1>2, <1>4

LEMMA PasswordResetHooks ==
  /\ HookFits(Mutation("forgotPassword", {}))
  /\ HookFits(Mutation("resetPassword", {}))
<1>1. \A key : <<"forgotPassword", key>> \notin Tells
  BY DEF Tells
<1>2. HookFits(Mutation("forgotPassword", {}))
  BY <1>1, ActsServed, HookFit DEF PasswordReset
<1>3. \A key : <<"resetPassword", key>> \notin Tells
  BY DEF Tells
<1>4. HookFits(Mutation("resetPassword", {}))
  BY <1>3, ActsServed, HookFit DEF PasswordReset
<1> QED
  BY <1>2, <1>4

LEMMA TwoFactorHooks ==
  /\ HookFits(Mutation("setupTwoFactor", {}))
  /\ HookFits(Mutation("confirmTwoFactorSetup", {}))
  /\ HookFits(Mutation("disableTwoFactor", {}))
<1>1. \A key : <<"setupTwoFactor", key>> \notin Tells
  BY DEF Tells
<1>2. HookFits(Mutation("setupTwoFactor", {}))
  BY <1>1, ActsServed, HookFit DEF TwoFactor
<1>3. \A key : <<"confirmTwoFactorSetup", key>> \notin Tells
  BY DEF Tells
<1>4. HookFits(Mutation("confirmTwoFactorSetup", {}))
  BY <1>3, ActsServed, HookFit DEF TwoFactor
<1>5. \A key : <<"disableTwoFactor", key>> \notin Tells
  BY DEF Tells
<1>6. HookFits(Mutation("disableTwoFactor", {}))
  BY <1>5, ActsServed, HookFit DEF TwoFactor
<1> QED
  BY <1>2, <1>4, <1>6

LEMMA PinsHooks ==
  /\ HookFits(Mutation("setPin", {}))
  /\ HookFits(Mutation("changePin", {}))
<1>1. \A key : <<"setPin", key>> \notin Tells
  BY DEF Tells
<1>2. HookFits(Mutation("setPin", {}))
  BY <1>1, ActsServed, HookFit DEF Pins
<1>3. \A key : <<"changePin", key>> \notin Tells
  BY DEF Tells
<1>4. HookFits(Mutation("changePin", {}))
  BY <1>3, ActsServed, HookFit DEF Pins
<1> QED
  BY <1>2, <1>4

LEMMA LogoutAllDevicesHooks ==
  /\ HookFits(Mutation("logoutAll", {"sessions"}))
<1>1. \A key : <<"logoutAll", key>> \in Tells => key \in {"sessions"}
  BY DEF Tells
<1>2. HookFits(Mutation("logoutAll", {"sessions"}))
  BY <1>1, ActsServed, HookFit DEF LogoutAllDevices
<1> QED
  BY <1>2

LEMMA ProfileHooks ==
  /\ HookFits(Mutation("updateProfile", {}))
<1>1. \A key : <<"updateProfile", key>> \notin Tells
  BY DEF Tells
<1>2. HookFits(Mutation("updateProfile", {}))
  BY <1>1, ActsServed, HookFit DEF Profile
<1> QED
  BY <1>2

-----------------------------------------------------------------------------
(* The pages: a button sends the request of a hook that fits, and is       *)
(* disabled meanwhile or listed as one that is not.                        *)
ButtonFits(b) == HookFits(b) /\ (b.guarded \/ b.act \in Unguarded)
PanelFits(p) == (\A q \in p.reads : QueryFits(q)) /\ \A b \in p.buttons : ButtonFits(b)
PageFits(f) == \A v \in DOMAIN f : PanelFits(f[v])

LEMMA ButtonFit ==
  ASSUME NEW h, HookFits(h), NEW list, NEW shownIn, NEW guarded, NEW done,
         guarded \/ h.act \in Unguarded
  PROVE  ButtonFits(Button(h, list, shownIn, guarded, done))
BY DEF ButtonFits, HookFits, Button

LEMMA FormFit ==
  ASSUME NEW h, HookFits(h), NEW done PROVE ButtonFits(Form(h, done))
BY ButtonFit DEF Form

LEMMA GuardedFit ==
  ASSUME NEW h, HookFits(h), NEW list, NEW shownIn PROVE ButtonFits(Guarded(h, list, shownIn))
BY ButtonFit DEF Guarded

LEMMA PlainFit ==
  ASSUME NEW h, HookFits(h), h.act \in Unguarded, NEW list, NEW shownIn
  PROVE  ButtonFits(Plain(h, list, shownIn))
BY ButtonFit DEF Plain

LEMMA DirectFit ==
  ASSUME NEW a, HookFits(Mutation(a, {})), NEW rows, NEW done
  PROVE  ButtonFits(Direct(a, rows, done))
BY ButtonFit DEF Direct

LEMMA PanelFit ==
  ASSUME NEW queries, NEW buttons,
         \A q \in queries : QueryFits(q), \A b \in buttons : ButtonFits(b)
  PROVE  PanelFits(Panel(queries, buttons))
BY DEF PanelFits, Panel

LEMMA BesideFit ==
  ASSUME NEW panels, \A p \in panels : PanelFits(p) PROVE PanelFits(Beside(panels))
BY DEF PanelFits, Beside, Panel

LEMMA ViewFit ==
  ASSUME NEW page, NEW panels, \A p \in panels : PanelFits(p) PROVE PanelFits(View(page, panels))
<1>1. View(page, panels).reads = Beside(panels).reads
  BY DEF View
<1>2. View(page, panels).buttons = Beside(panels).buttons
  BY DEF View
<1> QED
  BY <1>1, <1>2, BesideFit DEF PanelFits

LEMMA OverviewPageFit == PageFits(OverviewPage)
<1>1. PanelFits(DashboardOverview)
  BY QueriesFit, PanelFit DEF DashboardOverview
<1>2. PanelFits(OverviewPage["overview"])
  BY <1>1, ViewFit DEF OverviewPage
<1>3. DOMAIN OverviewPage = {"overview"}
  BY DEF OverviewPage
<1> QED
  BY <1>2, <1>3 DEF PageFits

LEMMA WalletsPageFit == PageFits(WalletsPage)
<1>1. PanelFits(WalletsList)
  BY QueriesFit, PanelFit DEF WalletsList
<1>2. PanelFits(WalletsPage["wallets"])
  BY <1>1, ViewFit DEF WalletsPage
<1>3. DOMAIN WalletsPage = {"wallets"}
  BY DEF WalletsPage
<1> QED
  BY <1>2, <1>3 DEF PageFits

LEMMA TransferPageFit == PageFits(TransferPage)
<1>1. PanelFits(WalletToWalletForm)
  BY QueriesFit, TransfersHooks, FormFit, PanelFit DEF WalletToWalletForm
<1>2. PanelFits(ConvertCurrencyForm)
  BY QueriesFit, TransfersHooks, FormFit, PanelFit DEF ConvertCurrencyForm
<1>3. \A someBank \in BOOLEAN : PanelFits(BankTransferForm(someBank))
  BY QueriesFit, TransfersHooks, FormFit, PanelFit DEF BankTransferForm, When
<1>4. PanelFits(TransferHistory)
  BY QueriesFit, PanelFit DEF TransferHistory
<1>5. PanelFits(TransferPage["transferWallet"])
  BY <1>1, <1>4, ViewFit DEF TransferPage
<1>6. PanelFits(TransferPage["transferConvert"])
  BY <1>2, <1>4, ViewFit DEF TransferPage
<1>7. PanelFits(TransferPage["transferBank"])
  BY <1>3, <1>4, ViewFit DEF TransferPage
<1>8. PanelFits(TransferPage["transferNoBank"])
  BY <1>3, <1>4, ViewFit DEF TransferPage
<1>9. DOMAIN TransferPage = {"transferWallet", "transferConvert", "transferBank",
      "transferNoBank"}
  BY DEF TransferPage
<1> QED
  BY <1>5, <1>6, <1>7, <1>8, <1>9 DEF PageFits

LEMMA BeneficiariesPageFit == PageFits(BeneficiariesPage)
<1>1. PanelFits(BeneficiaryList)
  BY QueriesFit, BeneficiariesHooks, PlainFit, PanelFit DEF BeneficiaryList
<1>2. PanelFits(AddGlobaPayUserForm)
  BY QueriesFit, BeneficiariesHooks, FormFit, PanelFit DEF AddGlobaPayUserForm
<1>3. PanelFits(AddBankAccountForm)
  BY QueriesFit, BeneficiariesHooks, FormFit, PanelFit DEF AddBankAccountForm
<1>4. PanelFits(BeneficiariesPage["beneficiaries"])
  BY <1>1, ViewFit DEF BeneficiariesPage
<1>5. PanelFits(BeneficiariesPage["addingUser"])
  BY <1>1, <1>2, ViewFit DEF BeneficiariesPage
<1>6. PanelFits(BeneficiariesPage["addingBank"])
  BY <1>1, <1>3, ViewFit DEF BeneficiariesPage
<1>7. DOMAIN BeneficiariesPage = {"beneficiaries", "addingUser", "addingBank"}
  BY DEF BeneficiariesPage
<1> QED
  BY <1>4, <1>5, <1>6, <1>7 DEF PageFits

LEMMA P2pPageFit == PageFits(P2pPage)
<1>1. PanelFits(Panel({}, {}))
  BY PanelFit
<1>2. PanelFits(BuyForm)
  BY QueriesFit, P2pPurchaseHooks, FormFit, PanelFit DEF BuyForm
<1>3. \A buying \in BOOLEAN : PanelFits(OfferCard(buying))
  BY <1>1, <1>2, PanelFit DEF OfferCard
<1>4. PanelFits(Panel({UseOffers}, {}))
  BY QueriesFit, PanelFit
<1>5. \A buying \in BOOLEAN : PanelFits(BrowseTab(buying))
  BY <1>3, <1>4, QueriesFit, PanelFit, BesideFit DEF BrowseTab
<1>6. PanelFits(CreateOfferForm)
  BY QueriesFit, P2pOffersHooks, FormFit, PanelFit DEF CreateOfferForm
<1>7. \A creating \in BOOLEAN : PanelFits(MyOffersTab(creating))
  BY <1>1, <1>6, QueriesFit, P2pOffersHooks, PlainFit, PanelFit, BesideFit DEF MyOffersTab
<1>8. PanelFits(Panel({UseP2POrders}, {}))
  BY QueriesFit, PanelFit
<1>9. \A side, showCode : PanelFits(OrderActions(side, showCode))
  BY QueriesFit, P2pOrdersHooks, GuardedFit, PanelFit DEF OrderActions, When
<1>10. \A side, showCode : PanelFits(MyOrdersTab(side, showCode))
  BY <1>8, <1>9, QueriesFit, PanelFit, BesideFit DEF MyOrdersTab
<1>11. PanelFits(P2pPage["p2pBrowse"])
  BY <1>5, ViewFit DEF P2pPage
<1>12. PanelFits(P2pPage["p2pBuying"])
  BY <1>5, ViewFit DEF P2pPage
<1>13. PanelFits(P2pPage["p2pMyOffers"])
  BY <1>7, ViewFit DEF P2pPage
<1>14. PanelFits(P2pPage["p2pCreating"])
  BY <1>7, ViewFit DEF P2pPage
<1>15. PanelFits(P2pPage["p2pSales"])
  BY <1>10, ViewFit DEF P2pPage
<1>16. PanelFits(P2pPage["p2pPurchases"])
  BY <1>10, ViewFit DEF P2pPage
<1>17. PanelFits(P2pPage["p2pCode"])
  BY <1>10, ViewFit DEF P2pPage
<1>18. DOMAIN P2pPage = {"p2pBrowse", "p2pBuying", "p2pMyOffers", "p2pCreating", "p2pSales",
      "p2pPurchases", "p2pCode"}
  BY DEF P2pPage
<1> QED
  BY <1>11, <1>12, <1>13, <1>14, <1>15, <1>16, <1>17, <1>18 DEF PageFits

LEMMA CryptoPageFit == PageFits(CryptoPage)
<1>1. PanelFits(PortfolioSummary)
  BY QueriesFit, PanelFit DEF PortfolioSummary
<1>2. PanelFits(DepositModal)
  BY PanelFit DEF DepositModal
<1>3. PanelFits(PricesPanel)
  BY QueriesFit, WatchlistHooks, PlainFit, PanelFit DEF PricesPanel
<1>4. PanelFits(TradePanel)
  BY QueriesFit, CryptoOrdersDeskHooks, FormFit, PanelFit DEF TradePanel
<1>5. PanelFits(OrdersPanel)
  BY QueriesFit, CryptoOrdersDeskHooks, PlainFit, PanelFit DEF OrdersPanel
<1>6. PanelFits(AlertsPanel)
  BY QueriesFit, WatchlistHooks, FormFit, PlainFit, PanelFit DEF AlertsPanel
<1>7. PanelFits(CryptoPage["crypto"])
  BY <1>1, <1>3, <1>4, <1>5, <1>6, ViewFit DEF CryptoPage, CryptoPanels
<1>8. PanelFits(CryptoPage["cryptoDeposit"])
  BY <1>1, <1>2, <1>3, <1>4, <1>5, <1>6, ViewFit DEF CryptoPage, CryptoPanels
<1>9. DOMAIN CryptoPage = {"crypto", "cryptoDeposit"}
  BY DEF CryptoPage
<1> QED
  BY <1>7, <1>8, <1>9 DEF PageFits

LEMMA CardsPageFit == PageFits(CardsPage)
<1>1. PanelFits(Panel({UseCards}, {}))
  BY QueriesFit, PanelFit
<1>2. PanelFits(IssueCardForm)
  BY QueriesFit, CardsHooks, FormFit, PanelFit DEF IssueCardForm
<1>3. \A showStatement \in BOOLEAN : PanelFits(CardTile(showStatement))
  BY QueriesFit, CardsHooks, GuardedFit, PanelFit DEF CardTile, When
<1>4. PanelFits(CardsPage["cards"])
  BY <1>1, <1>3, ViewFit DEF CardsPage
<1>5. PanelFits(CardsPage["cardStatement"])
  BY <1>1, <1>3, ViewFit DEF CardsPage
<1>6. PanelFits(CardsPage["cardIssuing"])
  BY <1>1, <1>2, <1>3, ViewFit DEF CardsPage
<1>7. DOMAIN CardsPage = {"cards", "cardStatement", "cardIssuing"}
  BY DEF CardsPage
<1> QED
  BY <1>4, <1>5, <1>6, <1>7 DEF PageFits

LEMMA MerchantPageFit == PageFits(MerchantPage)
<1>1. PanelFits(SetupForm)
  BY QueriesFit, MerchantAccountsHooks, GuardedFit, PanelFit DEF SetupForm
<1>2. PanelFits(PaymentLinksPanel)
  BY QueriesFit, MerchantPapersHooks, FormFit, PlainFit, PanelFit DEF PaymentLinksPanel
<1>3. PanelFits(InvoicesPanel)
  BY QueriesFit, MerchantPapersHooks, FormFit, PlainFit, PanelFit DEF InvoicesPanel
<1>4. PanelFits(MerchantHeader)
  BY QueriesFit, PanelFit DEF MerchantHeader
<1>5. PanelFits(MerchantPage["merchantSetup"])
  BY <1>1, <1>4, ViewFit DEF MerchantPage
<1>6. PanelFits(MerchantPage["merchantHome"])
  BY <1>4, ViewFit DEF MerchantPage
<1>7. PanelFits(MerchantPage["merchantLinks"])
  BY <1>2, <1>4, ViewFit DEF MerchantPage
<1>8. PanelFits(MerchantPage["merchantInvoices"])
  BY <1>3, <1>4, ViewFit DEF MerchantPage
<1>9. DOMAIN MerchantPage = {"merchantSetup", "merchantHome", "merchantLinks",
      "merchantInvoices"}
  BY DEF MerchantPage
<1> QED
  BY <1>5, <1>6, <1>7, <1>8, <1>9 DEF PageFits

LEMMA CheckoutPageFit == PageFits(CheckoutPage)
<1>1. PanelFits(Panel({UseWallets}, {Continue}))
  BY QueriesFit, CheckoutDeskHooks, ButtonFit, PanelFit DEF Continue
<1>2. PanelFits(Panel({UseWallets}, {Pay}))
  BY QueriesFit, CheckoutDeskHooks, ButtonFit, PanelFit DEF Pay
<1>3. PanelFits(Panel({UseWallets}, {}))
  BY QueriesFit, PanelFit
<1>4. PanelFits(CheckoutPage["checkout"])
  BY <1>1, ViewFit DEF CheckoutPage
<1>5. PanelFits(CheckoutPage["checkoutPay"])
  BY <1>2, ViewFit DEF CheckoutPage
<1>6. PanelFits(CheckoutPage["checkoutPaid"])
  BY <1>3, ViewFit DEF CheckoutPage
<1>7. DOMAIN CheckoutPage = {"checkout", "checkoutPay", "checkoutPaid"}
  BY DEF CheckoutPage
<1> QED
  BY <1>4, <1>5, <1>6, <1>7 DEF PageFits

LEMMA VerificationPageFit == PageFits(VerificationPage)
<1>1. PanelFits(Panel({UseKycStatus}, {}))
  BY QueriesFit, PanelFit
<1>2. PanelFits(TierForm)
  BY QueriesFit, KycDeskHooks, GuardedFit, PanelFit DEF TierForm
<1>3. PanelFits(DocumentUploader)
  BY QueriesFit, KycDeskHooks, PlainFit, PanelFit DEF DocumentUploader
<1>4. PanelFits(FinalizeBar)
  BY QueriesFit, KycDeskHooks, GuardedFit, PanelFit DEF FinalizeBar
<1>5. PanelFits(VerificationPage["verification"])
  BY <1>1, <1>2, <1>3, <1>4, ViewFit DEF VerificationPage, Tier1Form, Tier2Form, Tier3Form
<1>6. DOMAIN VerificationPage = {"verification"}
  BY DEF VerificationPage
<1> QED
  BY <1>5, <1>6 DEF PageFits

LEMMA CompliancePageFit == PageFits(CompliancePage)
<1>1. PanelFits(Panel({UseComplianceQueue}, {}))
  BY QueriesFit, PanelFit
<1>2. PanelFits(SubmissionCard)
  BY QueriesFit, KycDeskHooks, GuardedFit, PanelFit DEF SubmissionCard
<1>3. PanelFits(CompliancePage["compliance"])
  BY <1>1, <1>2, ViewFit DEF CompliancePage
<1>4. PanelFits(CompliancePage["complianceNoRole"])
  BY <1>1, ViewFit DEF CompliancePage
<1>5. DOMAIN CompliancePage = {"compliance", "complianceNoRole"}
  BY DEF CompliancePage
<1> QED
  BY <1>3, <1>4, <1>5 DEF PageFits

LEMMA AssistantPageFit == PageFits(AssistantPage)
<1>1. \A configured, begun : PanelFits(ChatPanel(configured, begun))
  BY QueriesFit, AssistantHooks, FormFit, PanelFit DEF ChatPanel, When
<1>2. PanelFits(HealthScoreCard)
  BY QueriesFit, PanelFit DEF HealthScoreCard
<1>3. PanelFits(SpendingCard)
  BY QueriesFit, PanelFit DEF SpendingCard
<1>4. PanelFits(BudgetsCard)
  BY QueriesFit, BudgetsDeskHooks, FormFit, PanelFit DEF BudgetsCard
<1>5. PanelFits(FraudAlertsCard)
  BY QueriesFit, FraudDeskHooks, PlainFit, PanelFit DEF FraudAlertsCard
<1>6. PanelFits(AssistantPage["assistant"])
  BY <1>1, <1>2, <1>3, <1>4, <1>5, ViewFit DEF AssistantPage, AssistantCards
<1>7. PanelFits(AssistantPage["assistantChat"])
  BY <1>1, <1>2, <1>3, <1>4, <1>5, ViewFit DEF AssistantPage, AssistantCards
<1>8. PanelFits(AssistantPage["assistantOff"])
  BY <1>1, <1>2, <1>3, <1>4, <1>5, ViewFit DEF AssistantPage, AssistantCards
<1>9. DOMAIN AssistantPage = {"assistant", "assistantChat", "assistantOff"}
  BY DEF AssistantPage
<1> QED
  BY <1>6, <1>7, <1>8, <1>9 DEF PageFits

LEMMA AdminPageFit == PageFits(AdminPage)
<1>1. PanelFits(AnalyticsTab)
  BY QueriesFit, PanelFit DEF AnalyticsTab
<1>2. PanelFits(UsersTab)
  BY QueriesFit, UserManagementHooks, PlainFit, PanelFit DEF UsersTab
<1>3. PanelFits(SettingsTab)
  <2>1. ButtonFits(Button(UseUpsertFeatureFlag("upsertFlag"), NoList, NoRow, FALSE, Stay))
    BY PlatformSettingsHooks, ButtonFit
  <2>2. ButtonFits(Plain(UseUpsertFeatureFlag("flagOn"), UseFeatureFlags, {"off"}))
    BY PlatformSettingsHooks, PlainFit
  <2>3. ButtonFits(Plain(UseUpsertFeatureFlag("flagOff"), UseFeatureFlags, {"on"}))
    BY PlatformSettingsHooks, PlainFit
  <2>4. ButtonFits(Plain(UseSetFeeRuleActive("feeOn"), UseFeeRules, {"off"}))
    BY PlatformSettingsHooks, PlainFit
  <2>5. ButtonFits(Plain(UseSetFeeRuleActive("feeOff"), UseFeeRules, {"on"}))
    BY PlatformSettingsHooks, PlainFit
  <2> QED
    BY <2>1, <2>2, <2>3, <2>4, <2>5, QueriesFit, PanelFit DEF SettingsTab
<1>4. PanelFits(AuditLogTab)
  BY QueriesFit, PanelFit DEF AuditLogTab
<1>5. PanelFits(AdminPage["adminAnalytics"])
  BY <1>1, ViewFit DEF AdminPage
<1>6. PanelFits(AdminPage["adminUsers"])
  BY <1>2, ViewFit DEF AdminPage
<1>7. PanelFits(AdminPage["adminSettings"])
  BY <1>3, ViewFit DEF AdminPage
<1>8. PanelFits(AdminPage["adminAudit"])
  BY <1>4, ViewFit DEF AdminPage
<1>9. PanelFits(AdminPage["adminNoRole"])
  BY ViewFit DEF AdminPage
<1>10. DOMAIN AdminPage = {"adminAnalytics", "adminUsers", "adminSettings", "adminAudit",
      "adminNoRole"}
  BY DEF AdminPage
<1> QED
  BY <1>5, <1>6, <1>7, <1>8, <1>9, <1>10 DEF PageFits

LEMMA AuthPagesFit == PageFits(AuthPages)
<1>1. PanelFits(LoginPage)
  BY SignInHooks, DirectFit, PanelFit DEF LoginPage
<1>2. PanelFits(RegisterPage)
  BY SignUpHooks, DirectFit, PanelFit DEF RegisterPage
<1>3. PanelFits(OtpForm)
  BY SignUpHooks, DirectFit, PanelFit DEF OtpForm
<1>4. PanelFits(TwoFactorChallenge)
  BY SignInHooks, DirectFit, PanelFit DEF TwoFactorChallenge
<1>5. PanelFits(ForgotPasswordPage)
  BY PasswordResetHooks, DirectFit, PanelFit DEF ForgotPasswordPage
<1>6. PanelFits(ResetForm)
  BY PasswordResetHooks, DirectFit, PanelFit DEF ResetForm
<1>7. PanelFits(AuthPages["signIn"])
  BY <1>1, ViewFit DEF AuthPages
<1>8. PanelFits(AuthPages["registering"])
  BY <1>2, ViewFit DEF AuthPages
<1>9. PanelFits(AuthPages["verifyingOtp"])
  BY <1>3, ViewFit DEF AuthPages
<1>10. PanelFits(AuthPages["challenged"])
  BY <1>4, ViewFit DEF AuthPages
<1>11. PanelFits(AuthPages["forgetful"])
  BY <1>5, ViewFit DEF AuthPages
<1>12. PanelFits(AuthPages["linkSent"])
  BY ViewFit DEF AuthPages
<1>13. PanelFits(AuthPages["resetting"])
  BY <1>6, ViewFit DEF AuthPages
<1>14. DOMAIN AuthPages = {"signIn", "registering", "verifyingOtp", "challenged", "forgetful",
      "linkSent", "resetting"}
  BY DEF AuthPages
<1> QED
  BY <1>7, <1>8, <1>9, <1>10, <1>11, <1>12, <1>13, <1>14 DEF PageFits

LEMMA SecurityPageFit == PageFits(SecurityPage)
<1>1. \A state \in {"off", "shown", "on"} : PanelFits(TwoFactorPanel(state))
  BY TwoFactorHooks, DirectFit, PanelFit DEF TwoFactorPanel
<1>2. PanelFits(PinPanel)
  BY PinsHooks, DirectFit, PanelFit DEF PinPanel
<1>3. PanelFits(SessionsPanel)
  <2>1. Mutation("logoutAll", {"sessions"}).act \in Unguarded
    BY DEF Mutation, Unguarded
  <2>2. ButtonFits(SignOutEverywhere)
    BY <2>1, LogoutAllDevicesHooks, ButtonFit DEF SignOutEverywhere
  <2> QED
    BY <2>2, QueriesFit, PanelFit DEF SessionsPanel
<1>4. PanelFits(SecurityPage["securityOff"])
  BY <1>1, <1>2, <1>3, ViewFit DEF SecurityPage
<1>5. PanelFits(SecurityPage["securityShown"])
  BY <1>1, <1>2, <1>3, ViewFit DEF SecurityPage
<1>6. PanelFits(SecurityPage["securityOn"])
  BY <1>1, <1>2, <1>3, ViewFit DEF SecurityPage
<1>7. DOMAIN SecurityPage = {"securityOff", "securityShown", "securityOn"}
  BY DEF SecurityPage
<1> QED
  BY <1>4, <1>5, <1>6, <1>7 DEF PageFits

LEMMA SettingsPageFit == PageFits(SettingsPage)
<1>1. PanelFits(Panel({}, {Direct("updateProfile", NoRow, Stay)}))
  BY ProfileHooks, DirectFit, PanelFit
<1>2. PanelFits(SettingsPage["settings"])
  BY <1>1, ViewFit DEF SettingsPage
<1>3. DOMAIN SettingsPage = {"settings"}
  BY DEF SettingsPage
<1> QED
  BY <1>2, <1>3 DEF PageFits

LEMMA ViewsFit == PageFits(Views)
<1>1. ASSUME NEW tables, \A f \in tables : PageFits(f) PROVE PageFits(Together(tables))
  <2> SUFFICES ASSUME NEW x \in DOMAIN Together(tables)
               PROVE  PanelFits(Together(tables)[x])
    BY DEF PageFits
  <2> DEFINE g == CHOOSE f \in tables : x \in DOMAIN f
  <2>1. g \in tables /\ x \in DOMAIN g /\ Together(tables)[x] = g[x]
    BY DEF Together
  <2> QED
    BY <1>1, <2>1 DEF PageFits
<1> QED
  BY <1>1, OverviewPageFit, WalletsPageFit, TransferPageFit, BeneficiariesPageFit, P2pPageFit,
    CryptoPageFit, CardsPageFit, MerchantPageFit, CheckoutPageFit, VerificationPageFit,
    CompliancePageFit, AssistantPageFit, AdminPageFit, AuthPagesFit, SecurityPageFit,
    SettingsPageFit DEF Views

(* Every query and every button of every page fits.                        *)
LEMMA ButtonsFit ==
  /\ \A v \in DOMAIN Views : \A q \in Views[v].reads : QueryFits(q)
  /\ \A a \in DOMAIN ButtonOf : ButtonFits(ButtonOf[a]) /\ ButtonOf[a].act = a
<1>1. \A v \in DOMAIN Views : PanelFits(Views[v])
  BY ViewsFit DEF PageFits
<1> DEFINE all == UNION {Buttons(v) : v \in DOMAIN Views}
<1>2. ButtonOf = [a \in {b.act : b \in all} |-> CHOOSE b \in all : b.act = a]
  BY DEF ButtonOf
<1>3. \A b \in all : ButtonFits(b)
  BY <1>1 DEF Buttons, PanelFits
<1> HIDE DEF all
<1> QED
  BY <1>1, <1>2, <1>3 DEF PanelFits

(* Of whatever a request changes and a page shows, the hook of its button  *)
(* invalidates the query, but for the gaps: every request against every    *)
(* query of the pages (the onSuccess of the hooks, the services' writes).  *)
THEOREM HooksComplete ==
  \A a \in DOMAIN ButtonOf : \A key \in Written(a) :
    key \in ButtonOf[a].tells \/ <<a, key>> \in Gaps
<1> SUFFICES ASSUME NEW a \in DOMAIN ButtonOf, NEW key \in Written(a),
                    key \notin ButtonOf[a].tells
             PROVE  <<a, key>> \in Gaps
  OBVIOUS
<1>1. PICK q \in AllQueries : q.key = key /\ q.tables \cap Services[a].writes # {}
  BY DEF Written
<1>2. key \notin Derived
  BY DEF Written
<1>3. QueryFits(q)
  BY ButtonsFit DEF AllQueries
<1>4. PICK t \in Services[a].writes : <<t, key>> \in Shows
  BY <1>1, <1>2, <1>3 DEF QueryFits
<1>5. ButtonFits(ButtonOf[a]) /\ ButtonOf[a].act = a
  BY ButtonsFit
<1>6. ServiceFits(a, Services[a])
  BY <1>5, ServicesFit DEF ButtonFits, HookFits, TableFits
<1>7. <<a, key>> \in Tells \cup Gaps
  BY <1>4, <1>6 DEF ServiceFits, Reaches
<1> QED
  BY <1>5, <1>7 DEF ButtonFits, HookFits

LEMMA FocusDomain ==
  ASSUME NEW a, NEW key, NEW f, f = Focus(a, key)
  PROVE  /\ f.act = a /\ f.query = key /\ f.button = ButtonOf[a] /\ f.service = Services[a]
         /\ f.changes = (key \in Written(a))
         /\ f.near \subseteq DOMAIN f.page
         /\ Elsewhere \in DOMAIN f.page
         /\ f.homes \cup f.readers \subseteq DOMAIN f.page
<1> DEFINE homes == {v \in DOMAIN Views : ButtonOf[a] \in Buttons(v)}
<1> DEFINE readers == {v \in DOMAIN Views : key \in Reads(v)}
<1> DEFINE local == {v \in readers : \E h \in homes : Page(v) = Page(h)}
<1> DEFINE away == readers \ local
<1> DEFINE near == {Elsewhere} \cup homes \cup local
                     \cup IF away = {} THEN {} ELSE {CHOOSE v \in away : TRUE}
<1> DEFINE page == [v \in {Elsewhere} \cup homes \cup readers |-> Page(v)]
<1>1. near \subseteq {Elsewhere} \cup homes \cup readers
  OBVIOUS
<1>2. f = [act |-> a, query |-> key, button |-> ButtonOf[a], service |-> Services[a],
           changes |-> key \in Written(a), homes |-> homes, readers |-> readers,
           near |-> near, page |-> page]
  BY DEF Focus
<1>3. DOMAIN page = {Elsewhere} \cup homes \cup readers
  OBVIOUS
<1> HIDE DEF homes, readers, local, away, near, page
<1> QED
  BY <1>1, <1>2, <1>3

-----------------------------------------------------------------------------
(* The dashboard.                                                          *)

USE DashboardAssumption

(* What the tables of the code say of the button and the query.            *)
FocusFits ==
  /\ Changes => focus.query \in Clicked.tells \/ <<act, focus.query>> \in Gaps
  /\ \/ Clicked.guarded
     \/ act \in MayDouble
     \/ /\ ~Service.again /\ Service.to # "same"
        /\ \A m \in Service.others : m[1] # Service.to
  /\ focus.near \subseteq DOMAIN focus.page
  /\ Elsewhere \in DOMAIN focus.page
  /\ focus.homes \cup focus.readers \subseteq DOMAIN focus.page

ClickRow == [stage : {"unsent", "asked", "done", "refused", "over"}, here : BOOLEAN,
             over : {"no", "same", "other"}, effect : BOOLEAN]

(* What the cache and the fetch in flight hold of one's own was made.      *)
DashTyped ==
  /\ view \in DOMAIN focus.page
  /\ sent \in [1..MaxClicks -> ClickRow]
  /\ \A k \in 1..MaxClicks : sent[k].stage = "unsent" => ~sent[k].effect
  /\ fetch = NoFetch \/ fetch = Asked \/ fetch.stage = "read"
  /\ age \in {"fresh", "stale"}
  /\ fetch.has \subseteq made /\ cache.has \subseteq made /\ told \subseteq made
  /\ Changes \/ made = {}

(* A fetch that read the service after all this user was told brings it,   *)
(* and an answer that is shown or fresh has it.                            *)
Caught ==
  \/ <<act, focus.query>> \in Gaps \/ excuse # "none"
  \/ /\ fetch.stage = "read" => told \subseteq fetch.has
     /\ fetch = NoFetch /\ cache # Nothing /\ (Shown \/ age = "fresh") => told \subseteq cache.has

(* A guarded button is not clicked over its own request; what an unguarded *)
(* one does leaves the row where doing it again, or a move of the others,  *)
(* does not take it from.                                                  *)
DoneOnce ==
  \/ act \in MayDouble
  \/ Clicked.guarded /\ \A k \in 1..MaxClicks : sent[k].over # "same"
  \/ /\ ~Clicked.guarded
     /\ \A j \in 1..MaxClicks : sent[j].effect => row = Service.to
     /\ \A j, k \in 1..MaxClicks : sent[j].effect /\ sent[k].effect => j = k

DInv == FocusFits /\ DashTyped /\ Caught /\ DoneOnce

LEMMA FetchStages ==
  /\ Asked.stage = "asked" /\ Asked.has = {} /\ NoFetch.stage = "idle" /\ NoFetch.has = {}
  /\ Asked # NoFetch
BY DEF Asked, NoFetch

LEMMA LeftBehind ==
  ASSUME NEW d \in ClickRow, NEW h \in BOOLEAN, NEW e, e = [d EXCEPT !.here = @ /\ h]
  PROVE  e \in ClickRow /\ e.stage = d.stage /\ e.over = d.over /\ e.effect = d.effect
<1>1. (d.here /\ h) \in BOOLEAN
  OBVIOUS
<1> DEFINE b == d.here /\ h
<1>2. e = [d EXCEPT !.here = b] /\ b \in BOOLEAN
  BY <1>1
<1> HIDE DEF b
<1> QED
  BY <1>2 DEF ClickRow

LEMMA HandledRow ==
  ASSUME NEW d \in ClickRow, NEW e
  PROVE  [d EXCEPT !.stage = "done", !.effect = e]
           = [stage |-> "done", here |-> d.here, over |-> d.over, effect |-> e]
<1>1. d = [stage |-> d.stage, here |-> d.here, over |-> d.over, effect |-> d.effect]
  BY DEF ClickRow
<1>2. PICK c : c = [d EXCEPT !.stage = "done"]
  OBVIOUS
<1>3. c = [stage |-> "done", here |-> d.here, over |-> d.over, effect |-> d.effect]
  BY <1>1, <1>2
<1>4. [c EXCEPT !.effect = e] = [stage |-> "done", here |-> d.here, over |-> d.over, effect |-> e]
  BY <1>3
<1>5. [d EXCEPT !.stage = "done", !.effect = e] = [c EXCEPT !.effect = e]
  BY <1>2
<1> QED
  BY <1>4, <1>5

LEMMA FocusKept == ASSUME FocusFits, focus' = focus PROVE FocusFits'
BY DEF FocusFits, Changes, Clicked, act, Service

(* A step of the cache or of the pages.                                    *)
LEMMA CacheStep ==
  ASSUME DInv, Go \/ FetchReads \/ FetchArrives \/ FetchFails \/ GrowsOld \/ Forget
  PROVE  DInv'
<1>1. focus' = focus /\ row' = row /\ made' = made /\ told' = told
  BY DEF Go, FetchReads, FetchArrives, FetchFails, GrowsOld, Forget
<1>2. FocusFits'
  BY <1>1, FocusKept DEF DInv
<1>3. /\ sent' \in [1..MaxClicks -> ClickRow]
      /\ \A k \in 1..MaxClicks : /\ sent'[k].stage = sent[k].stage
                                 /\ sent'[k].effect = sent[k].effect
                                 /\ sent'[k].over = sent[k].over
  <2>1. CASE Go
    <3>1. PICK v : sent' = [k \in DOMAIN sent |-> [sent[k] EXCEPT !.here = @ /\ HasButton(v)]]
      BY <2>1 DEF Go
    <3>2. HasButton(v) \in BOOLEAN
      BY DEF HasButton
    <3>3. DOMAIN sent = 1..MaxClicks /\ \A k \in 1..MaxClicks : sent[k] \in ClickRow
      BY DEF DInv, DashTyped
    <3>4. ASSUME NEW k \in 1..MaxClicks PROVE sent'[k] = [sent[k] EXCEPT !.here = @ /\ HasButton(v)]
      BY <3>1, <3>3
    <3> QED
      BY <3>1, <3>2, <3>3, <3>4, LeftBehind
  <2> QED
    BY <2>1 DEF DInv, DashTyped, FetchReads, FetchArrives, FetchFails, GrowsOld, Forget
<1>4. DoneOnce'
  BY <1>1, <1>3 DEF DInv, DoneOnce, act, Clicked, Service
<1>5. DashTyped' /\ Caught'
  <2>1. CASE Go
    <3>1. view' \in DOMAIN focus.page /\ (fetch' = fetch \/ fetch' = Asked)
      BY <2>1 DEF Go, Enter, DInv, FocusFits
    <3>2. DashTyped'
      BY <1>1, <1>3, <2>1, <3>1 DEF Go, DInv, DashTyped, Changes, Asked
    <3>3. ASSUME fetch' = Asked, fetch' # fetch PROVE Caught'
      BY <2>1, <3>3, FetchStages DEF Go, Caught
    <3>4. ASSUME fetch' = fetch PROVE Caught'
      <4>1. excuse' = excuse /\ cache' = cache /\ age' = age
        BY <2>1, <3>4 DEF Go
      <4>2. fetch = NoFetch /\ cache # Nothing /\ Shown' => Shown \/ age = "fresh" \/ age # "stale"
        BY <1>1, <2>1, <3>4 DEF Go, Enter, Shown, Mounts, NoFetch, Asked
      <4> QED
        BY <1>1, <3>4, <4>1, <4>2, FetchStages DEF DInv, DashTyped, Caught, act
    <3> QED
      BY <3>1, <3>2, <3>3, <3>4
  <2>2. CASE FetchReads
    BY <1>1, <1>3, <2>2 DEF FetchReads, DInv, DashTyped, Caught, Changes, Shown, Mounts, act, NoFetch, Asked
  <2>3. CASE FetchArrives
    BY <1>1, <1>3, <2>3 DEF FetchArrives, DInv, DashTyped, Caught, Changes, Shown, Mounts, act, NoFetch, Asked
  <2>4. CASE FetchFails
    BY <1>1, <1>3, <2>4 DEF FetchFails, DInv, DashTyped, Caught, Changes, Shown, Mounts, act, NoFetch, Asked
  <2>5. CASE GrowsOld
    BY <1>1, <1>3, <2>5 DEF GrowsOld, DInv, DashTyped, Caught, Changes, Shown, Mounts, act, NoFetch, Asked
  <2>6. CASE Forget
    BY <1>1, <1>3, <2>6 DEF Forget, DInv, DashTyped, Caught, Changes, Shown, Mounts, act, NoFetch, Asked, Nothing
  <2> QED
    BY <2>1, <2>2, <2>3, <2>4, <2>5, <2>6
<1> QED
  BY <1>2, <1>4, <1>5 DEF DInv

LEMMA ClickStep ==
  ASSUME DInv, NEW k \in 1..MaxClicks, Click(k) \/ Complain(k) PROVE DInv'
<1>1. focus' = focus /\ row' = row /\ made' = made /\ told' = told /\ view' = view /\ cache' = cache
      /\ age' = age /\ fetch' = fetch /\ excuse' = excuse
  BY DEF Click, Complain
<1>2. FocusFits' /\ Caught'
  BY <1>1, FocusKept DEF DInv, Caught, Shown, Mounts, act
<1>3. /\ sent' \in [1..MaxClicks -> ClickRow]
      /\ \A j \in 1..MaxClicks : sent'[j].stage = "unsent" => ~sent'[j].effect
      /\ \A j \in 1..MaxClicks : sent'[j].effect => sent[j].effect
      /\ \A j \in 1..MaxClicks :
           sent'[j].over = sent[j].over \/ (Clicked.guarded => sent'[j].over # "same")
  <2>1. sent \in [1..MaxClicks -> ClickRow]
    BY DEF DInv, DashTyped
  <2>2. CASE Click(k)
    <3> DEFINE over == CASE \E j \in DOMAIN sent : Pending(j) /\ sent[j].here -> "same"
                         [] \E j \in DOMAIN sent : Pending(j) /\ ~sent[j].here -> "other"
                         [] OTHER -> "no"
    <3>1. /\ sent' = [sent EXCEPT ![k] =
                       [stage |-> "asked", here |-> TRUE, effect |-> FALSE, over |-> over]]
          /\ Clicked.guarded => \A j \in DOMAIN sent : ~(Pending(j) /\ sent[j].here)
      BY <2>2 DEF Click
    <3>2. over \in {"no", "same", "other"}
      OBVIOUS
    <3>3. Clicked.guarded => over # "same"
      BY <3>1
    <3> HIDE DEF over
    <3> QED
      BY <2>1, <3>1, <3>2, <3>3 DEF ClickRow, DInv, DashTyped
  <2>3. CASE Complain(k)
    BY <2>1, <2>3 DEF Complain, Over, ClickRow, DInv, DashTyped
  <2> QED
    BY <2>2, <2>3
<1>5. DashTyped'
  BY <1>1, <1>3 DEF DInv, DashTyped, Changes
<1>6. DoneOnce'
  BY <1>1, <1>3 DEF DInv, DoneOnce, act, Clicked, Service
<1> QED
  BY <1>2, <1>5, <1>6 DEF DInv

LEMMA HandleStep ==
  ASSUME DInv, NEW k \in 1..MaxClicks, Handle(k) PROVE DInv'
<1> DEFINE next == IF Service.to = "same" THEN row ELSE Service.to
           effect == Service.again \/ next # row
<1>1. focus' = focus /\ told' = told /\ view' = view /\ cache' = cache
      /\ age' = age /\ fetch' = fetch /\ excuse' = excuse
  BY DEF Handle
<1>2. FocusFits' /\ Caught'
  BY <1>1, FocusKept DEF DInv, Caught, Shown, Mounts, act
<1>0. FocusFits /\ DashTyped /\ DoneOnce
  BY DEF DInv
<1>3. CASE row \in Service.from
  <2>1. /\ row' = next
        /\ made' = IF Changes THEN made \cup {k} ELSE made
        /\ sent' = [sent EXCEPT ![k].stage = "done", ![k].effect = effect]
    BY <1>3 DEF Handle
  <2> HIDE DEF next, effect
  <2>7. effect \in BOOLEAN
    BY DEF effect
  <2>8. sent' = [sent EXCEPT ![k] = [stage |-> "done", here |-> sent[k].here,
                                     over |-> sent[k].over, effect |-> effect]]
    <3>1. sent[k] \in ClickRow /\ sent' = [sent EXCEPT ![k] = [@ EXCEPT !.stage = "done", !.effect = effect]]
      BY <1>0, <2>1 DEF DashTyped
    <3>2. [sent[k] EXCEPT !.stage = "done", !.effect = effect]
            = [stage |-> "done", here |-> sent[k].here, over |-> sent[k].over, effect |-> effect]
      BY <3>1, HandledRow
    <3> QED
      BY <3>1, <3>2
  <2>2. /\ sent' \in [1..MaxClicks -> ClickRow]
        /\ \A j \in 1..MaxClicks : sent'[j].stage = "unsent" => ~sent'[j].effect
        /\ \A j \in 1..MaxClicks : sent'[j].over = sent[j].over
        /\ \A j \in 1..MaxClicks \ {k} : sent'[j] = sent[j]
    BY <1>0, <2>7, <2>8 DEF DashTyped, ClickRow
  <2>3. DashTyped'
    BY <1>0, <1>1, <2>1, <2>2 DEF DashTyped, Changes
  <2>4. sent'[k].effect = effect
    BY <1>0, <2>8 DEF DashTyped
  <2>5. ASSUME act \in MayDouble \/ Clicked.guarded PROVE DoneOnce'
    <3>1. act' = act /\ Clicked' = Clicked
      BY <1>1 DEF act, Clicked
    <3>2. act \in MayDouble \/ (Clicked.guarded /\ \A j \in 1..MaxClicks : sent[j].over # "same")
      BY <1>0, <2>5 DEF DoneOnce
    <3> QED
      BY <2>2, <3>1, <3>2 DEF DoneOnce
  <2>6. ASSUME act \notin MayDouble, ~Clicked.guarded PROVE DoneOnce'
    <3>1. ~Service.again /\ next = Service.to
      BY <1>0, <2>6 DEF FocusFits, next
    <3>2. effect <=> row # Service.to
      BY <3>1 DEF effect
    <3>3. /\ \A j \in 1..MaxClicks : sent[j].effect => row = Service.to
          /\ \A j, i \in 1..MaxClicks : sent[j].effect /\ sent[i].effect => j = i
      BY <1>0, <2>6 DEF DoneOnce
    <3>4. row' = Service.to /\ Service' = Service
      BY <1>1, <2>1, <3>1 DEF Service
    <3>5. \A j, i \in 1..MaxClicks : sent'[j].effect /\ sent'[i].effect => j = i
      BY <2>2, <2>4, <3>2, <3>3
    <3> QED
      <4>1. ~Clicked'.guarded
        BY <1>1, <2>6 DEF Clicked
      <4> QED
        BY <3>4, <3>5, <4>1 DEF DoneOnce
  <2> QED
    BY <1>2, <2>3, <2>5, <2>6 DEF DInv
<1>4. CASE row \notin Service.from
  <2>1. row' = row /\ made' = made /\ sent' = [sent EXCEPT ![k].stage = "refused"]
    BY <1>4 DEF Handle
  <2>2. /\ sent' \in [1..MaxClicks -> ClickRow]
        /\ \A j \in 1..MaxClicks : sent'[j].stage = "unsent" => ~sent'[j].effect
        /\ \A j \in 1..MaxClicks : sent'[j].over = sent[j].over /\ sent'[j].effect = sent[j].effect
    BY <1>0, <2>1 DEF DashTyped, ClickRow
  <2>3. DashTyped' /\ DoneOnce'
    BY <1>0, <1>1, <2>1, <2>2 DEF DashTyped, DoneOnce, Changes, act, Clicked, Service
  <2> QED
    BY <1>2, <2>3 DEF DInv
<1> QED
  BY <1>3, <1>4

LEMMA AnswerStep ==
  ASSUME DInv, NEW k \in 1..MaxClicks, Answer(k) PROVE DInv'
<1> DEFINE tells  == focus.query \in Clicked.tells
           kept   == IF cache = Nothing THEN fetch.stage # "idle" ELSE ~Shown
           age1   == IF tells /\ ~(cache = Nothing) THEN "stale" ELSE age
           fetch1 == IF tells /\ Shown /\ ~kept THEN Asked ELSE fetch
           view1  == IF sent[k].here /\ Clicked.done # Stay THEN Clicked.done ELSE view
<1>1. /\ told' = told \cup ({k} \cap made)
      /\ age' = age1
      /\ view' = IF Mounts(view1) \/ HasButton(view1) THEN view1 ELSE Elsewhere
      /\ fetch' = Enter(view', age1, fetch1)
      /\ excuse' = IF fetch' # fetch THEN "none"
                   ELSE IF tells /\ fetch.stage = "read" /\ ~(told' \subseteq fetch.has) THEN "overtaken"
                   ELSE excuse
      /\ sent' = [j \in DOMAIN sent |->
                    IF j = k THEN Over(k) ELSE [sent[j] EXCEPT !.here = @ /\ HasButton(view')]]
      /\ focus' = focus /\ row' = row /\ made' = made /\ cache' = cache
  BY DEF Answer
<1>0. FocusFits /\ DashTyped /\ Caught /\ DoneOnce
  BY DEF DInv
<1>2. FocusFits'
  BY <1>1, <1>0, FocusKept
<1>3. view' \in DOMAIN focus.page
  BY <1>1, <1>0 DEF FocusFits, Mounts, HasButton
<1>4. /\ sent' \in [1..MaxClicks -> ClickRow]
      /\ \A j \in 1..MaxClicks : sent'[j].over = sent[j].over /\ sent'[j].effect = sent[j].effect
      /\ \A j \in 1..MaxClicks : sent'[j].stage = "unsent" => sent[j].stage = "unsent"
  <2>1. HasButton(view') \in BOOLEAN
    BY DEF HasButton
  <2>2. DOMAIN sent = 1..MaxClicks /\ \A j \in 1..MaxClicks : sent[j] \in ClickRow
    BY <1>0 DEF DashTyped
  <2>3. ASSUME NEW j \in 1..MaxClicks \ {k}
        PROVE  sent'[j] = [sent[j] EXCEPT !.here = @ /\ HasButton(view')]
    BY <1>1, <2>2
  <2>4. sent'[k] = [sent[k] EXCEPT !.stage = "over", !.here = FALSE]
    BY <1>1, <2>2 DEF Over
  <2>5. DOMAIN sent' = 1..MaxClicks /\ sent' = [j \in 1..MaxClicks |-> sent'[j]]
    BY <1>1, <2>2
  <2>6. /\ sent'[k] \in ClickRow /\ sent'[k].stage = "over"
        /\ sent'[k].over = sent[k].over /\ sent'[k].effect = sent[k].effect
    BY <2>2, <2>4 DEF ClickRow
  <2> QED
    BY <2>1, <2>2, <2>3, <2>5, <2>6, LeftBehind
<1>5. fetch' = fetch \/ fetch' = Asked
  BY <1>1 DEF Enter
<1>6. DashTyped'
  <2>1. fetch'.has \subseteq made /\ (fetch' = NoFetch \/ fetch' = Asked \/ fetch'.stage = "read")
    BY <1>5, <1>0, FetchStages DEF DashTyped
  <2>2. told' \subseteq made /\ age' \in {"fresh", "stale"}
    BY <1>1, <1>0 DEF DashTyped
  <2> QED
    BY <1>1, <1>3, <1>4, <2>1, <2>2, <1>0 DEF DashTyped, Changes
<1>7. DoneOnce'
  BY <1>1, <1>4, <1>0 DEF DoneOnce, act, Clicked, Service
<1>8. Caught'
  <2>1. CASE fetch' # fetch
    BY <1>1, <1>5, <2>1 DEF Caught, Asked, NoFetch
  <2>2. CASE fetch' = fetch /\ ~Changes
    BY <1>1, <2>2, <1>0 DEF DashTyped, Caught
  <2>3. CASE fetch' = fetch /\ Changes /\ <<act, focus.query>> \in Gaps
    BY <1>1, <2>3 DEF Caught, act
  <2>4. CASE fetch' = fetch /\ Changes /\ tells
    <3>1. CASE fetch.stage = "read"
      BY <1>1, <1>0, <2>4, <3>1 DEF Caught, NoFetch, act
    <3>2. CASE fetch.stage # "read" /\ cache # Nothing
      <4> HIDE DEF view1
      <4>1. (~Shown /\ ~Mounts(view')) \/ fetch # NoFetch
        BY <1>1, <2>4, <3>2 DEF Enter, Asked, NoFetch, Shown
      <4>2. age' # "fresh"
        BY <1>1, <2>4, <3>2
      <4> QED
        BY <1>1, <1>0, <2>4, <3>2, <4>1, <4>2 DEF Caught, NoFetch, Shown, Mounts, act
    <3>3. CASE fetch.stage # "read" /\ cache = Nothing
      BY <1>1, <1>0, <2>4, <3>3 DEF Caught, NoFetch, Shown, Mounts, act
    <3> QED
      BY <3>1, <3>2, <3>3
  <2> QED
    BY <2>1, <2>2, <2>3, <2>4, <1>0 DEF FocusFits
<1> QED
  BY <1>2, <1>6, <1>7, <1>8 DEF DInv

LEMMA OthersStep == ASSUME DInv, OthersMove PROVE DInv'
<1>1. focus' = focus /\ made' = made /\ told' = told /\ view' = view /\ cache' = cache
      /\ age' = age /\ fetch' = fetch /\ excuse' = excuse /\ sent' = sent
  BY DEF OthersMove
<1>2. FocusFits' /\ Caught' /\ DashTyped'
  BY <1>1, FocusKept DEF DInv, Caught, DashTyped, Shown, Mounts, act, Changes
<1>3. DoneOnce'
  BY <1>1 DEF OthersMove, DInv, DoneOnce, FocusFits, act, Clicked, Service
<1> QED
  BY <1>2, <1>3 DEF DInv

LEMMA DashStep == DInv /\ [DashNext]_dashVars => DInv'
<1>1. ASSUME DInv, UNCHANGED dashVars PROVE DInv'
  BY <1>1, FocusKept DEF dashVars, DInv, Caught, DashTyped, DoneOnce, Shown, Mounts, act, Changes, Clicked, Service
<1> QED
  BY <1>1, CacheStep, ClickStep, HandleStep, AnswerStep, OthersStep DEF DashNext

LEMMA FocusStart ==
  ASSUME NEW a \in DOMAIN ButtonOf, NEW key, focus = Focus(a, key)
  PROVE  FocusFits
<1>1. /\ focus.act = a /\ focus.query = key /\ focus.button = ButtonOf[a]
      /\ focus.service = Services[a] /\ focus.changes = (key \in Written(a))
      /\ focus.near \subseteq DOMAIN focus.page
      /\ Elsewhere \in DOMAIN focus.page
      /\ focus.homes \cup focus.readers \subseteq DOMAIN focus.page
  BY FocusDomain
<1>2. Changes => focus.query \in Clicked.tells \/ <<act, focus.query>> \in Gaps
  BY <1>1, HooksComplete DEF Changes, Clicked, act
<1>3. ButtonFits(ButtonOf[a]) /\ ButtonOf[a].act = a
  BY ButtonsFit
<1>4. ServiceFits(a, Services[a])
  BY <1>3, ServicesFit DEF ButtonFits, HookFits, TableFits
<1> QED
  BY <1>1, <1>2, <1>3, <1>4 DEF FocusFits, ButtonFits, ServiceFits, Settles, Clicked, Service, act

LEMMA DashStart == DashInit => DInv
<1> SUFFICES ASSUME DashInit PROVE DInv
  OBVIOUS
<1>1. PICK a \in DOMAIN ButtonOf : \E key \in About(a) : focus = Focus(a, key)
  BY DEF DashInit
<1>2. FocusFits
  BY <1>1, FocusStart
<1>3. Unsent \in ClickRow /\ ~Unsent.effect /\ Unsent.over # "same"
  BY DEF Unsent, ClickRow
<1>4. sent \in [1..MaxClicks -> ClickRow] /\ \A k \in 1..MaxClicks : sent[k] = Unsent
  BY <1>3 DEF DashInit
<1>5. DashTyped
  BY <1>2, <1>3, <1>4, FetchStages DEF DashInit, DashTyped, FocusFits, Nothing
<1>6. Caught
  BY DEF DashInit, Caught, NoFetch
<1>7. DoneOnce
  BY <1>3, <1>4 DEF DoneOnce
<1> QED
  BY <1>2, <1>5, <1>6, <1>7 DEF DInv

LEMMA DInvHolds == DashSpec => []DInv
BY DashStart, DashStep, PTL DEF DashSpec

LEMMA DashShows == DInv => OwnChangesShown /\ OneClickOneEffect
<1>1. DInv => OwnChangesShown
  BY DEF DInv, Caught, OwnChangesShown
<1>2. DInv => OneClickOneEffect
  BY DEF DInv, DashTyped, DoneOnce, OneClickOneEffect
<1> QED
  BY <1>1, <1>2

(* An answer that is shown contains every change of one's own that one was *)
(* told of, on every page and for every request, whatever the fetches,     *)
(* clicks and changes of others in between (the invalidations of the       *)
(* mutation hooks, useQuery), but for the gaps, failed fetches and fetches *)
(* that react-query kept.                                                  *)
THEOREM ChangesAreShown == DashSpec => []OwnChangesShown
BY DInvHolds, DashShows, PTL

(* However often a button is clicked while its request is unanswered, one  *)
(* click has an effect, but for the requests of MayDouble (disabled while  *)
(* isPending; the services' checks of the row).                            *)
THEOREM ClicksTakeOneEffect == DashSpec => []OneClickOneEffect
BY DInvHolds, DashShows, PTL

HIDE DashboardAssumption

-----------------------------------------------------------------------------
USE ActorsAssumption

-----------------------------------------------------------------------------
(* Verification.                                                           *)

USE VerificationAssumption

(* A handler that works on a code has one, and one that decides a status   *)
(* knows which.                                                            *)
HandlersTyped ==
  /\ VerificationTypeOK
  /\ \A r \in Calls :
       /\ handler[r].stage \in {"mailing", "checking"} => handler[r].code \in Codes
       /\ handler[r].stage = "activating" => handler[r].saw \in Statuses
       /\ handler[r].stage = "deciding" => handler[r].to \in Statuses
  /\ status = None =>
       /\ decided = None /\ \A c \in Codes : code[c].state = "none"
       /\ \A r \in Calls : handler[r].stage \in {"idle", "creating"}

HandlerRow == [stage : {"idle", "creating", "issuing", "invalidated", "mailing", "checking",
                     "proved", "activating", "deciding"},
            code : Codes \cup {None}, saw : Statuses \cup {None}, to : Statuses \cup {None}]

(* A record that is taken from one step to the next keeps its shape.       *)
LEMMA HandlerTaken ==
  ASSUME NEW h \in [Calls -> HandlerRow], NEW r \in Calls,
         NEW s \in {"checking", "mailing", "deciding"}
  PROVE  /\ \A c \in Codes : [h EXCEPT ![r].stage = s, ![r].code = c] \in [Calls -> HandlerRow]
         /\ \A to \in Statuses : [h EXCEPT ![r].stage = s, ![r].to = to] \in [Calls -> HandlerRow]
<1>1. ASSUME NEW c \in Codes PROVE [h[r] EXCEPT !.stage = s, !.code = c] \in HandlerRow
  BY DEF HandlerRow
<1>2. ASSUME NEW to \in Statuses PROVE [h[r] EXCEPT !.stage = s, !.to = to] \in HandlerRow
  BY DEF HandlerRow
<1> QED
  BY <1>1, <1>2

LEMMA HandlersStart == VerificationInit => HandlersTyped
<1> SUFFICES ASSUME VerificationInit PROVE HandlersTyped
  OBVIOUS
<1>1. VerificationTypeOK
  BY DEF VerificationInit, VerificationTypeOK, NoCode, AtRest
<1>2. /\ \A r \in Calls : handler[r].stage = "idle"
      /\ \A c \in Codes : code[c].state = "none"
      /\ status = None /\ decided = None
  BY DEF VerificationInit, AtRest, NoCode
<1> QED
  BY <1>1, <1>2 DEF HandlersTyped

(* Every action leaves the rows and records in their shapes.               *)
LEMMA StepHandlers == HandlersTyped /\ [VerificationNext]_verificationVars => HandlersTyped'
<1> SUFFICES ASSUME HandlersTyped, [VerificationNext]_verificationVars PROVE HandlersTyped'
  OBVIOUS
<1> USE DEF HandlersTyped, VerificationTypeOK, AtRest, Respond
<1>1. CASE UNCHANGED verificationVars
  BY <1>1 DEF verificationVars
<1>2. CASE Expire
  <2>1. PICK c \in Live : code' = [code EXCEPT ![c].stale = TRUE]
    BY <1>2 DEF Expire
  <2>2. UNCHANGED <<status, mailed, handler, decided, decisions, decidedAcross, issuedTwice>>
    BY <1>2 DEF Expire
  <2>3. VerificationTypeOK'
    BY <2>1, <2>2, SMTT(30), ZenonT(30) DEF Live
  <2> QED
    BY <2>1, <2>2, <2>3 DEF Live
<1>3. ASSUME NEW r \in Calls, HandlerStep(r) PROVE HandlersTyped'
  <2>1. CASE Register(r)
    BY <2>1, SMTT(30), ZenonT(30) DEF Register
  <2>2. CASE CreateAccount(r)
    BY <2>2 DEF CreateAccount, Statuses
  <2>3. CASE ResendOtp(r)
    BY <2>3 DEF ResendOtp
  <2>4. CASE InvalidateCodes(r)
    BY <2>4, SMTT(30), ZenonT(30) DEF InvalidateCodes
  <2>5. CASE CreateCode(r)
    <3>1. PICK c \in Codes :
              /\ code' = [code EXCEPT ![c].state = "live"]
              /\ handler' = [handler EXCEPT ![r].stage = "mailing", ![r].code = c]
      BY <2>5 DEF CreateCode, Unissued
    <3>2. /\ handler[r].stage = "invalidated"
          /\ UNCHANGED <<status, mailed, decided, decisions, decidedAcross, issuedTwice>>
      BY <2>5 DEF CreateCode
    <3>5. handler' \in [Calls -> HandlerRow]
      <4>1. handler \in [Calls -> HandlerRow]
        BY DEF HandlerRow
      <4> QED
        BY <3>1, <4>1, HandlerTaken
    <3>3. VerificationTypeOK'
      BY <3>1, <3>2, <3>5 DEF HandlerRow
    <3> QED
      BY <3>1, <3>2, <3>3
  <2>6. CASE MailCode(r)
    BY <2>6 DEF MailCode
  <2>7. CASE ReadCode(r)
    <3>1. PICK c \in Codes :
              handler' = [handler EXCEPT ![r].stage = "checking", ![r].code = c]
      BY <2>7 DEF ReadCode, Live
    <3>2. UNCHANGED <<status, code, mailed, decided, decisions, decidedAcross, issuedTwice>>
      BY <2>7 DEF ReadCode
    <3>3. status # None
      BY <2>7 DEF ReadCode, Live
    <3>5. handler' \in [Calls -> HandlerRow]
      <4>1. handler \in [Calls -> HandlerRow]
        BY DEF HandlerRow
      <4> QED
        BY <3>1, <4>1, HandlerTaken
    <3>4. VerificationTypeOK'
      BY <3>1, <3>2, <3>5 DEF HandlerRow
    <3> QED
      BY <3>1, <3>2, <3>3, <3>4
  <2>8. CASE WrongCode(r)
    BY <2>8 DEF WrongCode
  <2>9. CASE RightCode(r)
    BY <2>9 DEF RightCode
  <2>10. CASE ReadUser(r)
    BY <2>10, SMTT(30), ZenonT(30) DEF ReadUser
  <2>11. CASE Activate(r)
    BY <2>11 DEF Activate, Statuses
  <2>12. CASE ReadStatus(r)
    <3>1. PICK to \in Statuses :
              handler' = [handler EXCEPT ![r].stage = "deciding", ![r].to = to]
      BY <2>12 DEF ReadStatus
    <3>2. /\ status # None /\ decisions' = decisions + 1
          /\ UNCHANGED <<status, code, mailed, decided, decidedAcross, issuedTwice>>
      BY <2>12 DEF ReadStatus
    <3>5. handler' \in [Calls -> HandlerRow]
      <4>1. handler \in [Calls -> HandlerRow]
        BY DEF HandlerRow
      <4> QED
        BY <3>1, <4>1, HandlerTaken
    <3>3. VerificationTypeOK'
      BY <3>1, <3>2, <3>5 DEF HandlerRow
    <3> QED
      BY <3>1, <3>2, <3>3
  <2>13. CASE Decide(r)
    BY <2>13 DEF Decide, Statuses
  <2> QED
    BY <1>3, <2>1, <2>2, <2>3, <2>4, <2>5, <2>6, <2>7, <2>8, <2>9, <2>10, <2>11, <2>12, <2>13
       DEF HandlerStep
<1> QED
  BY <1>1, <1>2, <1>3 DEF VerificationNext

-----------------------------------------------------------------------------
(* Whoever is about to guess at a code has had room for his guess when he  *)
(* read the counter.                                                       *)
RoomForGuesses ==
  \A c \in Codes :
    code[c].attempts + Cardinality(Checking(c)) < MaxAttempts + Cardinality(Calls)

LEMMA CheckingFinite ==
  ASSUME NEW c
  PROVE  /\ IsFiniteSet(Checking(c)) /\ Cardinality(Checking(c)) \in Nat
         /\ Cardinality(Checking(c)) <= Cardinality(Calls)
         /\ Cardinality(Calls) \in Nat
<1>1. Checking(c) \in SUBSET Calls
  BY DEF Checking
<1> QED
  BY <1>1, FS_Subset, FS_CardinalityType

(* A step that lets nobody begin to guess at c, nor counts a guess.        *)
LEMMA NoGuess ==
  ASSUME HandlersTyped, HandlersTyped', NEW c \in Codes,
         code[c].attempts + Cardinality(Checking(c)) < MaxAttempts + Cardinality(Calls),
         code'[c].attempts = code[c].attempts, Checking(c)' \subseteq Checking(c)
  PROVE  code'[c].attempts + Cardinality(Checking(c)') < MaxAttempts + Cardinality(Calls)
<1>1. code[c].attempts \in Nat
  BY DEF HandlersTyped, VerificationTypeOK
<1>2. /\ IsFiniteSet(Checking(c)') /\ Cardinality(Checking(c)') \in Nat
      /\ Cardinality(Checking(c)') <= Cardinality(Checking(c))
  BY CheckingFinite, FS_Subset, FS_CardinalityType
<1>3. Cardinality(Checking(c)) \in Nat /\ Cardinality(Calls) \in Nat
  BY CheckingFinite
<1> QED
  BY <1>1, <1>2, <1>3

LEMMA StepRoom ==
  HandlersTyped /\ HandlersTyped' /\ RoomForGuesses /\ [VerificationNext]_verificationVars =>
    RoomForGuesses'
<1> SUFFICES ASSUME HandlersTyped, HandlersTyped', RoomForGuesses,
                    [VerificationNext]_verificationVars,
                    NEW c \in Codes
             PROVE  code'[c].attempts + Cardinality(Checking(c)')
                      < MaxAttempts + Cardinality(Calls)
  BY DEF RoomForGuesses
<1>0. code[c].attempts + Cardinality(Checking(c)) < MaxAttempts + Cardinality(Calls)
  BY DEF RoomForGuesses
<1>1. CASE UNCHANGED verificationVars
  <2>1. code'[c].attempts = code[c].attempts /\ Checking(c)' \subseteq Checking(c)
    BY <1>1 DEF verificationVars, Checking
  <2> QED
    BY <1>0, <2>1, NoGuess
<1>2. CASE Expire
  <2>1. code'[c].attempts = code[c].attempts /\ Checking(c)' \subseteq Checking(c)
    BY <1>2 DEF Expire, Checking, Live, HandlersTyped, VerificationTypeOK
  <2> QED
    BY <1>0, <2>1, NoGuess
<1>3. ASSUME NEW r \in Calls, HandlerStep(r)
      PROVE  code'[c].attempts + Cardinality(Checking(c)') < MaxAttempts + Cardinality(Calls)
  <2>1. CASE ReadCode(r) /\ handler'[r].code = c
    <3>1. code' = code /\ code[c].attempts \in Nat /\ code[c].attempts < MaxAttempts
      BY <2>1 DEF ReadCode, HandlersTyped, VerificationTypeOK, Live
    <3>2. Checking(c)' \in SUBSET Calls
      BY DEF Checking
    <3>3. /\ Cardinality(Checking(c)') \in Nat /\ Cardinality(Calls) \in Nat
          /\ Cardinality(Checking(c)') <= Cardinality(Calls)
      BY <3>2, FS_Subset, FS_CardinalityType
    <3> QED
      BY <3>1, <3>3
  <2>2. CASE WrongCode(r) /\ handler[r].code = c
    <3>1. code'[c].attempts = code[c].attempts + 1 /\ code[c].attempts \in Nat
      BY <2>2 DEF WrongCode, HandlersTyped, VerificationTypeOK
    <3>2. r \in Checking(c) /\ Checking(c)' = Checking(c) \ {r}
      BY <2>2 DEF WrongCode, Respond, AtRest, Checking, HandlersTyped, VerificationTypeOK
    <3>3. Cardinality(Checking(c)') = Cardinality(Checking(c)) - 1
      BY <3>2, CheckingFinite, FS_RemoveElement, SMTT(30), ZenonT(30)
    <3> QED
      BY <1>0, <3>1, <3>3, CheckingFinite
  <2>3. CASE ~(ReadCode(r) /\ handler'[r].code = c) /\ ~(WrongCode(r) /\ handler[r].code = c)
    <3> USE DEF HandlersTyped, VerificationTypeOK
    <3>1. code'[c].attempts = code[c].attempts
      BY <1>3, <2>3, SMTT(30), ZenonT(30)
         DEF HandlerStep, Register, CreateAccount, ResendOtp, InvalidateCodes, CreateCode,
             MailCode, ReadCode, WrongCode, RightCode, ReadUser, Activate, ReadStatus, Decide,
             Live, Unissued
    <3>2. ASSUME NEW q \in Calls, handler'[q].stage = "checking", handler'[q].code = c
          PROVE  handler[q].stage = "checking" /\ handler[q].code = c
      <4>1. CASE ReadCode(r)
        BY <2>3, <3>2, <4>1 DEF ReadCode
      <4>2. CASE ~ReadCode(r)
        BY <1>3, <3>2, <4>2, SMTT(30), ZenonT(30)
           DEF HandlerStep, Register, CreateAccount, ResendOtp, InvalidateCodes, CreateCode,
               MailCode, WrongCode, RightCode, ReadUser, Activate, ReadStatus, Decide,
               Respond, AtRest
      <4> QED
        BY <4>1, <4>2
    <3>3. Checking(c)' \subseteq Checking(c)
      BY <3>2 DEF Checking
    <3> QED
      BY <1>0, <3>1, <3>3, NoGuess
  <2> QED
    BY <2>1, <2>2, <2>3
<1> QED
  BY <1>1, <1>2, <1>3 DEF VerificationNext

-----------------------------------------------------------------------------
(* While an issue is between its two commits no code is live, and no other *)
(* issue is there, or two have run side by side.                           *)
IssuesAlone ==
  \/ issuedTwice
  \/ /\ \A c, d \in Live : c = d
     /\ \A r \in Calls : handler[r].stage = "invalidated" =>
          /\ Live = {}
          /\ \A q \in Calls : handler[q].stage = "invalidated" => q = r

LEMMA StepAlone ==
  HandlersTyped /\ IssuesAlone /\ [VerificationNext]_verificationVars => IssuesAlone'
<1> SUFFICES ASSUME HandlersTyped, IssuesAlone, [VerificationNext]_verificationVars,
                    ~issuedTwice, ~issuedTwice'
             PROVE  IssuesAlone'
  <2>1. [VerificationNext]_verificationVars /\ issuedTwice => issuedTwice'
    BY DEF VerificationNext, HandlerStep, verificationVars, Expire, Register, CreateAccount,
           ResendOtp, InvalidateCodes, CreateCode, MailCode, ReadCode, WrongCode, RightCode,
           ReadUser, Activate, ReadStatus, Decide
  <2> QED
    BY <2>1 DEF IssuesAlone
<1> USE DEF HandlersTyped, VerificationTypeOK, IssuesAlone, Live, AtRest, Respond
<1>1. CASE UNCHANGED verificationVars
  BY <1>1 DEF verificationVars
<1>2. CASE Expire
  BY <1>2 DEF Expire
<1>3. ASSUME NEW r \in Calls, HandlerStep(r) PROVE IssuesAlone'
  <2>1. CASE InvalidateCodes(r)
    <3>1. Live' = {}
      BY <2>1 DEF InvalidateCodes
    <3>2. \A q \in Calls : handler'[q].stage = "invalidated" => q = r
      BY <2>1 DEF InvalidateCodes
    <3> QED
      BY <3>1, <3>2
  <2>2. CASE CreateCode(r)
    <3>1. Live = {} /\ \A q \in Calls : handler'[q].stage # "invalidated"
      BY <2>2 DEF CreateCode
    <3>2. \E c \in Codes : Live' = {c}
      BY <2>2, <3>1 DEF CreateCode, Unissued
    <3> QED
      BY <3>1, <3>2
  <2>3. CASE WrongCode(r) \/ RightCode(r)
    <3>1. /\ Live' \subseteq Live
          /\ \A q \in Calls : handler'[q].stage = "invalidated" => handler[q].stage = "invalidated"
      BY <2>3, SMTT(30), ZenonT(30) DEF WrongCode, RightCode
    <3> QED
      BY <3>1
  <2>4. CASE ~InvalidateCodes(r) /\ ~CreateCode(r) /\ ~WrongCode(r) /\ ~RightCode(r)
    <3>1. Live' = Live
      BY <1>3, <2>4
         DEF HandlerStep, Register, CreateAccount, ResendOtp, MailCode, ReadCode, ReadUser,
             Activate, ReadStatus, Decide
    <3>2. \A q \in Calls : handler'[q].stage = "invalidated" => handler[q].stage = "invalidated"
      BY <1>3, <2>4
         DEF HandlerStep, Register, CreateAccount, ResendOtp, MailCode, ReadCode, ReadUser,
             Activate, ReadStatus, Decide
    <3> QED
      BY <3>1, <3>2
  <2> QED
    BY <2>1, <2>2, <2>3, <2>4
<1> QED
  BY <1>1, <1>2, <1>3 DEF VerificationNext

-----------------------------------------------------------------------------
Ruled == decided \notin {None, "PENDING_VERIFICATION"}

(* A status an administrator gave is in the row, and a verification that   *)
(* is about to write has read it there.                                    *)
DecisionHeld ==
  \/ decidedAcross
  \/ Ruled => /\ status = decided
              /\ \A r \in Calls : handler[r].stage = "activating" => handler[r].saw = decided

LEMMA StepHeld ==
  HandlersTyped /\ DecisionHeld /\ [VerificationNext]_verificationVars => DecisionHeld'
<1> SUFFICES ASSUME HandlersTyped, DecisionHeld, [VerificationNext]_verificationVars,
                    ~decidedAcross, ~decidedAcross', Ruled'
             PROVE  DecisionHeld'
  <2>1. [VerificationNext]_verificationVars /\ decidedAcross => decidedAcross'
    BY DEF VerificationNext, HandlerStep, verificationVars, Expire, Register, CreateAccount,
           ResendOtp, InvalidateCodes, CreateCode, MailCode, ReadCode, WrongCode, RightCode,
           ReadUser, Activate, ReadStatus, Decide
  <2> QED
    BY <2>1 DEF DecisionHeld
<1> USE DEF HandlersTyped, VerificationTypeOK, DecisionHeld, Ruled, AtRest, Respond
<1>1. CASE UNCHANGED verificationVars
  BY <1>1 DEF verificationVars
<1>2. CASE Expire
  BY <1>2 DEF Expire
<1>3. ASSUME NEW r \in Calls, HandlerStep(r) PROVE DecisionHeld'
  <2>1. CASE Decide(r)
    BY <2>1 DEF Decide
  <2>2. CASE Activate(r)
    BY <2>2 DEF Activate
  <2>3. CASE ReadUser(r)
    BY <2>3 DEF ReadUser
  <2>4. CASE CreateAccount(r)
    BY <2>4 DEF CreateAccount
  <2>5. CASE ~Decide(r) /\ ~Activate(r) /\ ~ReadUser(r) /\ ~CreateAccount(r)
    <3>1. status' = status /\ decided' = decided
      BY <1>3, <2>5
         DEF HandlerStep, Register, ResendOtp, InvalidateCodes, CreateCode, MailCode, ReadCode,
             WrongCode, RightCode, ReadStatus
    <3>2. \A q \in Calls : handler'[q].stage = "activating" => handler'[q] = handler[q]
      BY <1>3, <2>5
         DEF HandlerStep, Register, ResendOtp, InvalidateCodes, CreateCode, MailCode, ReadCode,
             WrongCode, RightCode, ReadStatus
    <3> QED
      BY <3>1, <3>2
  <2> QED
    BY <2>1, <2>2, <2>3, <2>4, <2>5
<1> QED
  BY <1>1, <1>2, <1>3 DEF VerificationNext

-----------------------------------------------------------------------------
VInv == HandlersTyped /\ RoomForGuesses /\ IssuesAlone /\ DecisionHeld

LEMMA VerificationStart == VerificationInit => VInv
<1> SUFFICES ASSUME VerificationInit PROVE VInv
  OBVIOUS
<1>1. HandlersTyped
  BY HandlersStart
<1>2. ASSUME NEW c \in Codes
      PROVE  code[c].attempts + Cardinality(Checking(c)) < MaxAttempts + Cardinality(Calls)
  <2>1. Checking(c) = {} /\ code[c].attempts = 0
    BY DEF VerificationInit, Checking, AtRest, NoCode
  <2> QED
    BY <2>1, FS_EmptySet, CheckingFinite
<1>3. Live = {}
  BY DEF VerificationInit, Live, NoCode
<1> QED
  BY <1>1, <1>2, <1>3
     DEF VInv, RoomForGuesses, IssuesAlone, DecisionHeld, Ruled, VerificationInit, AtRest

LEMMA VInvHolds == VerificationSpec => []VInv
<1>1. VInv /\ [VerificationNext]_verificationVars => VInv'
  BY StepHandlers, StepRoom, StepAlone, StepHeld DEF VInv
<1> QED
  BY VerificationStart, <1>1, PTL DEF VerificationSpec

(* A code is guessed at MaxAttempts times and once more by each request    *)
(* but one that was at work meanwhile, and only the newest code is found,  *)
(* whatever the number of requests (OtpService.issue, OtpService.verify).  *)
THEOREM GuessesBounded == VerificationSpec => []CodesSound
<1>1. VInv => CodesSound
  <2> SUFFICES ASSUME VInv PROVE CodesSound
    OBVIOUS
  <2>1. ASSUME NEW c \in Codes PROVE code[c].attempts < MaxAttempts + Cardinality(Calls)
    <3>1. code[c].attempts \in Nat
      BY DEF VInv, HandlersTyped, VerificationTypeOK
    <3>2. code[c].attempts + Cardinality(Checking(c)) < MaxAttempts + Cardinality(Calls)
      BY DEF VInv, RoomForGuesses
    <3> QED
      BY <3>1, <3>2, CheckingFinite
  <2> QED
    BY <2>1 DEF VInv, CodesSound, AttemptsBounded, OneCodeLive, IssuesAlone
<1> QED
  BY <1>1, VInvHolds, PTL

(* A suspension, a block or a closure outlasts every verification that     *)
(* does not straddle it (AuthService.verifyOtp, updateStatus).             *)
THEOREM DecisionsStand == VerificationSpec => []StatusDecided
<1>1. VInv => StatusDecided
  BY DEF VInv, DecisionHeld, Ruled, StatusDecided
<1> QED
  BY <1>1, VInvHolds, PTL

HIDE VerificationAssumption

-----------------------------------------------------------------------------
(* Credentials.                                                            *)

USE CredentialsAssumption

TabRow == [stage : TwoFactorStages \cup {"idle", "settingPin", "changingPin", "resetting"},
            with : Links \cup {None}, shown : Secrets \cup {None}, seen : BOOLEAN]

(* Two factors are on, or about to be, only with a secret that is proven.  *)
Proved ==
  \/ tabsCrossed
  \/ /\ enabled => secret \in proven
     /\ \A t \in Tabs : tab[t].stage = "confirming" => secret \in proven

(* Before the first PIN is set nobody changes it, and only one sets it.    *)
PinOnce ==
  \/ doneTwice
  \/ /\ pinSets <= 1 /\ (pin = 0 => pinSets = 0)
     /\ \A t \in Tabs : tab[t].stage = "changingPin" => pin # 0
     /\ \A t \in Tabs : tab[t].stage = "settingPin" =>
          /\ pin = 0 /\ \A u \in Tabs : tab[u].stage = "settingPin" => u = t

(* A link that is out has reset nothing, and only one tab resets by it.    *)
LinkOnce ==
  /\ \A t \in Tabs : tab[t].stage = "resetting" => tab[t].with \in Links
  /\ \/ doneTwice
     \/ \A l \in Links :
          /\ uses[l] <= 1 /\ (link[l] # "used" => uses[l] = 0)
          /\ \A t \in Tabs : tab[t].stage = "resetting" /\ tab[t].with = l =>
               /\ link[l] = "out"
               /\ \A u \in Tabs : tab[u].stage = "resetting" /\ tab[u].with = l => u = t

CInv == CredentialsTypeOK /\ Proved /\ PinOnce /\ LinkOnce

LEMMA CredentialsStart == CredentialsInit => CInv
<1> SUFFICES ASSUME CredentialsInit PROVE CInv
  OBVIOUS
<1> USE DEF CredentialsInit, Fresh
<1>1. CredentialsTypeOK
  <2>1. Fresh \in TabRow
    BY DEF Fresh, TabRow
  <2>2. secret = None /\ enabled = FALSE /\ generated \in 0..MaxSecrets /\ proven = {}
        /\ pins \in 0..MaxPins /\ pin = pins /\ pinSets \in 0..pins
    OBVIOUS
  <2>3. link \in [Links -> {"none", "out", "used"}] /\ uses \in [Links -> Nat]
    OBVIOUS
  <2>4. tab \in [Tabs -> TabRow] /\ tabsCrossed = FALSE /\ doneTwice = FALSE
    BY <2>1
  <2> HIDE DEF CredentialsInit
  <2> QED
    BY <2>2, <2>3, <2>4 DEF CredentialsTypeOK, TabRow
<1>2. Proved /\ PinOnce /\ LinkOnce
  BY DEF Proved, PinOnce, LinkOnce
<1> QED
  BY <1>1, <1>2 DEF CInv

-----------------------------------------------------------------------------
(* The calls of the security page, by the panel they come from.            *)
TwoFactorStep(t) ==
  \/ SetupTwoFactor(t) \/ CheckSetupCode(t) \/ EnableTwoFactor(t) \/ CheckDisableCode(t)
  \/ DisableTwoFactor(t) \/ Reload(t)
PinStep(t) == ReadNoPin(t) \/ CheckPin(t) \/ SavePin(t)
LinkStep(t) == MatchLink(t) \/ UseLink(t)

LEMMA StepTabs ==
  ASSUME CInv, CredentialsNext
  PROVE  CredentialsTypeOK'
<1> USE DEF CInv, CredentialsTypeOK, TwoFactorStages, Fresh, Back, Secrets, Links
<1>1. ASSUME NEW t \in Tabs, TwoFactorStep(t) PROVE CredentialsTypeOK'
  <2>1. CASE SetupTwoFactor(t)
    <3>1. generated' \in 0..MaxSecrets /\ generated + 1 \in Secrets /\ secret' = generated + 1
      BY <2>1 DEF SetupTwoFactor
    <3>2. tab' \in [Tabs -> TabRow]
      <4>1. /\ tab \in [Tabs -> TabRow]
            /\ [tab[t] EXCEPT !.shown = generated + 1] \in TabRow
        BY <3>1 DEF TabRow
      <4>2. tab' \in {tab, [tab EXCEPT ![t] = [tab[t] EXCEPT !.shown = generated + 1]]}
        BY <2>1 DEF SetupTwoFactor
      <4> QED
        BY <4>1, <4>2
    <3>3. tabsCrossed' \in BOOLEAN
      BY <2>1 DEF SetupTwoFactor, Busy
    <3> QED
      BY <2>1, <3>1, <3>2, <3>3 DEF SetupTwoFactor, TabRow
  <2>2. CASE CheckSetupCode(t)
    <3>1. tab' \in [Tabs -> TabRow]
      BY <2>2, SMTT(30), ZenonT(30) DEF CheckSetupCode, TabRow
    <3>2. proven' \subseteq Secrets
      BY <2>2 DEF CheckSetupCode
    <3> QED
      BY <2>2, <3>1, <3>2 DEF CheckSetupCode, TabRow
  <2>3. CASE EnableTwoFactor(t)
    BY <2>3 DEF EnableTwoFactor
  <2>4. CASE CheckDisableCode(t)
    BY <2>4, SMTT(30), ZenonT(30) DEF CheckDisableCode
  <2>5. CASE DisableTwoFactor(t)
    BY <2>5 DEF DisableTwoFactor
  <2>6. CASE Reload(t)
    BY <2>6 DEF Reload
  <2> QED
    BY <1>1, <2>1, <2>2, <2>3, <2>4, <2>5, <2>6 DEF TwoFactorStep
<1>2. ASSUME NEW t \in Tabs, PinStep(t) PROVE CredentialsTypeOK'
  <2>1. CASE ReadNoPin(t)
    BY <2>1, SMTT(30), ZenonT(30) DEF ReadNoPin
  <2>2. CASE CheckPin(t)
    BY <2>2, SMTT(30), ZenonT(30) DEF CheckPin
  <2>3. CASE SavePin(t)
    <3>1. pins' \in 0..MaxPins /\ pin' \in 0..MaxPins /\ pinSets' \in 0..pins'
      BY <2>3 DEF SavePin
    <3>2. tab' \in [Tabs -> TabRow]
      <4>1. tab \in [Tabs -> TabRow] /\ [tab[t] EXCEPT !.stage = "idle", !.with = None] \in TabRow
        BY DEF TabRow
      <4>2. tab' = [tab EXCEPT ![t] = [tab[t] EXCEPT !.stage = "idle", !.with = None]]
        BY <2>3 DEF SavePin
      <4> QED
        BY <4>1, <4>2
    <3>3. UNCHANGED <<secret, enabled, generated, proven, link, uses, tabsCrossed, doneTwice>>
      BY <2>3 DEF SavePin
    <3> QED
      BY <3>1, <3>2, <3>3 DEF TabRow
  <2> QED
    BY <1>2, <2>1, <2>2, <2>3 DEF PinStep
<1>3. ASSUME NEW t \in Tabs, LinkStep(t) PROVE CredentialsTypeOK'
  <2>1. CASE MatchLink(t)
    <3>1. PICK l \in Links : tab' = [tab EXCEPT ![t].stage = "resetting", ![t].with = l]
      BY <2>1 DEF MatchLink
    <3>2. UNCHANGED <<secret, enabled, generated, proven, pin, pins, pinSets, link, uses,
                      tabsCrossed>> /\ doneTwice' \in BOOLEAN
      BY <2>1 DEF MatchLink
    <3>3. [tab[t] EXCEPT !.stage = "resetting", !.with = l] \in
            [stage : TwoFactorStages \cup {"idle", "settingPin", "changingPin", "resetting"},
             with : Links \cup {None}, shown : Secrets \cup {None}, seen : BOOLEAN]
      BY SMTT(30), ZenonT(30)
    <3> QED
      BY <3>1, <3>2, <3>3
  <2>2. CASE UseLink(t)
    BY <2>2 DEF UseLink, LinkOnce
  <2> QED
    BY <1>3, <2>1, <2>2 DEF LinkStep
<1>4. ASSUME ForgotPassword PROVE CredentialsTypeOK'
  BY <1>4 DEF ForgotPassword
<1> QED
  BY <1>1, <1>2, <1>3, <1>4 DEF CredentialsNext, TabStep, TwoFactorStep, PinStep, LinkStep

(* What every call leaves of the other tabs.                               *)
LEMMA OthersKept ==
  ASSUME CInv, NEW t \in Tabs, TabStep(t), NEW u \in Tabs, u # t
  PROVE  tab'[u] = tab[u]
BY DEF CInv, CredentialsTypeOK, TabStep, SetupTwoFactor, CheckSetupCode, EnableTwoFactor,
       CheckDisableCode, DisableTwoFactor, Reload, ReadNoPin, CheckPin, SavePin, MatchLink, UseLink,
       Back

LEMMA StepProved == ASSUME CInv, CredentialsNext PROVE Proved'
<1>0. CASE tabsCrossed'
  BY <1>0 DEF Proved
<1>1. CASE ~tabsCrossed'
  <2>1. ASSUME NEW t \in Tabs, TabStep(t), ~(PinStep(t) \/ LinkStep(t)) PROVE Proved'
    <3> USE DEF CInv, CredentialsTypeOK, Proved, Busy, TwoFactorStages, Fresh
    <3>1. CASE SetupTwoFactor(t)
      <4>1. ~enabled /\ \A u \in Tabs : u # t => tab[u].stage # "confirming"
        BY <1>1, <3>1 DEF SetupTwoFactor
      <4>2. enabled' = enabled /\ tab'[t].stage # "confirming"
        BY <3>1 DEF SetupTwoFactor, Free
      <4> QED
        BY <2>1, <4>1, <4>2, OthersKept
    <3>2. CASE CheckSetupCode(t)
      BY <1>1, <3>2 DEF CheckSetupCode
    <3>3. CASE EnableTwoFactor(t)
      BY <1>1, <3>3 DEF EnableTwoFactor
    <3>4. CASE CheckDisableCode(t)
      BY <1>1, <3>4 DEF CheckDisableCode
    <3>5. CASE DisableTwoFactor(t)
      BY <1>1, <2>1, <3>5, OthersKept DEF DisableTwoFactor
    <3>6. CASE Reload(t)
      BY <1>1, <3>6 DEF Reload
    <3> QED
      BY <2>1, <3>1, <3>2, <3>3, <3>4, <3>5, <3>6 DEF TabStep, PinStep, LinkStep
  <2>2. ASSUME NEW t \in Tabs, PinStep(t) \/ LinkStep(t) PROVE Proved'
    <3>1. /\ UNCHANGED <<secret, enabled, proven, tabsCrossed>>
          /\ \A u \in Tabs : tab'[u].stage = "confirming" => tab[u].stage = "confirming"
      BY <2>2 DEF PinStep, LinkStep, ReadNoPin, CheckPin, SavePin, MatchLink, UseLink, Back, CInv,
                  CredentialsTypeOK
    <3> QED
      BY <3>1 DEF CInv, Proved
  <2>3. ASSUME ForgotPassword PROVE Proved'
    BY <2>3 DEF ForgotPassword, CInv, Proved
  <2> QED
    BY <2>1, <2>2, <2>3 DEF CredentialsNext
<1> QED
  BY <1>0, <1>1

LEMMA StepPin == ASSUME CInv, CredentialsNext PROVE PinOnce'
<1>0. CASE doneTwice'
  BY <1>0 DEF PinOnce
<1>1. CASE ~doneTwice'
  <2>1. ASSUME NEW t \in Tabs, PinStep(t) PROVE PinOnce'
    <3> USE DEF CInv, CredentialsTypeOK, PinOnce, Back
    <3>1. CASE ReadNoPin(t)
      BY <1>1, <3>1 DEF ReadNoPin, Busy
    <3>2. CASE CheckPin(t)
      BY <1>1, <3>2 DEF CheckPin
    <3>3. CASE SavePin(t)
      BY <1>1, <3>3 DEF SavePin
    <3> QED
      BY <2>1, <3>1, <3>2, <3>3 DEF PinStep
  <2>2. ASSUME NEW t \in Tabs, TwoFactorStep(t) \/ LinkStep(t) PROVE PinOnce'
    <3>1. /\ UNCHANGED <<pin, pins, pinSets>> /\ ~doneTwice
          /\ \A u \in Tabs : tab'[u].stage \in {"settingPin", "changingPin"} =>
                               tab[u].stage = tab'[u].stage
      BY <1>1, <2>2
         DEF TwoFactorStep, LinkStep, SetupTwoFactor, CheckSetupCode, EnableTwoFactor,
             CheckDisableCode, DisableTwoFactor, Reload, MatchLink, UseLink, Back, Fresh, CInv,
             CredentialsTypeOK
    <3> QED
      BY <3>1 DEF CInv, PinOnce
  <2>3. ASSUME ForgotPassword PROVE PinOnce'
    BY <2>3 DEF ForgotPassword, CInv, PinOnce
  <2> QED
    BY <2>1, <2>2, <2>3 DEF CredentialsNext, TabStep, TwoFactorStep, PinStep, LinkStep
<1> QED
  BY <1>0, <1>1

LEMMA StepLink == ASSUME CInv, CredentialsNext PROVE LinkOnce'
<1> USE DEF LinkOnce, CredentialsTypeOK, CInv, Back
<1>1. ASSUME NEW t \in Tabs, MatchLink(t) PROVE LinkOnce'
  <2>1. PICK l \in Links :
          /\ link[l] = "out"
          /\ tab' = [tab EXCEPT ![t].stage = "resetting", ![t].with = l]
          /\ doneTwice' = (doneTwice \/ \E u \in Tabs :
                                       tab[u].stage = "resetting" /\ tab[u].with = l)
    BY <1>1 DEF MatchLink
  <2>2. UNCHANGED <<link, uses>>
    BY <1>1 DEF MatchLink
  <2>3. /\ tab'[t].stage = "resetting" /\ tab'[t].with = l
        /\ \A u \in Tabs : u # t => tab'[u] = tab[u]
    BY <2>1
  <2>4. CASE doneTwice'
    BY <2>3, <2>4
  <2>5. CASE ~doneTwice'
    <3>1. ~doneTwice /\ \A u \in Tabs : ~(tab[u].stage = "resetting" /\ tab[u].with = l)
      BY <2>1, <2>5
    <3> QED
      BY <2>1, <2>2, <2>3, <3>1
  <2> QED
    BY <2>4, <2>5
<1>2. ASSUME NEW t \in Tabs, UseLink(t) PROVE LinkOnce'
  BY <1>2 DEF UseLink
<1>3. ASSUME NEW t \in Tabs, TwoFactorStep(t) \/ PinStep(t) PROVE LinkOnce'
  <2>1. UNCHANGED <<link, uses>> /\ (doneTwice => doneTwice')
    BY <1>3 DEF TwoFactorStep, PinStep, SetupTwoFactor, CheckSetupCode, EnableTwoFactor,
                CheckDisableCode, DisableTwoFactor, Reload, ReadNoPin, CheckPin, SavePin
  <2>2. tab'[t].stage # "resetting" \/ tab' = tab
    BY <1>3 DEF TwoFactorStep, PinStep, SetupTwoFactor, CheckSetupCode, EnableTwoFactor, Free,
                CheckDisableCode, DisableTwoFactor, Reload, ReadNoPin, CheckPin, SavePin, Fresh
  <2>3. \A u \in Tabs : u # t => tab'[u] = tab[u]
    BY <1>3, OthersKept DEF TwoFactorStep, PinStep, TabStep
  <2> QED
    BY <2>1, <2>2, <2>3
<1>4. ASSUME ForgotPassword PROVE LinkOnce'
  BY <1>4 DEF ForgotPassword
<1> QED
  BY <1>1, <1>2, <1>3, <1>4 DEF CredentialsNext, TabStep, TwoFactorStep, PinStep, LinkStep

LEMMA CInvHolds == CredentialsSpec => []CInv
<1>1. CInv /\ CredentialsNext => CInv'
  BY StepTabs, StepProved, StepPin, StepLink DEF CInv
<1>2. CInv /\ UNCHANGED credentialVars => CInv'
  BY DEF credentialVars, CInv, CredentialsTypeOK, Proved, PinOnce, LinkOnce
<1> QED
  BY CredentialsStart, <1>1, <1>2, PTL DEF CredentialsSpec

(* No interleaving of the calls of any number of tabs turns two factors on *)
(* with a secret the user has not proven, sets a PIN over another, or uses *)
(* a reset link twice, but for calls that cross (AuthService).             *)
THEOREM CredentialsKept == CredentialsSpec => []CredentialsSound
<1>1. CInv => CredentialsSound
  BY DEF CInv, CredentialsTypeOK, Proved, PinOnce, LinkOnce, CredentialsSound, TwoFactorProven,
         OnceOnly, Secrets
<1> QED
  BY <1>1, CInvHolds, PTL

HIDE CredentialsAssumption

-----------------------------------------------------------------------------
(* Kyc.                                                                    *)

USE KycAssumption

SubRow == [status : Open \cup Closed \cup {"none"}, tier : Tiers, flagged : BOOLEAN,
           docs : SUBSET Papers, auto : BOOLEAN]
DeskRow == [stage : Writing \cup {"idle", "submitting", "creating", "uploading", "removing"},
            sub : Submissions \cup {None}, tier : 0..3,
            what : Papers \cup {None, "review", "approve", "APPROVE", "REJECT", "REQUEST_INFO"}]

(* A handler that has read a submission has one that was made.  One that   *)
(* is to write what it decided has it open still, or another handler       *)
(* crossed it; one that is to approve after the screening knows of no flag *)
(* and of every required document.                                         *)
ReadsHold(r) ==
  LET d == desk[r]
  IN  /\ d.stage \in Writing \cup {"uploading", "removing"} =>
           d.sub \in Submissions /\ sub[d.sub].status # "none"
      /\ d.stage \in {"uploading", "removing"} => d.what \in Papers
      /\ d.stage \in {"submitting", "creating"} => d.tier \in Tiers
      /\ d.stage \in Writing => IsOpen(d.sub) \/ d.sub \in crossed
      /\ d.stage = "finalizing" /\ d.what = "approve" /\ d.sub \notin crossed =>
           ~sub[d.sub].flagged /\ Required(sub[d.sub].tier) \subseteq sub[d.sub].docs

Tidy == ~submittedTwice /\ crossed = {}

(* As long as nothing was submitted twice and nothing crossed, the one     *)
(* submission that may be open is for the tier that is due, and whoever    *)
(* is to make one for that tier has seen that none is.                     *)
Orderly ==
  Tidy =>
    /\ \A s \in Submissions :
         IsOpen(s) => sub[s].tier = tier + 1 /\ \A q \in Submissions : IsOpen(q) => q = s
    /\ \A r \in Calls :
         /\ desk[r].stage \in {"submitting", "creating"} => desk[r].tier <= tier + 1
         /\ desk[r].stage = "creating" /\ desk[r].tier = tier + 1 =>
              \A s \in Submissions : ~IsOpen(s)

KInv == KycTypeOK /\ (\A r \in Calls : ReadsHold(r)) /\ Orderly /\ TiersEarned

LEMMA KycShapes ==
  ASSUME KInv
  PROVE  /\ tier \in 0..3 /\ sub \in [Submissions -> SubRow] /\ desk \in [Calls -> DeskRow]
         /\ withdrawals \in Nat /\ crossed \subseteq Submissions /\ submittedTwice \in BOOLEAN
BY DEF KInv, KycTypeOK, SubRow, DeskRow

LEMMA KycStart == KycInit => KInv
<1> SUFFICES ASSUME KycInit PROVE KInv
  OBVIOUS
<1>1. /\ NoSubmission \in SubRow /\ NoSubmission.status = "none"
      /\ NoCall \in DeskRow /\ NoCall.stage = "idle"
  BY DEF NoSubmission, SubRow, Tiers, NoCall, DeskRow
<1>2. /\ tier = 0 /\ crossed = {} /\ submittedTwice = FALSE /\ withdrawals = 0
      /\ \A s \in Submissions : sub[s] = NoSubmission
      /\ \A r \in Calls : desk[r] = NoCall
  BY DEF KycInit
<1>3. KycTypeOK
  <2>1. sub \in [Submissions -> SubRow] /\ desk \in [Calls -> DeskRow]
    BY <1>1 DEF KycInit
  <2>2. tier \in 0..3 /\ withdrawals \in Nat /\ crossed \subseteq Submissions
    BY <1>2
  <2>3. submittedTwice \in BOOLEAN
    BY <1>2, Zenon
  <2> QED
    BY <2>1, <2>2, <2>3 DEF KycTypeOK, SubRow, DeskRow
<1>4. \A r \in Calls : ReadsHold(r)
  BY <1>1, <1>2 DEF ReadsHold, Writing
<1>5. Orderly
  BY <1>1, <1>2 DEF Orderly, IsOpen, Open
<1>6. TiersEarned
  BY <1>1, <1>2 DEF TiersEarned, TierTrue, ApprovalEarned, Approved
<1> QED
  BY <1>3, <1>4, <1>5, <1>6 DEF KInv

(* A handler takes a record: what it has read, or nothing at its end.      *)
LEMMA DeskTaken ==
  ASSUME KInv, NEW r \in Calls, NEW new \in DeskRow, desk' = [desk EXCEPT ![r] = new],
         UNCHANGED <<tier, sub, crossed, submittedTwice>>, withdrawals' \in Nat,
         new.stage \in Writing \cup {"uploading", "removing"} =>
           new.sub \in Submissions /\ IsOpen(new.sub),
         new.stage \in {"uploading", "removing"} => new.what \in Papers,
         new.stage \in {"submitting", "creating"} => new.tier \in Tiers,
         new.stage = "finalizing" /\ new.what = "approve" =>
           ~sub[new.sub].flagged /\ Required(sub[new.sub].tier) \subseteq sub[new.sub].docs,
         Tidy /\ new.stage \in {"submitting", "creating"} => new.tier <= tier + 1,
         Tidy /\ new.stage = "creating" /\ new.tier = tier + 1 =>
           \A s \in Submissions : ~IsOpen(s)
  PROVE  KInv'
<1>1. desk \in [Calls -> DeskRow]
  BY KycShapes
<1>2. desk' \in [Calls -> DeskRow] /\ desk'[r] = new /\ \A q \in Calls \ {r} : desk'[q] = desk[q]
  BY <1>1
<1>3. KycTypeOK'
  BY <1>2 DEF KInv, KycTypeOK, DeskRow
<1>4. ASSUME NEW q \in Calls PROVE ReadsHold(q)'
  <2>1. CASE q = r
    BY <1>2, <2>1 DEF ReadsHold, IsOpen, Open
  <2>2. CASE q # r
    BY <1>2, <2>2 DEF KInv, ReadsHold, IsOpen
  <2> QED
    BY <2>1, <2>2
<1>5. Orderly'
  BY <1>2 DEF KInv, Orderly, Tidy, IsOpen
<1>6. TiersEarned'
  BY DEF KInv, TiersEarned, TierTrue, ApprovalEarned, Approved
<1> QED
  BY <1>3, <1>4, <1>5, <1>6 DEF KInv

LEMMA CheckStep ==
  ASSUME KInv, NEW r \in Calls, CheckTier(r) \/ CheckNoneOpen(r)
  PROVE  KInv'
<1>1. desk[r] \in DeskRow /\ tier \in 0..3
  BY KycShapes
<1>2. CASE CheckTier(r)
  <2> DEFINE new == [desk[r] EXCEPT !.stage = "submitting", !.tier = tier + 1]
  <2>1. tier < 3 /\ desk' = [desk EXCEPT ![r] = new]
        /\ UNCHANGED <<tier, sub, withdrawals, crossed, submittedTwice>>
    BY <1>2 DEF CheckTier
  <2>2. tier + 1 \in 0..3 /\ tier + 1 \in Tiers /\ tier + 1 <= tier + 1
    BY <1>1, <2>1 DEF Tiers
  <2>3. new \in DeskRow /\ new.stage = "submitting" /\ new.tier = tier + 1
    BY <1>1, <2>2 DEF DeskRow
  <2> HIDE DEF new
  <2>4. withdrawals' \in Nat
    BY <2>1, KycShapes
  <2>5. new.stage \notin Writing \cup {"uploading", "removing"}
        /\ new.stage # "finalizing" /\ new.stage # "creating"
    BY <2>3 DEF Writing
  <2> QED
    BY <2>1, <2>2, <2>3, <2>4, <2>5, DeskTaken
<1>3. CASE CheckNoneOpen(r)
  <2>1. /\ desk[r].stage = "submitting" /\ desk[r].tier \in Tiers
        /\ UNCHANGED <<tier, sub, withdrawals, crossed, submittedTwice>> /\ withdrawals' \in Nat
        /\ Tidy => desk[r].tier <= tier + 1
    BY <1>3, KycShapes DEF CheckNoneOpen, KInv, ReadsHold, Orderly
  <2>2. CASE \E s \in Submissions : IsOpen(s) /\ sub[s].tier = desk[r].tier
    <3>1. NoCall \in DeskRow /\ NoCall.stage = "idle" /\ desk' = [desk EXCEPT ![r] = NoCall]
      BY <1>3, <2>2 DEF CheckNoneOpen, End, NoCall, DeskRow
    <3>2. NoCall.stage \notin Writing \cup {"uploading", "removing", "submitting", "creating"}
          /\ NoCall.stage # "finalizing"
      BY <3>1 DEF Writing
    <3> QED
      BY <2>1, <3>1, <3>2, DeskTaken
  <2>3. CASE ~\E s \in Submissions : IsOpen(s) /\ sub[s].tier = desk[r].tier
    <3> DEFINE new == [desk[r] EXCEPT !.stage = "creating"]
    <3>1. desk' = [desk EXCEPT ![r] = new]
      BY <1>3, <2>3 DEF CheckNoneOpen
    <3>2. new \in DeskRow /\ new.stage = "creating" /\ new.tier = desk[r].tier
      BY <1>1 DEF DeskRow
    <3>3. Tidy /\ desk[r].tier = tier + 1 => \A s \in Submissions : ~IsOpen(s)
      BY <2>3 DEF KInv, Orderly
    <3> HIDE DEF new
    <3>4. new.stage \notin Writing \cup {"uploading", "removing"} /\ new.stage # "finalizing"
      BY <3>2 DEF Writing
    <3> QED
      BY <2>1, <3>1, <3>2, <3>3, <3>4, DeskTaken
  <2> QED
    BY <2>2, <2>3
<1> QED
  BY <1>2, <1>3

LEMMA ReadStep ==
  ASSUME KInv, NEW r \in Calls,
         ReadForUpload(r) \/ ReadForRemoval(r) \/ ReadForFinalize(r) \/ ReadForReview(r)
  PROVE  KInv'
<1>1. desk[r] \in DeskRow /\ \A s \in Submissions : sub[s] \in SubRow
  BY KycShapes
<1>2. UNCHANGED <<tier, sub, crossed, submittedTwice>> /\ withdrawals' \in Nat
  <2>1. withdrawals \in Nat
    BY KycShapes
  <2>2. withdrawals' = withdrawals \/ withdrawals' = withdrawals + 1
    BY DEF ReadForUpload, ReadForRemoval, ReadForFinalize, ReadForReview
  <2>3. UNCHANGED <<tier, sub, crossed, submittedTwice>>
    BY DEF ReadForUpload, ReadForRemoval, ReadForFinalize, ReadForReview
  <2> QED
    BY <2>1, <2>2, <2>3
<1>3. PICK s \in Submissions, st \in Writing \cup {"uploading", "removing"},
           w \in Papers \cup {"review", "approve", "APPROVE", "REJECT", "REQUEST_INFO"} :
        /\ IsOpen(s)
        /\ st \in {"uploading", "removing"} => w \in Papers
        /\ st = "finalizing" /\ w = "approve" =>
             ~sub[s].flagged /\ Required(sub[s].tier) \subseteq sub[s].docs
        /\ desk' = [desk EXCEPT ![r].stage = st, ![r].sub = s, ![r].what = w]
  <2>1. CASE ReadForUpload(r)
    <3>1. \A s \in Submissions : Required(sub[s].tier) \subseteq Papers
      BY DEF Required, Papers
    <3> QED
      BY <2>1, <3>1 DEF ReadForUpload
  <2>2. CASE ReadForRemoval(r)
    <3>1. \A s \in Submissions : sub[s].docs \subseteq Papers
      BY <1>1 DEF SubRow
    <3> QED
      BY <2>2, <3>1 DEF ReadForRemoval
  <2>3. CASE ReadForFinalize(r)
    <3>1. PICK q \in Submissions :
            /\ IsOpen(q) /\ Required(sub[q].tier) \subseteq sub[q].docs
            /\ desk' = [desk EXCEPT ![r].stage = "finalizing", ![r].sub = q,
                                   ![r].what = IF sub[q].flagged THEN "review" ELSE "approve"]
      BY <2>3 DEF ReadForFinalize
    <3>2. CASE sub[q].flagged
      BY <3>1, <3>2 DEF Writing
    <3>3. CASE ~sub[q].flagged
      BY <3>1, <3>3 DEF Writing
    <3> QED
      BY <3>2, <3>3
  <2>4. CASE ReadForReview(r)
    BY <2>4 DEF ReadForReview, Writing
  <2> QED
    BY <2>1, <2>2, <2>3, <2>4
<1> DEFINE new == [desk[r] EXCEPT !.stage = st, !.sub = s, !.what = w]
<1>4. /\ new \in DeskRow /\ new.stage = st /\ new.sub = s /\ new.what = w
      /\ desk' = [desk EXCEPT ![r] = new]
  BY <1>1, <1>3 DEF DeskRow
<1> HIDE DEF new
<1>5. st \notin {"submitting", "creating"}
  BY DEF Writing
<1> QED
  BY <1>2, <1>3, <1>4, <1>5, DeskTaken

(* What its end leaves of a handler.                                       *)
LEMMA EndShape ==
  ASSUME KInv, NEW r \in Calls, End(r)
  PROVE  /\ desk' \in [Calls -> DeskRow] /\ desk'[r].stage = "idle"
         /\ \A q \in Calls \ {r} : desk'[q] = desk[q]
<1>1. NoCall \in DeskRow /\ NoCall.stage = "idle"
  BY DEF NoCall, DeskRow
<1> QED
  BY <1>1, KycShapes DEF End

LEMMA CreateStep ==
  ASSUME KInv, NEW r \in Calls, CreateSubmission(r)
  PROVE  KInv'
<1>1. /\ desk[r].stage = "creating" /\ desk[r].tier \in Tiers
      /\ UNCHANGED <<tier, withdrawals, crossed>>
      /\ submittedTwice' = (submittedTwice \/ tier >= desk[r].tier
                             \/ \E q \in Calls \ {r} :
                                  desk[q].stage = "creating" /\ desk[q].tier = desk[r].tier)
  BY DEF CreateSubmission, KInv, ReadsHold
<1>2. PICK s \in Submissions, new \in SubRow :
        /\ sub[s].status = "none" /\ sub' = [sub EXCEPT ![s] = new]
        /\ new.status = "PENDING" /\ new.tier = desk[r].tier
  <2>1. PICK s \in Submissions, flagged \in BOOLEAN :
          /\ sub[s].status = "none"
          /\ sub' = [sub EXCEPT ![s] = [NoSubmission EXCEPT !.status = "PENDING",
                                          !.tier = desk[r].tier, !.flagged = flagged]]
    BY DEF CreateSubmission, Screened
  <2> DEFINE new == [NoSubmission EXCEPT !.status = "PENDING", !.tier = desk[r].tier,
                                         !.flagged = flagged]
  <2>2. new \in SubRow /\ new.status = "PENDING" /\ new.tier = desk[r].tier
    BY <1>1 DEF NoSubmission, SubRow, Open
  <2> HIDE DEF new
  <2> QED
    BY <2>1, <2>2 DEF new
<1>3. /\ sub' \in [Submissions -> SubRow] /\ sub'[s] = new
      /\ \A q \in Submissions \ {s} : sub'[q] = sub[q]
  BY <1>2, KycShapes
<1>4. /\ desk' \in [Calls -> DeskRow] /\ desk'[r].stage = "idle"
      /\ \A q \in Calls \ {r} : desk'[q] = desk[q]
  BY EndShape DEF CreateSubmission
<1>5. KycTypeOK'
  BY <1>1, <1>3, <1>4 DEF KInv, KycTypeOK, SubRow, DeskRow
<1>6. ASSUME NEW q \in Calls PROVE ReadsHold(q)'
  <2>1. CASE q = r
    BY <1>4, <2>1 DEF ReadsHold, Writing
  <2>2. CASE q # r
    <3>1. desk[q].stage \in Writing \cup {"uploading", "removing"} =>
            desk[q].sub \in Submissions \ {s}
      BY <1>2 DEF KInv, ReadsHold
    <3>2. desk'[q] = desk[q] /\ UNCHANGED crossed /\ ReadsHold(q)
      BY <1>1, <1>4, <2>2 DEF KInv
    <3>3. desk[q].stage \in Writing \cup {"uploading", "removing"} =>
            sub'[desk[q].sub] = sub[desk[q].sub]
      BY <1>3, <3>1
    <3>4. /\ desk[q].stage = "finalizing" => desk[q].stage \in Writing
          /\ desk[q].stage \in Writing => desk[q].stage \in Writing \cup {"uploading", "removing"}
      BY DEF Writing
    <3> QED
      BY <3>1, <3>2, <3>3, <3>4 DEF ReadsHold, IsOpen
  <2> QED
    BY <2>1, <2>2
<1>7. ASSUME Tidy'
      PROVE  /\ Tidy /\ desk[r].tier = tier + 1 /\ \A q \in Submissions : ~IsOpen(q)
             /\ \A q \in Calls \ {r} : desk[q].stage = "creating" => desk[q].tier # tier + 1
  <2>1. Tidy /\ ~(tier >= desk[r].tier)
    BY <1>1, <1>7 DEF Tidy
  <2>2. desk[r].tier <= tier + 1
    BY <1>1, <2>1 DEF KInv, Orderly
  <2>3. desk[r].tier = tier + 1
    <3>1. desk[r].tier \in Nat /\ tier \in Nat
      BY <1>1, KycShapes DEF Tiers
    <3> QED
      BY <2>1, <2>2, <3>1
  <2> QED
    BY <1>1, <1>7, <2>1, <2>3 DEF KInv, Orderly, Tidy
<1>8. Orderly'
  <2> SUFFICES ASSUME Tidy' PROVE /\ \A q \in Submissions : IsOpen(q)' =>
                                       sub'[q].tier = tier + 1 /\ q = s
                                  /\ \A q \in Calls :
                                       /\ desk'[q].stage \in {"submitting", "creating"} =>
                                            desk'[q].tier <= tier + 1
                                       /\ ~(desk'[q].stage = "creating" /\ desk'[q].tier = tier + 1)
    BY <1>1 DEF Orderly
  <2>1. \A q \in Submissions : IsOpen(q)' => sub'[q].tier = tier + 1 /\ q = s
    BY <1>2, <1>3, <1>7 DEF IsOpen
  <2>2. \A q \in Calls : desk'[q].stage \in {"submitting", "creating"} => desk'[q].tier <= tier + 1
    BY <1>4, <1>7 DEF KInv, Orderly
  <2> QED
    BY <1>4, <1>7, <2>1, <2>2
<1>9. TiersEarned'
  <2>1. \A q \in Submissions : Approved(q)' <=> Approved(q)
    BY <1>2, <1>3 DEF Approved
  <2>2. ~Approved(s)
    BY <1>2 DEF Approved
  <2>3. ApprovalEarned'
    BY <1>1, <1>3, <2>1, <2>2 DEF KInv, TiersEarned, ApprovalEarned
  <2>4. TierTrue'
    BY <1>1, <1>3, <2>1, <2>2 DEF KInv, TiersEarned, TierTrue
  <2> QED
    BY <2>3, <2>4 DEF TiersEarned
<1> QED
  BY <1>5, <1>6, <1>8, <1>9 DEF KInv

(* A write to the row of a submission the handler has read, and its end.   *)
(* The row stays of its tier and flags, and whoever else is to write it is *)
(* noted, unless no more than its documents grew.                          *)
LEMMA RowWritten ==
  ASSUME KInv, NEW r \in Calls, NEW s \in Submissions, NEW new \in SubRow,
         desk[r].sub = s, End(r), sub' = [sub EXCEPT ![s] = new],
         new.status # "none", new.tier = sub[s].tier, new.flagged = sub[s].flagged,
         UNCHANGED <<withdrawals, submittedTwice>>, tier' \in 0..3,
         crossed \subseteq crossed', crossed' \subseteq crossed \cup {s},
         \/ new.status = sub[s].status /\ sub[s].docs \subseteq new.docs
         \/ s \in crossed' \/ OthersWriting(r, s) = {}
  PROVE  KycTypeOK' /\ \A q \in Calls : ReadsHold(q)'
<1>1. /\ sub' \in [Submissions -> SubRow] /\ sub'[s] = new
      /\ \A q \in Submissions \ {s} : sub'[q] = sub[q]
  BY KycShapes
<1>2. /\ desk' \in [Calls -> DeskRow] /\ desk'[r].stage = "idle"
      /\ \A q \in Calls \ {r} : desk'[q] = desk[q]
  BY EndShape
<1>3. KycTypeOK'
  <2>1. crossed' \subseteq Submissions /\ withdrawals' \in Nat /\ submittedTwice' \in BOOLEAN
    BY KycShapes
  <2> QED
    BY <1>1, <1>2, <2>1 DEF KycTypeOK, SubRow, DeskRow
<1>4. ASSUME NEW q \in Calls PROVE ReadsHold(q)'
  <2>1. CASE q = r
    BY <1>2, <2>1 DEF ReadsHold, Writing
  <2>2. CASE q # r /\ (desk[q].sub # s \/ desk[q].stage \notin Writing)
    <3>1. desk'[q] = desk[q] /\ ReadsHold(q)
      BY <1>2, <2>2 DEF KInv
    <3>2. desk[q].stage \in Writing \cup {"uploading", "removing"} =>
            desk[q].sub \in Submissions /\ sub'[desk[q].sub].status # "none"
      BY <1>1, <3>1 DEF ReadsHold
    <3>3. desk[q].stage = "finalizing" => desk[q].stage \in Writing
      BY DEF Writing
    <3>4. desk[q].stage \in Writing =>
            /\ sub'[desk[q].sub] = sub[desk[q].sub]
            /\ desk[q].sub \in crossed' <=> desk[q].sub \in crossed
      BY <1>1, <2>2, <3>2
    <3> QED
      BY <3>1, <3>2, <3>3, <3>4 DEF ReadsHold, IsOpen
  <2>3. CASE q # r /\ desk[q].sub = s /\ desk[q].stage \in Writing
    <3>1. desk'[q] = desk[q] /\ ReadsHold(q)
      BY <1>2, <2>3 DEF KInv
    <3>2. q \in OthersWriting(r, s)
      BY <2>3 DEF OthersWriting
    <3>3. desk[q].stage \notin {"submitting", "creating", "uploading", "removing"}
      BY <2>3 DEF Writing
    <3>4. CASE s \in crossed'
      BY <1>1, <2>3, <3>1, <3>3, <3>4 DEF ReadsHold
    <3>5. CASE new.status = sub[s].status /\ sub[s].docs \subseteq new.docs
      BY <1>1, <2>3, <3>1, <3>3, <3>5 DEF ReadsHold, IsOpen
    <3> QED
      BY <3>2, <3>4, <3>5
  <2> QED
    BY <2>1, <2>2, <2>3
<1> QED
  BY <1>3, <1>4

LEMMA AddStep ==
  ASSUME KInv, NEW r \in Calls, AddDocument(r)
  PROVE  KInv'
<1> DEFINE s == desk[r].sub
           new == [sub[s] EXCEPT !.docs = @ \cup {desk[r].what}]
<1>1. /\ s \in Submissions /\ sub[s].status # "none" /\ desk[r].what \in Papers
      /\ sub[s] \in SubRow
  BY KycShapes DEF AddDocument, KInv, ReadsHold
<1>2. /\ End(r) /\ sub' = [sub EXCEPT ![s] = new]
      /\ UNCHANGED <<tier, withdrawals, crossed, submittedTwice>>
  BY DEF AddDocument
<1>3. /\ new \in SubRow /\ new.status = sub[s].status /\ new.tier = sub[s].tier
      /\ new.flagged = sub[s].flagged /\ sub[s].docs \subseteq new.docs /\ new.auto = sub[s].auto
  BY <1>1 DEF SubRow
<1>4. tier' \in 0..3 /\ crossed \subseteq crossed' /\ crossed' \subseteq crossed \cup {s}
  BY <1>2, KycShapes
<1>5. /\ \A q \in Submissions \ {s} : sub'[q] = sub[q]
      /\ sub'[s] = new
      /\ \A q \in Calls \ {r} : desk'[q] = desk[q]
      /\ desk'[r].stage = "idle"
  BY <1>1, <1>2, EndShape, KycShapes
<1> HIDE DEF new
<1>6. KycTypeOK' /\ \A q \in Calls : ReadsHold(q)'
  BY <1>1, <1>2, <1>3, <1>4, RowWritten
<1>7. \A q \in Submissions : /\ sub'[q].status = sub[q].status /\ sub'[q].tier = sub[q].tier
                             /\ sub'[q].flagged = sub[q].flagged /\ sub'[q].auto = sub[q].auto
                             /\ sub[q].docs \subseteq sub'[q].docs
  BY <1>3, <1>5
<1> HIDE DEF s
<1>8. Orderly'
  BY <1>2, <1>5, <1>7 DEF KInv, Orderly, Tidy, IsOpen
<1>9. TiersEarned'
  <2>1. TierTrue'
    BY <1>2, <1>7 DEF KInv, TiersEarned, TierTrue, Approved
  <2>2. ApprovalEarned'
    BY <1>2, <1>7 DEF KInv, TiersEarned, ApprovalEarned, Approved
  <2> QED
    BY <2>1, <2>2 DEF TiersEarned
<1> QED
  BY <1>6, <1>8, <1>9 DEF KInv

(* What is noted of the handlers that were to write of s as well.          *)
LEMMA CrossedShape ==
  ASSUME NEW r \in Calls, NEW s \in Submissions
  PROVE  /\ crossed \subseteq CrossedBy(r, s) /\ CrossedBy(r, s) \subseteq crossed \cup {s}
         /\ s \in CrossedBy(r, s) \/ OthersWriting(r, s) = {}
BY DEF CrossedBy

(* A withdrawal: of an open submission it may leave the status, and an     *)
(* approved one that loses a document is set aside.                        *)
LEMMA RemoveStep ==
  ASSUME KInv, NEW r \in Calls, RemoveDocument(r)
  PROVE  KInv'
<1> DEFINE s == desk[r].sub
           new == [sub[s] EXCEPT !.docs = @ \ {desk[r].what}]
<1>1. s \in Submissions /\ sub[s].status # "none" /\ sub[s] \in SubRow
  BY KycShapes DEF RemoveDocument, KInv, ReadsHold
<1>2. /\ End(r) /\ sub' = [sub EXCEPT ![s] = new] /\ UNCHANGED <<tier, withdrawals, submittedTwice>>
      /\ crossed' = IF sub[s].status \in Closed THEN crossed \cup {s} ELSE CrossedBy(r, s)
  BY DEF RemoveDocument
<1>3. /\ new \in SubRow /\ new.status = sub[s].status /\ new.tier = sub[s].tier
      /\ new.flagged = sub[s].flagged /\ new.auto = sub[s].auto
  BY <1>1 DEF SubRow
<1>4. /\ tier' \in 0..3 /\ crossed \subseteq crossed' /\ crossed' \subseteq crossed \cup {s}
      /\ s \in crossed' \/ OthersWriting(r, s) = {}
      /\ sub[s].status \in Closed => s \in crossed'
  BY <1>1, <1>2, CrossedShape, KycShapes
<1>5. /\ \A q \in Submissions \ {s} : sub'[q] = sub[q]
      /\ sub'[s] = new
      /\ \A q \in Calls \ {r} : desk'[q] = desk[q]
      /\ desk'[r].stage = "idle"
  BY <1>1, <1>2, EndShape, KycShapes
<1> HIDE DEF new
<1>6. KycTypeOK' /\ \A q \in Calls : ReadsHold(q)'
  BY <1>1, <1>2, <1>3, <1>4, RowWritten
<1>7. \A q \in Submissions : /\ sub'[q].status = sub[q].status /\ sub'[q].tier = sub[q].tier
                             /\ sub'[q].flagged = sub[q].flagged /\ sub'[q].auto = sub[q].auto
                             /\ sub[q].status = "APPROVED" /\ q \notin crossed' =>
                                  sub'[q].docs = sub[q].docs
  BY <1>3, <1>4, <1>5 DEF Closed
<1> HIDE DEF s
<1>8. Orderly'
  BY <1>2, <1>4, <1>5, <1>7 DEF KInv, Orderly, Tidy, IsOpen
<1>9. TiersEarned'
  <2>1. TierTrue'
    <3>1. crossed # {} => crossed' # {}
      BY <1>4
    <3> QED
      BY <1>2, <1>7, <3>1 DEF KInv, TiersEarned, TierTrue, Approved
  <2>2. ApprovalEarned'
    BY <1>2, <1>4, <1>7 DEF KInv, TiersEarned, ApprovalEarned, Approved
  <2> QED
    BY <2>1, <2>2 DEF TiersEarned
<1> QED
  BY <1>6, <1>8, <1>9 DEF KInv

(* A decision: the submission is closed, in review or sent back; one that  *)
(* is approved takes the user to its tier.                                 *)
LEMMA DecisionStep ==
  ASSUME KInv, NEW r \in Calls, NEW s \in Submissions, NEW new \in SubRow,
         desk[r].sub = s, desk[r].stage \in Writing, End(r), sub' = [sub EXCEPT ![s] = new],
         new.status # "none", new.tier = sub[s].tier, new.flagged = sub[s].flagged,
         new.docs = sub[s].docs,
         UNCHANGED <<withdrawals, submittedTwice>>, crossed' = CrossedBy(r, s),
         IF new.status = "APPROVED" THEN tier' = sub[s].tier ELSE tier' = tier,
         new.status = "APPROVED" /\ new.auto /\ s \notin crossed =>
           ~sub[s].flagged /\ Required(sub[s].tier) \subseteq sub[s].docs
  PROVE  KInv'
<1>1. sub[s] \in SubRow /\ ReadsHold(r)
  BY KycShapes DEF KInv
<1>2. /\ crossed \subseteq crossed' /\ crossed' \subseteq crossed \cup {s}
      /\ s \in crossed' \/ OthersWriting(r, s) = {}
  BY CrossedShape
<1>3. tier \in 0..3 /\ tier' \in 0..3 /\ sub[s].tier \in Tiers
  BY <1>1, KycShapes DEF SubRow, Tiers
<1>4. KycTypeOK' /\ \A q \in Calls : ReadsHold(q)'
  BY <1>2, <1>3, RowWritten
<1>5. /\ \A q \in Submissions \ {s} : sub'[q] = sub[q]
      /\ sub'[s] = new
      /\ \A q \in Calls \ {r} : desk'[q] = desk[q]
      /\ desk'[r].stage = "idle"
  BY EndShape, KycShapes
<1>6. ASSUME Tidy'
      PROVE  /\ Tidy /\ IsOpen(s) /\ sub[s].tier = tier + 1
             /\ \A q \in Submissions : IsOpen(q) => q = s
  <2>1. Tidy /\ s \notin crossed
    BY <1>2, <1>6 DEF Tidy
  <2>2. IsOpen(s)
    BY <1>1, <2>1 DEF ReadsHold
  <2> QED
    BY <2>1, <2>2 DEF KInv, Orderly
<1>7. Orderly'
  <2> SUFFICES ASSUME Tidy' PROVE
        /\ \A q \in Submissions :
             IsOpen(q)' => sub'[q].tier = tier' + 1 /\ \A p \in Submissions : IsOpen(p)' => p = q
        /\ \A q \in Calls :
             /\ desk'[q].stage \in {"submitting", "creating"} => desk'[q].tier <= tier' + 1
             /\ desk'[q].stage = "creating" /\ desk'[q].tier = tier' + 1 =>
                  \A p \in Submissions : ~IsOpen(p)'
    BY DEF Orderly
  <2>1. \A q \in Submissions : IsOpen(q)' => q = s
    BY <1>5, <1>6 DEF IsOpen
  <2>2. \A q \in Calls \ {r} : desk[q].stage \in {"submitting", "creating"} =>
            desk[q].tier <= tier + 1 /\ ~(desk[q].stage = "creating" /\ desk[q].tier = tier + 1)
    BY <1>6 DEF KInv, Orderly
  <2>3. \A q \in Calls : desk[q].tier \in 0..3
    BY KycShapes DEF DeskRow
  <2>4. CASE new.status = "APPROVED"
    <3>1. tier' = tier + 1 /\ ~IsOpen(s)'
      BY <1>5, <1>6, <2>4 DEF IsOpen, Open
    <3>2. \A q \in Submissions : ~IsOpen(q)'
      BY <2>1, <3>1
    <3>3. \A q \in Calls \ {r} : desk[q].stage \in {"submitting", "creating"} =>
            desk[q].tier <= tier + 1 + 1
      BY <1>3, <2>2, <2>3
    <3> QED
      BY <1>5, <3>1, <3>2, <3>3
  <2>5. CASE new.status # "APPROVED"
    <3>1. tier' = tier /\ sub'[s].tier = tier + 1
      BY <1>5, <1>6, <2>5
    <3> QED
      BY <1>5, <2>1, <2>2, <3>1
  <2> QED
    BY <2>4, <2>5
<1>8. TierTrue'
  <2> SUFFICES ASSUME Tidy'
               PROVE  /\ \A q \in Submissions : Approved(q)' => sub'[q].tier <= tier'
                      /\ \A t \in 1..tier' : \E q \in Submissions : Approved(q)' /\ sub'[q].tier = t
    BY DEF TierTrue, Tidy
  <2>1. /\ \A q \in Submissions : Approved(q) => sub[q].tier <= tier
        /\ \A t \in 1..tier : \E q \in Submissions : Approved(q) /\ sub[q].tier = t
    BY <1>6 DEF KInv, TiersEarned, TierTrue, Tidy
  <2>2. ~Approved(s)
    BY <1>6 DEF IsOpen, Approved, Open
  <2>3. \A q \in Submissions : Approved(q) => q # s /\ Approved(q)' /\ sub'[q].tier = sub[q].tier
    BY <1>5, <2>2 DEF Approved
  <2>4. \A q \in Submissions : Approved(q)' => q = s \/ Approved(q)
    BY <1>5 DEF Approved
  <2>5. \A q \in Submissions : sub[q].tier \in Tiers
    BY KycShapes DEF SubRow
  <2>6. CASE new.status = "APPROVED"
    <3>1. tier' = tier + 1 /\ Approved(s)' /\ sub'[s].tier = tier + 1
      BY <1>5, <1>6, <2>6 DEF Approved
    <3>2. \A q \in Submissions : Approved(q)' => sub'[q].tier <= tier'
      BY <1>3, <2>1, <2>3, <2>4, <2>5, <3>1 DEF Tiers
    <3>3. \A t \in 1..(tier + 1) : t \in 1..tier \/ t = tier + 1
      BY <1>3
    <3>4. \A t \in 1..tier' : \E q \in Submissions : Approved(q)' /\ sub'[q].tier = t
      BY <2>1, <2>3, <3>1, <3>3
    <3> QED
      BY <3>2, <3>4
  <2>7. CASE new.status # "APPROVED"
    <3>1. tier' = tier /\ ~Approved(s)'
      BY <1>5, <2>7 DEF Approved
    <3> QED
      BY <2>1, <2>3, <2>4, <3>1
  <2> QED
    BY <2>6, <2>7
<1>9. ApprovalEarned'
  <2> SUFFICES ASSUME NEW q \in Submissions \ crossed', Approved(q)', sub'[q].auto
               PROVE  ~sub'[q].flagged /\ Required(sub'[q].tier) \subseteq sub'[q].docs
    BY DEF ApprovalEarned
  <2>1. q \notin crossed
    BY <1>2
  <2>2. CASE q = s
    BY <1>5, <2>1, <2>2 DEF Approved
  <2>3. CASE q # s
    BY <1>5, <2>1, <2>3 DEF Approved, KInv, TiersEarned, ApprovalEarned
  <2> QED
    BY <2>2, <2>3
<1> QED
  BY <1>4, <1>7, <1>8, <1>9 DEF KInv, TiersEarned

LEMMA FinalizeStep ==
  ASSUME KInv, NEW r \in Calls, Finalize(r)
  PROVE  KInv'
<1> DEFINE s == desk[r].sub
<1>1. desk[r].stage = "finalizing" /\ desk[r].stage \in Writing /\ End(r)
      /\ UNCHANGED <<withdrawals, submittedTwice>> /\ crossed' = CrossedBy(r, s)
  BY DEF Finalize, Writing
<1>2. s \in Submissions /\ sub[s] \in SubRow
  BY <1>1, KycShapes DEF KInv, ReadsHold
<1>3. CASE desk[r].what = "approve"
  <2> DEFINE new == [sub[s] EXCEPT !.status = "APPROVED", !.auto = TRUE]
  <2>1. sub' = [sub EXCEPT ![s] = new] /\ tier' = sub[s].tier
    BY <1>3 DEF Finalize, Approve
  <2>2. /\ new \in SubRow /\ new.status = "APPROVED" /\ new.status # "none"
        /\ new.tier = sub[s].tier /\ new.flagged = sub[s].flagged /\ new.docs = sub[s].docs
    BY <1>2 DEF SubRow, Closed
  <2>3. s \notin crossed => ~sub[s].flagged /\ Required(sub[s].tier) \subseteq sub[s].docs
    BY <1>1, <1>3 DEF KInv, ReadsHold
  <2> HIDE DEF new
  <2>4. IF new.status = "APPROVED" THEN tier' = sub[s].tier ELSE tier' = tier
    BY <2>1, <2>2
  <2> QED
    BY <1>1, <1>2, <2>1, <2>2, <2>3, <2>4, DecisionStep
<1>4. CASE desk[r].what # "approve"
  <2> DEFINE new == [sub[s] EXCEPT !.status = "IN_REVIEW"]
  <2>1. sub' = [sub EXCEPT ![s] = new] /\ tier' = tier
    BY <1>4 DEF Finalize
  <2>2. /\ new \in SubRow /\ new.status = "IN_REVIEW" /\ new.status # "none"
        /\ new.tier = sub[s].tier /\ new.flagged = sub[s].flagged /\ new.docs = sub[s].docs
    BY <1>2 DEF SubRow, Open
  <2> HIDE DEF new
  <2>3. IF new.status = "APPROVED" THEN tier' = sub[s].tier ELSE tier' = tier
    BY <2>1, <2>2
  <2>4. new.status # "APPROVED"
    BY <2>2
  <2> QED
    BY <1>1, <1>2, <2>1, <2>2, <2>3, <2>4, DecisionStep
<1> QED
  BY <1>3, <1>4

LEMMA ReviewStep ==
  ASSUME KInv, NEW r \in Calls, Review(r)
  PROVE  KInv'
<1> DEFINE s == desk[r].sub
<1>1. desk[r].stage = "reviewing" /\ desk[r].stage \in Writing /\ End(r)
      /\ UNCHANGED <<withdrawals, submittedTwice>> /\ crossed' = CrossedBy(r, s)
  BY DEF Review, Writing
<1>2. s \in Submissions /\ sub[s] \in SubRow
  BY <1>1, KycShapes DEF KInv, ReadsHold
<1>3. PICK new \in SubRow :
        /\ sub' = [sub EXCEPT ![s] = new] /\ new.status # "none" /\ ~new.auto
        /\ new.tier = sub[s].tier /\ new.flagged = sub[s].flagged /\ new.docs = sub[s].docs
        /\ IF new.status = "APPROVED" THEN tier' = sub[s].tier ELSE tier' = tier
  <2>1. CASE desk[r].what = "APPROVE"
    <3> DEFINE new == [sub[s] EXCEPT !.status = "APPROVED", !.auto = FALSE]
    <3>1. sub' = [sub EXCEPT ![s] = new] /\ tier' = sub[s].tier
      BY <2>1 DEF Review, Approve
    <3>2. /\ new \in SubRow /\ new.status = "APPROVED" /\ ~new.auto
          /\ new.tier = sub[s].tier /\ new.flagged = sub[s].flagged /\ new.docs = sub[s].docs
      BY <1>2 DEF SubRow, Closed
    <3> HIDE DEF new
    <3> QED
      BY <3>1, <3>2
  <2>2. CASE desk[r].what # "APPROVE"
    <3>1. PICK outcome \in {"REJECTED", "NEEDS_MORE_INFO"} :
            sub' = [sub EXCEPT ![s].auto = FALSE, ![s].status = outcome] /\ tier' = tier
      <4>1. CASE desk[r].what = "REJECT"
        BY <2>2, <4>1 DEF Review
      <4>2. CASE desk[r].what # "REJECT"
        BY <2>2, <4>2 DEF Review
      <4> QED
        BY <4>1, <4>2
    <3> DEFINE new == [sub[s] EXCEPT !.auto = FALSE, !.status = outcome]
    <3>2. sub' = [sub EXCEPT ![s] = new]
      BY <1>2, <3>1, KycShapes
    <3>3. /\ new \in SubRow /\ new.status = outcome /\ ~new.auto
          /\ new.tier = sub[s].tier /\ new.flagged = sub[s].flagged /\ new.docs = sub[s].docs
      BY <1>2 DEF SubRow, Open, Closed
    <3> HIDE DEF new
    <3> QED
      BY <3>1, <3>2, <3>3
  <2> QED
    BY <2>1, <2>2
<1> QED
  BY <1>1, <1>2, <1>3, DecisionStep

LEMMA KycStep == KInv /\ [KycNext]_kycVars => KInv'
<1> SUFFICES ASSUME KInv, [KycNext]_kycVars PROVE KInv'
  OBVIOUS
<1>1. ASSUME NEW r \in Calls, CallStep(r) PROVE KInv'
  BY <1>1, CheckStep, CreateStep, ReadStep, AddStep, RemoveStep, FinalizeStep, ReviewStep
     DEF CallStep
<1>2. CASE UNCHANGED kycVars
  <2>1. UNCHANGED tier /\ UNCHANGED sub /\ UNCHANGED desk /\ UNCHANGED withdrawals
        /\ UNCHANGED crossed /\ UNCHANGED submittedTwice
    BY <1>2 DEF kycVars
  <2> QED
    BY <2>1 DEF KInv, KycTypeOK, ReadsHold, IsOpen, Orderly, Tidy, TiersEarned, TierTrue,
                ApprovalEarned, Approved
<1> QED
  BY <1>1, <1>2 DEF KycNext

LEMMA KInvHolds == KycSpec => []KInv
BY KycStart, KycStep, PTL DEF KycSpec

-----------------------------------------------------------------------------
(* For any number of submissions and handlers: the tier of the user is the *)
(* highest that was approved and every tier below it was, and what the     *)
(* screening alone approved was clean and complete, but for submissions of *)
(* one tier at once and decisions that crossed (KycService).               *)
THEOREM TiersTrulyEarned == KycSpec => []TiersEarned
<1>1. KInv => TiersEarned
  BY DEF KInv
<1> QED
  BY <1>1, KInvHolds, PTL

(* A closed submission that no other handler crosses keeps its status, for *)
(* any number of submissions and handlers (review).                        *)
THEOREM DecisionsAreFinal == KycSpec => DecisionStands
<1>1. KInv /\ [KycNext]_kycVars =>
        \A s \in Submissions :
          sub[s].status \in Closed /\ s \notin crossed => sub'[s].status = sub[s].status
  <2> SUFFICES ASSUME KInv, [KycNext]_kycVars, NEW s \in Submissions,
                      sub[s].status \in Closed, s \notin crossed
               PROVE  sub'[s].status = sub[s].status
    OBVIOUS
  <2>1. ~IsOpen(s) /\ sub[s].status # "none"
    BY DEF IsOpen, Open, Closed
  <2>2. \A r \in Calls : desk[r].stage \in Writing => desk[r].sub # s
    BY <2>1 DEF KInv, ReadsHold
  <2>3. sub \in [Submissions -> SubRow]
    BY KycShapes
  <2>4. ASSUME NEW r \in Calls, CallStep(r) PROVE sub'[s].status = sub[s].status
    <3>1. CASE CreateSubmission(r)
      BY <2>1, <2>3, <3>1 DEF CreateSubmission
    <3>2. CASE AddDocument(r)
      BY <2>3, <3>2 DEF AddDocument, SubRow
    <3>3. CASE RemoveDocument(r)
      BY <2>3, <3>3 DEF RemoveDocument, SubRow
    <3>4. CASE Finalize(r)
      BY <2>2, <2>3, <3>4 DEF Finalize, Approve, Writing
    <3>5. CASE Review(r)
      BY <2>2, <2>3, <3>5 DEF Review, Approve, Writing
    <3>6. CASE UNCHANGED sub
      BY <3>6
    <3> QED
      BY <2>4, <3>1, <3>2, <3>3, <3>4, <3>5, <3>6
      DEF CallStep, CheckTier, CheckNoneOpen, ReadForUpload, ReadForRemoval, ReadForFinalize,
          ReadForReview
  <2> QED
    BY <2>4 DEF KycNext, kycVars
<1> QED
  BY <1>1, KInvHolds, PTL DEF KycSpec, DecisionStands

HIDE KycAssumption

-----------------------------------------------------------------------------
(* The whole.                                                              *)

(* A step is one of the part at work, and leaves the others alone.         *)
PartSteps ==
  /\ UNCHANGED part
  /\ IF part = "dashboard" THEN [DashNext]_dashVars ELSE UNCHANGED dashVars
  /\ [SessionsNext]_sessionVars /\ [VerificationNext]_verificationVars
  /\ [CredentialsNext]_credentialVars /\ [KycNext]_kycVars

LEMMA OnePartSteps == [Next]_vars => PartSteps
<1>1. ASSUME UNCHANGED vars PROVE PartSteps
  BY <1>1 DEF PartSteps, vars, partVars
<1>2. ASSUME part = "dashboard", Next PROVE PartSteps
  <2>1. DashNext /\ UNCHANGED <<part, partVars>>
    BY <1>2 DEF Next, DashNext, Dash, Session, Verify, Credential, Tier
  <2> QED
    BY <1>2, <2>1 DEF PartSteps, partVars
<1>3. ASSUME part = "sessions", Next PROVE PartSteps
  <2>1. SessionsNext /\ UNCHANGED <<part, dashVars, verificationVars, credentialVars, kycVars>>
    BY <1>3 DEF Next, SessionsNext, RequestStep, Dash, Session, Verify, Credential, Tier
  <2> QED
    BY <1>3, <2>1 DEF PartSteps
<1>4. ASSUME part = "verification", Next PROVE PartSteps
  <2>1. VerificationNext /\ UNCHANGED <<part, dashVars, sessionVars, credentialVars, kycVars>>
    BY <1>4 DEF Next, VerificationNext, HandlerStep, Dash, Session, Verify, Credential, Tier
  <2> QED
    BY <1>4, <2>1 DEF PartSteps
<1>5. ASSUME part = "credentials", Next PROVE PartSteps
  <2>1. CredentialsNext /\ UNCHANGED <<part, dashVars, sessionVars, verificationVars, kycVars>>
    BY <1>5 DEF Next, CredentialsNext, TabStep, Dash, Session, Verify, Credential, Tier
  <2> QED
    BY <1>5, <2>1 DEF PartSteps
<1>6. ASSUME part = "kyc", Next PROVE PartSteps
  <2>1. KycNext /\ UNCHANGED <<part, dashVars, sessionVars, verificationVars, credentialVars>>
    BY <1>6 DEF Next, KycNext, CallStep, Dash, Session, Verify, Credential, Tier
  <2> QED
    BY <1>6, <2>1 DEF PartSteps
<1>7. Next => part \in Parts
  BY DEF Next, Parts, Dash, Session, Verify, Credential, Tier
<1> QED
  BY <1>1, <1>2, <1>3, <1>4, <1>5, <1>6, <1>7 DEF Parts

(* Put together, each part runs or rests: what is proved of it alone still *)
(* holds of its rows.                                                      *)
LEMMA PartsImplemented == Spec => SessionsSpec /\ VerificationSpec /\ CredentialsSpec /\ KycSpec
<1>1. Init => SessionsInit /\ VerificationInit /\ CredentialsInit /\ KycInit
  BY DEF Init
<1>2. [Next]_vars => /\ [SessionsNext]_sessionVars /\ [VerificationNext]_verificationVars
                     /\ [CredentialsNext]_credentialVars /\ [KycNext]_kycVars
  BY OnePartSteps DEF PartSteps
<1> QED
  BY <1>1, <1>2, PTL DEF Spec, SessionsSpec, VerificationSpec, CredentialsSpec, KycSpec

(* Beside another part the dashboard rests: nothing is clicked or told.    *)
Resting == told = {} /\ sent = [k \in 1..MaxClicks |-> Unsent]

DashBeside == part \in Parts /\ IF part = "dashboard" THEN DInv ELSE Resting

LEMMA BesideHolds == Spec => []DashBeside
<1>1. Init => DashBeside
  BY DashStart DEF Init, DashRests, DashBeside, Resting
<1>2. DashBeside /\ [Next]_vars => DashBeside'
  BY OnePartSteps, DashStep DEF DashBeside, PartSteps, Resting, dashVars
<1> QED
  BY <1>1, <1>2, PTL DEF Spec

(* Whatever part is at work, its rows and records keep their shapes.       *)
THEOREM PlatformTyped == Spec => []TypeOK
<1>1. DashBeside /\ SInv /\ VInv /\ CInv /\ KInv => TypeOK
  BY DEF DashBeside, Parts, TypeOK, DInv, DashTyped, SInv, Shape, VInv, HandlersTyped, CInv, KInv
<1> QED
  BY <1>1, PartsImplemented, BesideHolds, SInvHolds, VInvHolds, CInvHolds, KInvHolds, PTL
=============================================================================
