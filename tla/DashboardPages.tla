--------------------------- MODULE DashboardPages ---------------------------
(***************************************************************************)
(* The pages of the dashboard, one definition per component.  A panel is   *)
(* the queries its hooks keep mounted and the buttons it shows; a button   *)
(* has the query that holds the status it depends on, the statuses it is   *)
(* shown in, whether it is disabled while its request is pending, and the  *)
(* view its page is in once the request has succeeded.  A view is what is  *)
(* on the screen: a page with its tab and the form or list opened in it.   *)
(***************************************************************************)
EXTENDS DashboardHooks

Stay == "stay"
NoList == [key |-> "no list", tables |-> {}]
NoRow == {"-"}
When(condition, S) == IF condition THEN S ELSE {}

Button(hook, list, shownIn, guarded, done) ==
  [act |-> hook.act, tells |-> hook.tells, list |-> list.key, shownIn |-> shownIn,
   guarded |-> guarded, done |-> done]

(* As a bug would: the submit button of a form is never disabled.          *)
FormUnguarded(hook, done) == Button(hook, NoList, NoRow, FALSE, done)

(* A form: its submit button is disabled while the request is pending.     *)
Form(hook, done) == Button(hook, NoList, NoRow, TRUE, done)
(* A button of a row that is disabled while its request is pending.        *)
Guarded(hook, list, shownIn) == Button(hook, list, shownIn, TRUE, Stay)
(* A button of a row that can be clicked again at once.                    *)
Plain(hook, list, shownIn) == Button(hook, list, shownIn, FALSE, Stay)

Panel(queries, buttons) == [reads |-> queries, buttons |-> buttons]
Beside(panels) ==
  Panel(UNION {p.reads : p \in panels}, UNION {p.buttons : p \in panels})
View(page, panels) ==
  [page |-> page, reads |-> Beside(panels).reads, buttons |-> Beside(panels).buttons]

-----------------------------------------------------------------------------
(* Overview, wallets and transfers.                                        *)

DashboardOverview == Panel({UseWallets}, {})
WalletsList == Panel({UseWallets}, {})
TransferHistory == Panel({UseTransfers}, {})
WalletToWalletForm == Panel({UseWallets, UseBeneficiaries}, {Form(UseWalletToWalletTransfer, Stay)})
ConvertCurrencyForm == Panel({UseWallets}, {Form(UseCurrencyConversion, Stay)})
(* Without a bank beneficiary the form is a link to the beneficiaries.     *)
BankTransferForm(someBank) ==
  Panel({UseWallets, UseBeneficiaries}, When(someBank, {Form(UseBankTransfer, Stay)}))
TransferPage ==
  [transferWallet |-> View("transfer", {WalletToWalletForm, TransferHistory}),
   transferConvert |-> View("transfer", {ConvertCurrencyForm, TransferHistory}),
   transferBank |-> View("transfer", {BankTransferForm(TRUE), TransferHistory}),
   transferNoBank |-> View("transfer", {BankTransferForm(FALSE), TransferHistory})]

(* Beneficiaries: the form closes when the beneficiary is made.            *)
AddGlobaPayUserForm == Panel({}, {Form(UseCreateBeneficiary, "beneficiaries")})
AddBankAccountForm == Panel({}, {Form(UseCreateBeneficiary, "beneficiaries")})
BeneficiaryList ==
  Panel({UseBeneficiaries}, {Plain(UseDeleteBeneficiary, UseBeneficiaries, {"here"})})
BeneficiariesPage ==
  [beneficiaries |-> View("beneficiaries", {BeneficiaryList}),
   addingUser |-> View("beneficiaries", {BeneficiaryList, AddGlobaPayUserForm}),
   addingBank |-> View("beneficiaries", {BeneficiaryList, AddBankAccountForm})]

-----------------------------------------------------------------------------
(* The P2P marketplace.                                                    *)

BuyForm == Panel({}, {Form(UseCreateP2POrder, "p2pBrowse")})
(* An offer shows Buy or, once that is clicked, the form.                  *)
OfferCard(buying) == IF buying THEN BuyForm ELSE Panel({}, {})
BrowseTab(buying) == Beside({Panel({UseOffers}, {}), OfferCard(buying)})
CreateOfferForm == Panel({}, {Form(UseCreateOffer, "p2pMyOffers")})
MyOffersTab(creating) ==
  Beside({Panel({UseMyOffers},
                {Plain(UseSetOfferStatus("pause"), UseMyOffers, {"ACTIVE"}),
                 Plain(UseSetOfferStatus("resume"), UseMyOffers, {"PAUSED"}),
                 Plain(UseSetOfferStatus("close"), UseMyOffers, {"ACTIVE", "PAUSED"})}),
          IF creating THEN CreateOfferForm ELSE Panel({}, {})})
(* Nothing for a crypto order or one that is over; the seller delivers,    *)
(* the buyer looks at the code, confirms and disputes.                     *)
OrderActions(side, showCode) ==
  IF side = "seller"
    THEN Panel({UseGiftCardValidation},
               {Guarded(UseDeliverCode, UseP2POrders, {"PENDING_DELIVERY"})})
    ELSE Panel({UseGiftCardValidation} \cup When(showCode, {UseGiftCardCode}),
               {Guarded(UseConfirmDelivery, UseP2POrders, {"DELIVERED"}),
                Guarded(UseRaiseDispute, UseP2POrders, {"PENDING_DELIVERY", "DELIVERED"})})
MyOrdersTab(side, showCode) == Beside({Panel({UseP2POrders}, {}), OrderActions(side, showCode)})
P2pPage ==
  [p2pBrowse |-> View("p2p", {BrowseTab(FALSE)}),
   p2pBuying |-> View("p2p", {BrowseTab(TRUE)}),
   p2pMyOffers |-> View("p2p", {MyOffersTab(FALSE)}),
   p2pCreating |-> View("p2p", {MyOffersTab(TRUE)}),
   p2pSales |-> View("p2p", {MyOrdersTab("seller", FALSE)}),
   p2pPurchases |-> View("p2p", {MyOrdersTab("buyer", FALSE)}),
   p2pCode |-> View("p2p", {MyOrdersTab("buyer", TRUE)})]

-----------------------------------------------------------------------------
(* Crypto.                                                                 *)

PortfolioSummary == Panel({UsePortfolio}, {})
(* The address is fetched without the cache each time the modal opens.     *)
DepositModal == Panel({}, {})
PricesPanel ==
  Panel({UseCryptoPrices, UseWatchlist},
        {Plain(UseToggleWatchlist("addToWatchlist"), UseWatchlist, {"out"}),
         Plain(UseToggleWatchlist("removeFromWatchlist"), UseWatchlist, {"in"})})
TradePanel == Panel({UseCryptoPrices}, {Form(UsePlaceOrder, Stay)})
OrdersPanel == Panel({UseOrders}, {Plain(UseCancelOrder, UseOrders, {"OPEN"})})
AlertsPanel ==
  Panel({UseAlerts}, {Form(UseCreateAlert, Stay), Plain(UseDeleteAlert, UseAlerts, {"here"})})
CryptoPanels == {PortfolioSummary, PricesPanel, TradePanel, OrdersPanel, AlertsPanel}
CryptoPage ==
  [crypto |-> View("crypto", CryptoPanels),
   cryptoDeposit |-> View("crypto", CryptoPanels \cup {DepositModal})]

-----------------------------------------------------------------------------
(* Cards.                                                                  *)

IssueCardForm == Panel({UseWallets}, {Form(UseIssueCard, "cards")})
CardTile(showStatement) ==
  Panel(When(showStatement, {UseCardStatement}),
        {Guarded(UseFreezeCard, UseCards, {"ACTIVE"}),
         Guarded(UseUnfreezeCard, UseCards, {"FROZEN"}),
         Guarded(UseTerminateCard, UseCards, {"ACTIVE", "FROZEN"}),
         Guarded(UseSetCardLimit, UseCards, {"ACTIVE", "FROZEN"}),
         Guarded(UseSimulatePurchase, UseCards, {"ACTIVE"})})
CardsPage ==
  [cards |-> View("cards", {Panel({UseCards}, {}), CardTile(FALSE)}),
   cardStatement |-> View("cards", {Panel({UseCards}, {}), CardTile(TRUE)}),
   cardIssuing |-> View("cards", {Panel({UseCards}, {}), CardTile(FALSE), IssueCardForm})]

-----------------------------------------------------------------------------
(* Merchants and the checkout.                                             *)

SetupForm == Panel({UseWallets}, {Guarded(UseCreateMerchantAccount, UseMerchantAccount, {"none"})})
PaymentLinksPanel ==
  Panel({UsePaymentLinks},
        {Form(UseCreatePaymentLink, Stay),
         Plain(UseDeactivatePaymentLink, UsePaymentLinks, {"on"})})
InvoicesPanel ==
  Panel({UseInvoices},
        {Form(UseCreateInvoice, Stay), Plain(UseVoidInvoice, UseInvoices, {"SENT"})})
MerchantHeader == Panel({UseMerchantAccount, UseMerchantDashboard}, {})
MerchantPage ==
  [merchantSetup |-> View("merchant", {MerchantHeader, SetupForm}),
   merchantHome |-> View("merchant", {MerchantHeader}),
   merchantLinks |-> View("merchant", {MerchantHeader, PaymentLinksPanel}),
   merchantInvoices |-> View("merchant", {MerchantHeader, InvoicesPanel})]

(* The public checkout sends its requests without a hook: nothing is       *)
(* invalidated, and only the payment form waits for its answer.            *)
StartSession == Mutation("startSession", {})
PaySession == Mutation("paySession", {})
Continue == Button(StartSession, NoList, NoRow, FALSE, "checkoutPay")
Pay == Button(PaySession, NoList, {"PENDING", "COMPLETED"}, TRUE, "checkoutPaid")
CheckoutPage ==
  [checkout |-> View("checkout", {Panel({UseWallets}, {Continue})}),
   checkoutPay |-> View("checkout", {Panel({UseWallets}, {Pay})}),
   checkoutPaid |-> View("checkout", {Panel({UseWallets}, {})})]

-----------------------------------------------------------------------------
(* Verification and compliance.                                            *)

(* The form of the next tier, when no submission of that tier is open.     *)
TierForm == Panel({}, {Guarded(UseSubmitTier, UseKycStatus, {"none", "REJECTED"})})
Tier1Form == TierForm
Tier2Form == TierForm
Tier3Form == TierForm
DocumentUploader ==
  Panel({}, {Plain(UseUploadKycDocument, UseKycStatus, {"PENDING", "NEEDS_MORE_INFO"}),
             Plain(UseRemoveKycDocument, UseKycStatus, {"here"})})
FinalizeBar ==
  Panel({}, {Guarded(UseFinalizeSubmission, UseKycStatus, {"PENDING", "NEEDS_MORE_INFO"})})
VerificationPage ==
  [verification |->
     View("verification", {Panel({UseKycStatus}, {}), Tier1Form, Tier2Form, Tier3Form,
                           DocumentUploader, FinalizeBar})]

SubmissionCard ==
  LET queued == {"PENDING", "IN_REVIEW"}
  IN  Panel({}, {Guarded(UseReviewSubmission("approve"), UseComplianceQueue, queued),
                 Guarded(UseReviewSubmission("askMore"), UseComplianceQueue, queued),
                 Guarded(UseReviewSubmission("reject"), UseComplianceQueue, queued)})
(* The queue is fetched for everybody; reviewers see it.                   *)
CompliancePage ==
  [compliance |-> View("compliance", {Panel({UseComplianceQueue}, {}), SubmissionCard}),
   complianceNoRole |-> View("compliance", {Panel({UseComplianceQueue}, {})})]

-----------------------------------------------------------------------------
(* The assistant.                                                          *)

(* Without an API key the panel says so and offers nothing.                *)
ChatPanel(configured, begun) ==
  Panel({UseAiStatus} \cup When(begun, {UseConversation}),
        When(configured, {Form(UseSendMessage, "assistantChat")}))
HealthScoreCard == Panel({UseHealthScore}, {})
SpendingCard == Panel({UseSpendingByCategory}, {})
BudgetsCard == Panel({UseBudgets}, {Form(UseUpsertBudget, Stay)})
FraudAlertsCard == Panel({UseFraudAlerts}, {Plain(UseDismissFraudAlert, UseFraudAlerts, {"OPEN"})})
AssistantCards == {HealthScoreCard, SpendingCard, BudgetsCard, FraudAlertsCard}
AssistantPage ==
  [assistant |-> View("assistant", AssistantCards \cup {ChatPanel(TRUE, FALSE)}),
   assistantChat |-> View("assistant", AssistantCards \cup {ChatPanel(TRUE, TRUE)}),
   assistantOff |-> View("assistant", AssistantCards \cup {ChatPanel(FALSE, FALSE)})]

-----------------------------------------------------------------------------
(* Administration.                                                         *)

AnalyticsTab == Panel({UsePlatformSummary}, {})
(* Whoever is not active can be made active.                               *)
UsersTab ==
  Panel({UseAdminUsers},
        {Plain(UseUpdateUserStatus("suspend"), UseAdminUsers, {"ACTIVE"}),
         Plain(UseUpdateUserStatus("reactivate"), UseAdminUsers, UserStatus \ {"ACTIVE"})})
SettingsTab ==
  Panel({UseFeatureFlags, UseFeeRules},
        {Button(UseUpsertFeatureFlag("upsertFlag"), NoList, NoRow, FALSE, Stay),
         Plain(UseUpsertFeatureFlag("flagOn"), UseFeatureFlags, {"off"}),
         Plain(UseUpsertFeatureFlag("flagOff"), UseFeatureFlags, {"on"}),
         Plain(UseSetFeeRuleActive("feeOn"), UseFeeRules, {"off"}),
         Plain(UseSetFeeRuleActive("feeOff"), UseFeeRules, {"on"})})
AuditLogTab == Panel({UseAuditLog}, {})
(* Three roles may look in; the others are told so.                        *)
AdminPage ==
  [adminAnalytics |-> View("admin", {AnalyticsTab}),
   adminUsers |-> View("admin", {UsersTab}),
   adminSettings |-> View("admin", {SettingsTab}),
   adminAudit |-> View("admin", {AuditLogTab}),
   adminNoRole |-> View("admin", {})]

-----------------------------------------------------------------------------
(* Signing in, and the account.  These pages send their requests without   *)
(* a hook; nothing is invalidated but the sessions by the last button.     *)

(* A form over a row that no list shows.                                   *)
Direct(action, rows, done) == Button(Mutation(action, {}), NoList, rows, TRUE, done)

LoginPage == Panel({}, {Direct("login", NoRow, "overview")})
RegisterPage == Panel({}, {Direct("register", {"none", "there"}, "verifyingOtp")})
OtpForm ==
  Panel({}, {Direct("verifyOtp", {"live", "used"}, "signIn"), Direct("resendOtp", NoRow, Stay)})
TwoFactorChallenge == Panel({}, {Direct("loginWithTwoFactor", NoRow, "overview")})
ForgotPasswordPage == Panel({}, {Direct("forgotPassword", NoRow, "linkSent")})
ResetForm == Panel({}, {Direct("resetPassword", {"out", "used"}, "signIn")})
AuthPages ==
  [signIn |-> View("login", {LoginPage}), registering |-> View("register", {RegisterPage}),
   verifyingOtp |-> View("verify-otp", {OtpForm}),
   challenged |-> View("setup-2fa", {TwoFactorChallenge}),
   forgetful |-> View("forgot-password", {ForgotPasswordPage}),
   linkSent |-> View("forgot-password", {}),
   resetting |-> View("reset-password", {ResetForm})]

(* One busy flag for the three; what is shown depends on the profile.      *)
TwoFactorPanel(state) ==
  CASE state = "off" -> Panel({}, {Direct("setupTwoFactor", NoRow, "securityShown")})
    [] state = "shown" -> Panel({}, {Direct("confirmTwoFactorSetup", {"off", "on"}, "securityOn")})
    [] state = "on" -> Panel({}, {Direct("disableTwoFactor", {"off", "on"}, "securityOff")})
PinPanel ==
  Panel({}, {Direct("setPin", {"none", "set"}, Stay), Direct("changePin", NoRow, Stay)})
UseSessions == Query("sessions", {"sessions"})
SignOutEverywhere ==
  Button(Mutation("logoutAll", {"sessions"}), NoList, {"live", "revoked"}, FALSE, "signIn")
SessionsPanel == Panel({UseSessions}, {SignOutEverywhere})
SecurityPage ==
  [securityOff |-> View("security", {TwoFactorPanel("off"), PinPanel, SessionsPanel}),
   securityShown |-> View("security", {TwoFactorPanel("shown"), PinPanel, SessionsPanel}),
   securityOn |-> View("security", {TwoFactorPanel("on"), PinPanel, SessionsPanel})]
SettingsPage == [settings |-> View("settings", {Panel({}, {Direct("updateProfile", NoRow, Stay)})})]

OverviewPage == [overview |-> View("overview", {DashboardOverview})]
WalletsPage == [wallets |-> View("wallets", {WalletsList})]

Views ==
  Together({OverviewPage, WalletsPage, TransferPage, BeneficiariesPage, P2pPage, CryptoPage,
            CardsPage, MerchantPage, CheckoutPage, VerificationPage, CompliancePage,
            AssistantPage, AdminPage, AuthPages, SecurityPage, SettingsPage})
=============================================================================
