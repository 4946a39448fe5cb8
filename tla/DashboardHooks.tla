--------------------------- MODULE DashboardHooks ---------------------------
(***************************************************************************)
(* The hooks of the frontend, one definition per hook.  A query hook names *)
(* the key its answer is cached under and the tables of the answer; a      *)
(* mutation hook names the request it sends and the keys it invalidates    *)
(* when the answer is good.                                                *)
(***************************************************************************)
EXTENDS DashboardServices

Query(key, tables) == [key |-> key, tables |-> tables]
Mutation(act, keys) == [act |-> act, tells |-> keys]

(* use-wallets, use-transfers                                              *)
UseWallets == Query("wallets", {"wallets"})
UseTransfers == Query("transfers", {"transfers"})
InvalidateAfterTransfer == {"transfers", "wallets"}
UseWalletToWalletTransfer == Mutation("walletToWallet", InvalidateAfterTransfer)
UseCurrencyConversion == Mutation("convert", InvalidateAfterTransfer)
UseBankTransfer == Mutation("bankTransfer", InvalidateAfterTransfer)

(* use-p2p                                                                 *)
UseOffers == Query("p2p-offers", ListOffers)
UseMyOffers == Query("p2p-my-offers", {"my offers"})
UseCreateOffer == Mutation("createOffer", {"p2p-my-offers"})
(* As a bug would: the invalidation of the list is forgotten.              *)
UseSetOfferStatusSilent(act) == Mutation(act, {})

UseSetOfferStatus(act) == Mutation(act, {"p2p-my-offers"})
UseCreateP2POrder == Mutation("createP2POrder", {"p2p-orders", "p2p-offers", "wallets"})
UseP2POrders == Query("p2p-orders", {"p2p orders"})
InvalidateOrders == {"p2p-orders", "wallets"}
UseDeliverCode == Mutation("deliverCode", InvalidateOrders)
UseConfirmDelivery == Mutation("confirm", InvalidateOrders)
UseRaiseDispute == Mutation("raiseDispute", InvalidateOrders)
UseGiftCardCode == Query("p2p-code", {"codes"})
UseGiftCardValidation == Query("p2p-validation", {"validations"})

(* use-orders, use-crypto, use-watchlist                                   *)
UseOrders == Query("crypto-orders", {"crypto orders"})
InvalidateAfterOrder == {"crypto-orders", "crypto-portfolio", "wallets"}
UsePlaceOrder == Mutation("placeOrder", InvalidateAfterOrder)
UseCancelOrder == Mutation("cancelOrder", InvalidateAfterOrder)
UseCryptoPrices == Query("crypto-prices", {"rates"})
UsePortfolio == Query("crypto-portfolio", Portfolio)
UseWatchlist == Query("watchlist", ListWatchlist)
UseToggleWatchlist(act) == Mutation(act, {"watchlist"})
UseAlerts == Query("price-alerts", {"alerts"})
UseCreateAlert == Mutation("createAlert", {"price-alerts"})
UseDeleteAlert == Mutation("deleteAlert", {"price-alerts"})

(* use-beneficiaries                                                       *)
UseBeneficiaries == Query("beneficiaries", {"beneficiaries"})
UseCreateBeneficiary == Mutation("createBeneficiary", {"beneficiaries"})
UseDeleteBeneficiary == Mutation("removeBeneficiary", {"beneficiaries"})

(* use-cards                                                               *)
UseCards == Query("cards", {"cards"})
InvalidateCards == {"cards"}
UseIssueCard == Mutation("issueCard", InvalidateCards)
UseFreezeCard == Mutation("freeze", InvalidateCards)
UseUnfreezeCard == Mutation("unfreeze", InvalidateCards)
UseTerminateCard == Mutation("terminate", InvalidateCards)
UseSetCardLimit == Mutation("setLimit", InvalidateCards)
UseCardStatement == Query("card-statement", {"card statements"})
UseSimulatePurchase == Mutation("purchase", {"card-statement", "wallets"})

(* use-merchant                                                            *)
UseMerchantAccount == Query("merchant-account", {"merchant accounts"})
UseCreateMerchantAccount == Mutation("createAccount", {"merchant-account"})
UseMerchantDashboard == Query("merchant-dashboard", MerchantSummary)
UsePaymentLinks == Query("payment-links", {"payment links"})
UseCreatePaymentLink == Mutation("createPaymentLink", {"payment-links"})
UseDeactivatePaymentLink == Mutation("deactivateLink", {"payment-links"})
UseInvoices == Query("invoices", {"invoices"})
UseCreateInvoice == Mutation("createInvoice", {"invoices"})
UseVoidInvoice == Mutation("voidInvoice", {"invoices"})

(* use-kyc, use-compliance                                                 *)
UseKycStatus == Query("kyc-status", {"submissions"})
InvalidateKyc == {"kyc-status"}
UseSubmitTier == Mutation("submitTier", InvalidateKyc)
UseUploadKycDocument == Mutation("addDocument", InvalidateKyc)
UseFinalizeSubmission == Mutation("finalize", InvalidateKyc)
UseRemoveKycDocument == Mutation("removeDocument", InvalidateKyc)
UseComplianceQueue == Query("compliance-queue", {"submissions"})
UseReviewSubmission(act) == Mutation(act, {"compliance-queue"})

(* use-assistant                                                           *)
UseAiStatus == Query("ai-status", {})
UseConversation == Query("ai-conversation", {"messages"})
UseSendMessage == Mutation("sendMessage", {"ai-conversations", "ai-conversation"})
UseHealthScore == Query("health-score", HealthScore)
UseSpendingByCategory == Query("spending-by-category", SpendingByCategory)
UseBudgets == Query("budgets", BudgetsReport)
UseUpsertBudget == Mutation("upsertBudget", {"budgets"})
UseFraudAlerts == Query("fraud-alerts", {"fraud alerts"})
UseDismissFraudAlert == Mutation("dismissAlert", {"fraud-alerts"})

(* use-admin                                                               *)
UseAdminUsers == Query("admin-users", {"users"})
UseUpdateUserStatus(act) == Mutation(act, {"admin-users", "admin-user"})
UsePlatformSummary == Query("platform-summary", PlatformSummary)
UseFeatureFlags == Query("feature-flags", {"flags"})
UseUpsertFeatureFlag(act) == Mutation(act, {"feature-flags"})
UseFeeRules == Query("fee-rules", {"fee rules"})
UseSetFeeRuleActive(act) == Mutation(act, {"fee-rules"})
UseAuditLog == Query("audit-log", {"audit"})
=============================================================================
