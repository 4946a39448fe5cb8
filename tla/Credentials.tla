---------------------------- MODULE Credentials ----------------------------
(***************************************************************************)
(* What protects an account beyond its sessions: the authenticator app,    *)
(* the transaction PIN and the password with its reset links (AuthService, *)
(* and the security page, which is open in several tabs).                  *)
(*                                                                         *)
(* A handler reads the user, spends its time on a hash or a code, and      *)
(* writes.  Secrets are numbered as they are generated; a PIN or password  *)
(* is told apart by how it came to be, so only counts of them are kept.    *)
(***************************************************************************)
EXTENDS Actors, Naturals

CONSTANTS
  Tabs,        \* tabs of the browser on the security page, or devices
  MaxSecrets,  \* bound: secrets generated
  MaxPins,     \* bound: PINs set or changed
  MaxLinks     \* bound: reset links asked for

ASSUME CredentialsAssumption ==
  /\ IsFiniteSet(Tabs)
  /\ MaxSecrets \in Nat /\ MaxPins \in Nat /\ MaxLinks \in Nat /\ None \notin Nat

Secrets == 1..MaxSecrets
Links == 1..MaxLinks

VARIABLES
  secret,     \* twoFactorSecret
  enabled,    \* twoFactorEnabled
  generated,  \* secrets generated so far
  proven,     \* the secrets for which a code was checked and found right
  pin,        \* which PIN is in force, 0 for none
  pins,       \* PINs saved so far
  pinSets,    \* those of them saved by setPin
  link,       \* link[l]: the reset tokens, "none", "out" or "used"
  uses,       \* uses[l]: the resets made with it
  tab,        \* tab[t]: its call in progress and what its panel shows
  tabsCrossed,    \* two-factor calls overlapped, or one came from a tab that shows an older state
  doneTwice     \* two setPin calls overlapped, or two resets by one link

credentialVars ==
  <<secret, enabled, generated, proven, pin, pins, pinSets, link, uses, tab, tabsCrossed,
    doneTwice>>

Fresh == [stage |-> "idle", with |-> None, shown |-> None, seen |-> FALSE]

CredentialsInit ==
  /\ secret = None /\ enabled = FALSE /\ generated = 0 /\ proven = {}
  /\ pin = 0 /\ pins = 0 /\ pinSets = 0
  /\ link = [l \in Links |-> "none"]
  /\ uses = [l \in Links |-> 0]
  /\ tab = [t \in Tabs |-> Fresh]
  /\ tabsCrossed = FALSE /\ doneTwice = FALSE

TwoFactorStages == {"confirming", "disabling"}
Busy(t, stages) == \E u \in Tabs \ {t} : tab[u].stage \in stages
Free(t) == tab[t].stage = "idle"
Back(t) == tab' = [tab EXCEPT ![t].stage = "idle", ![t].with = None]

-----------------------------------------------------------------------------
(* TwoFactorPanel and its handlers.                                        *)

(* What the panel offers: to turn two factors off, to confirm the secret   *)
(* it shows, or to set one up.                                             *)
Offered(t) ==
  IF tab[t].seen THEN "disable" ELSE IF tab[t].shown # None THEN "confirm" ELSE "setup"

(* setupTwoFactor writes a new secret whatever there was; the panel offers *)
(* it to a user whose profile says two factors are off, and shows it.      *)
SetupTwoFactor(t) ==
  /\ Free(t) /\ Offered(t) = "setup"
  /\ generated < MaxSecrets
  /\ generated' = generated + 1
  /\ secret' = generated + 1
  /\ tab' \in {tab, [tab EXCEPT ![t].shown = generated + 1]}
  /\ tabsCrossed' = (tabsCrossed \/ enabled \/ Busy(t, TwoFactorStages))
  /\ UNCHANGED <<enabled, proven, pin, pins, pinSets, link, uses, doneTwice>>

(* confirmTwoFactorSetup: a code of the secret in the row; the user's app  *)
(* has the secrets that were ever shown, this tab's among them.            *)
CheckSetupCode(t) ==
  /\ Free(t) /\ Offered(t) = "confirm"
  /\ secret # None /\ secret = tab[t].shown
  /\ proven' = proven \cup {secret}
  /\ tab' = [tab EXCEPT ![t].stage = "confirming"]
  /\ UNCHANGED <<secret, enabled, generated, pin, pins, pinSets, link, uses, tabsCrossed,
                 doneTwice>>

(* The profile is read again; where that read fails there is no user and   *)
(* the page is left.                                                       *)
EnableTwoFactor(t) ==
  /\ tab[t].stage = "confirming"
  /\ enabled' = TRUE
  /\ tab' = [tab EXCEPT ![t] = [Fresh EXCEPT !.seen = TRUE]]
  /\ tabsCrossed' = (tabsCrossed \/ Busy(t, TwoFactorStages))
  /\ UNCHANGED <<secret, generated, proven, pin, pins, pinSets, link, uses, doneTwice>>

CheckDisableCode(t) ==
  /\ Free(t) /\ Offered(t) = "disable"
  /\ enabled /\ secret \in proven \cup {tab[u].shown : u \in Tabs} /\ secret # None
  /\ tab' = [tab EXCEPT ![t].stage = "disabling"]
  /\ UNCHANGED <<secret, enabled, generated, proven, pin, pins, pinSets, link, uses, tabsCrossed,
                 doneTwice>>

DisableTwoFactor(t) ==
  /\ tab[t].stage = "disabling"
  /\ enabled' = FALSE
  /\ secret' = None
  /\ tab' = [tab EXCEPT ![t] = Fresh]
  /\ tabsCrossed' = (tabsCrossed \/ Busy(t, TwoFactorStages))
  /\ UNCHANGED <<generated, proven, pin, pins, pinSets, link, uses, doneTwice>>

(* A reload: the panel starts over from the profile of now.                *)
Reload(t) ==
  /\ Free(t)
  /\ tab' = [tab EXCEPT ![t] = [Fresh EXCEPT !.seen = enabled]]
  /\ UNCHANGED <<secret, enabled, generated, proven, pin, pins, pinSets, link, uses, tabsCrossed,
                 doneTwice>>

-----------------------------------------------------------------------------
(* PinPanel: with the current PIN typed it is changed, without it set.     *)

(* As a bug would: a PIN that is there already is overwritten.             *)
ReadNoPinUnguarded(t) ==
  /\ Free(t)
  /\ tab' = [tab EXCEPT ![t].stage = "settingPin"]
  /\ doneTwice' = (doneTwice \/ Busy(t, {"settingPin"}))
  /\ UNCHANGED <<secret, enabled, generated, proven, pin, pins, pinSets, link, uses, tabsCrossed>>

ReadNoPin(t) ==
  /\ Free(t) /\ pin = 0
  /\ tab' = [tab EXCEPT ![t].stage = "settingPin"]
  /\ doneTwice' = (doneTwice \/ Busy(t, {"settingPin"}))
  /\ UNCHANGED <<secret, enabled, generated, proven, pin, pins, pinSets, link, uses, tabsCrossed>>

CheckPin(t) ==
  /\ Free(t) /\ pin # 0
  /\ tab' = [tab EXCEPT ![t].stage = "changingPin"]
  /\ UNCHANGED <<secret, enabled, generated, proven, pin, pins, pinSets, link, uses, tabsCrossed,
                 doneTwice>>

SavePin(t) ==
  /\ tab[t].stage \in {"settingPin", "changingPin"} /\ pins < MaxPins
  /\ pins' = pins + 1
  /\ pin' = pins + 1
  /\ pinSets' = IF tab[t].stage = "settingPin" THEN pinSets + 1 ELSE pinSets
  /\ Back(t)
  /\ UNCHANGED <<secret, enabled, generated, proven, link, uses, tabsCrossed, doneTwice>>

-----------------------------------------------------------------------------
(* Resetting the password by a link.                                       *)

ForgotPassword ==
  /\ \E l \in Links :
       /\ link[l] = "none" /\ \A k \in Links : k < l => link[k] # "none"
       /\ link' = [link EXCEPT ![l] = "out"]
  /\ UNCHANGED <<secret, enabled, generated, proven, pin, pins, pinSets, uses, tab, tabsCrossed,
                 doneTwice>>

(* resetPassword: the links that are out and in time are read, each hash   *)
(* compared in turn, a new one made; then one transaction.                 *)
MatchLink(t) ==
  /\ Free(t)
  /\ \E l \in Links :
       /\ link[l] = "out"
       /\ tab' = [tab EXCEPT ![t].stage = "resetting", ![t].with = l]
       /\ doneTwice' = (doneTwice \/ \E u \in Tabs : tab[u].stage = "resetting" /\ tab[u].with = l)
  /\ UNCHANGED <<secret, enabled, generated, proven, pin, pins, pinSets, link, uses, tabsCrossed>>

UseLink(t) ==
  /\ tab[t].stage = "resetting"
  /\ link' = [link EXCEPT ![tab[t].with] = "used"]
  /\ uses' = [uses EXCEPT ![tab[t].with] = @ + 1]
  /\ Back(t)
  /\ UNCHANGED <<secret, enabled, generated, proven, pin, pins, pinSets, tabsCrossed, doneTwice>>

TabStep(t) ==
  \/ SetupTwoFactor(t) \/ CheckSetupCode(t) \/ EnableTwoFactor(t) \/ CheckDisableCode(t)
  \/ DisableTwoFactor(t) \/ Reload(t) \/ ReadNoPin(t) \/ CheckPin(t) \/ SavePin(t)
  \/ MatchLink(t) \/ UseLink(t)

CredentialsNext == (\E t \in Tabs : TabStep(t)) \/ ForgotPassword

CredentialsSpec == CredentialsInit /\ [][CredentialsNext]_credentialVars

-----------------------------------------------------------------------------
(* The shape of the rows and of the tabs' records.                         *)
CredentialsTypeOK ==
  /\ secret \in Secrets \cup {None} /\ enabled \in BOOLEAN
  /\ generated \in 0..MaxSecrets /\ proven \subseteq Secrets
  /\ pin \in 0..MaxPins /\ pins \in 0..MaxPins /\ pinSets \in 0..pins
  /\ link \in [Links -> {"none", "out", "used"}] /\ uses \in [Links -> Nat]
  /\ tab \in [Tabs -> [stage : TwoFactorStages \cup {"idle", "settingPin", "changingPin",
                                                     "resetting"},
                       with : Links \cup {None}, shown : Secrets \cup {None}, seen : BOOLEAN]]
  /\ tabsCrossed \in BOOLEAN /\ doneTwice \in BOOLEAN

(* Two factors are on only with a secret the user has proven to possess,   *)
(* as the comment at auth.service.ts:463 has it: with another, or none, no *)
(* sign-in gets past the second step.  Set aside are calls of two tabs     *)
(* that cross, and a tab that still offers what another tab has done.      *)
TwoFactorProven == enabled => (secret # None /\ secret \in proven) \/ tabsCrossed

(* A PIN is set once and from then on changed by who knows it; a reset     *)
(* link is good once.  Set aside are two of either at work at a time.      *)
OnceOnly == doneTwice \/ (pinSets <= 1 /\ \A l \in Links : uses[l] <= 1)

(* Neither of the two is got round.                                        *)
CredentialsSound == TwoFactorProven /\ OnceOnly
=============================================================================
