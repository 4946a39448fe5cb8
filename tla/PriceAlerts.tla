---------------------------- MODULE PriceAlerts ----------------------------
(***************************************************************************)
(* Price alerts (WatchlistService): users make and delete them while the   *)
(* job of every thirty seconds goes through those not triggered yet, one   *)
(* after the other, marks the ones whose target is hit and mails each.     *)
(* Nothing keeps a round from starting while an earlier one is at work.    *)
(***************************************************************************)
EXTENDS Actors, Naturals

CONSTANTS
  Rounds,      \* runs of the job that can overlap
  MaxAlerts,  \* bound: alerts made
  MaxShifts   \* bound: moves of the price

ASSUME PriceAlertsAssumption ==
  IsFiniteSet(Rounds) /\ MaxAlerts \in Nat /\ MaxShifts \in Nat /\ None \notin Nat

Alerts == 1..MaxAlerts
Prices == {"low", "high", "unknown"}   \* unknown: getRate has none and throws

VARIABLES
  alert,    \* alert[a]: the PriceAlert row, and whether its user has an e-mail
  price,    \* the rate of the one pair
  shifts,   \* moves of the price so far
  round,    \* round[k]: a run of the job: what it still has to look at, where it is
  mails,    \* mails[a]: mails sent for a
  lost,     \* the alerts whose mail failed, or whose round died before it
  shared    \* two rounds had the same alert before them

alertVars == <<alert, price, shifts, round, mails, lost, shared>>

NoAlert == [state |-> "none", direction |-> "ABOVE", email |-> FALSE]
Resting == [stage |-> "idle", todo |-> {}, at |-> None]

AlertsInit ==
  /\ alert = [a \in Alerts |-> NoAlert]
  /\ price \in Prices /\ shifts = 0
  /\ round = [k \in Rounds |-> Resting]
  /\ mails = [a \in Alerts |-> 0]
  /\ lost = {} /\ shared = FALSE

(* One of those states, for a watchlist nobody looks at.                   *)
AlertsRest == price = "low" /\ AlertsInit

-----------------------------------------------------------------------------
(* A user who registered with a phone number has no e-mail.                *)
CreateAlert ==
  /\ \E a \in Alerts, direction \in {"ABOVE", "BELOW"}, email \in BOOLEAN :
       /\ alert[a].state = "none" /\ \A b \in Alerts : b < a => alert[b].state # "none"
       /\ alert' = [alert EXCEPT ![a] = [state |-> "waiting", direction |-> direction,
                                        email |-> email]]
  /\ UNCHANGED <<price, shifts, round, mails, lost, shared>>

DeleteAlert ==
  /\ \E a \in Alerts :
       /\ alert[a].state \in {"waiting", "triggered"}
       /\ alert' = [alert EXCEPT ![a].state = "deleted"]
  /\ UNCHANGED <<price, shifts, round, mails, lost, shared>>

MovePrice ==
  /\ shifts < MaxShifts /\ shifts' = shifts + 1
  /\ price' \in Prices \ {price}
  /\ UNCHANGED <<alert, round, mails, lost, shared>>

-----------------------------------------------------------------------------
(* The alerts a round has before it, the one it is at included.             *)
Before(k) == round[k].todo \cup ({round[k].at} \ {None})

ReadPending(k) ==
  /\ round[k].stage = "idle"
  /\ LET pending == {a \in Alerts : alert[a].state = "waiting"}
     IN  /\ pending # {}
         /\ round' = [round EXCEPT ![k].stage = "looking", ![k].todo = pending]
         /\ shared' = (shared \/ \E j \in Rounds : Before(j) \cap pending # {})
  /\ UNCHANGED <<alert, price, shifts, mails, lost>>

Hit(a) == price = (IF alert[a].direction = "ABOVE" THEN "high" ELSE "low")

(* The next alert of the list: no rate, or not hit, and it is passed over. *)
CheckPrice(k) ==
  /\ round[k].stage = "looking"
  /\ \E a \in round[k].todo :
       /\ \A b \in round[k].todo : a <= b
       /\ round' = [round EXCEPT ![k].todo = @ \ {a},
                               ![k].stage = IF Hit(a) THEN "marking" ELSE "looking",
                               ![k].at = IF Hit(a) THEN a ELSE None]
  /\ UNCHANGED <<alert, price, shifts, mails, lost, shared>>

(* As a bug would: the mail goes out and the row stays as it is.           *)
MarkTriggeredForgotten(k) ==
  /\ round[k].stage = "marking"
  /\ round' = [round EXCEPT ![k].stage = "mailing"]
  /\ UNCHANGED <<alert, price, shifts, mails, lost, shared>>

(* The row is marked; if it was deleted the update throws and the round is  *)
(* over, with the alerts that were still before it.                        *)
MarkTriggered(k) ==
  /\ round[k].stage = "marking"
  /\ IF alert[round[k].at].state = "deleted"
       THEN /\ round' = [round EXCEPT ![k] = Resting]
            /\ UNCHANGED alert
       ELSE /\ alert' = [alert EXCEPT ![round[k].at].state = "triggered"]
            /\ round' = [round EXCEPT ![k].stage = "mailing"]
  /\ UNCHANGED <<price, shifts, mails, lost, shared>>

(* A mail that fails is only logged; a user without an e-mail gets none.    *)
SendMail(k) ==
  LET a == round[k].at
  IN  /\ round[k].stage = "mailing"
      /\ \/ alert[a].email /\ mails' = [mails EXCEPT ![a] = @ + 1] /\ UNCHANGED lost
         \/ alert[a].email /\ lost' = lost \cup {a} /\ UNCHANGED mails
         \/ ~alert[a].email /\ UNCHANGED <<mails, lost>>
      /\ round' = [round EXCEPT ![k].stage = "looking", ![k].at = None]
      /\ UNCHANGED <<alert, price, shifts, shared>>

FinishRound(k) ==
  /\ round[k].stage = "looking" /\ round[k].todo = {}
  /\ round' = [round EXCEPT ![k] = Resting]
  /\ UNCHANGED <<alert, price, shifts, mails, lost, shared>>

(* The process stops: what a round had marked and not mailed is not mailed. *)
Die ==
  /\ \E k \in Rounds : round[k].stage # "idle"
  /\ round' = [k \in Rounds |-> Resting]
  /\ lost' = lost \cup {round[k].at : k \in {j \in Rounds : round[j].stage = "mailing"}}
  /\ UNCHANGED <<alert, price, shifts, mails, shared>>

RoundStep(k) ==
  ReadPending(k) \/ CheckPrice(k) \/ MarkTriggered(k) \/ SendMail(k) \/ FinishRound(k)

AlertsNext == CreateAlert \/ DeleteAlert \/ MovePrice \/ (\E k \in Rounds : RoundStep(k)) \/ Die

AlertsSpec == AlertsInit /\ [][AlertsNext]_alertVars

-----------------------------------------------------------------------------
(* The shape of the rows and of the rounds' records.                        *)
AlertsTypeOK ==
  /\ alert \in [Alerts -> [state : {"none", "waiting", "triggered", "deleted"},
                           direction : {"ABOVE", "BELOW"}, email : BOOLEAN]]
  /\ price \in Prices /\ shifts \in 0..MaxShifts
  /\ round \in [Rounds -> [stage : {"idle", "looking", "marking", "mailing"},
                         todo : SUBSET Alerts, at : Alerts \cup {None}]]
  /\ mails \in [Alerts -> Nat] /\ lost \subseteq Alerts /\ shared \in BOOLEAN

(* An alert is told once: never twice, unless two rounds had it before     *)
(* them at a time; and one that is marked, of a user who has an e-mail, has *)
(* been mailed, is about to be, or is among those whose mail failed or     *)
(* whose round died (checkAlerts).                                         *)
ToldOnce ==
  \A a \in Alerts :
    /\ mails[a] <= 1 \/ shared
    /\ alert[a].state = "triggered" /\ alert[a].email =>
         \/ mails[a] > 0 \/ a \in lost
         \/ \E k \in Rounds : round[k].stage = "mailing" /\ round[k].at = a

(* The rows and rounds keep their shapes, and alerts are told once.        *)
AlertsSound == AlertsTypeOK /\ ToldOnce
=============================================================================
