--------------------------- MODULE MCPhoneAndCards ---------------------------
(***************************************************************************)
(* The two specifications with fairness outside the scan, for TLC: the     *)
(* commands of the phone and the viewed ads.  part says of which of them a *)
(* behaviour is; the other rests where nothing of its fairness is enabled. *)
(* The viewed ads have two small instances, so that ads wait for one       *)
(* another in the first and subscriptions share an ad in the second.       *)
(***************************************************************************)
EXTENDS PhoneProxy, ViewedStore

CONSTANTS CardLinks, CardPrices, MaxCardRowid,  \* of the cards that are refreshed
          SharedAds                             \* of the subscriptions

VARIABLE part

Cards == INSTANCE ViewedStore WITH
           Links <- CardLinks, Prices <- CardPrices, MaxRowid <- MaxCardRowid
Subscribed == INSTANCE ViewedStore WITH Ads <- SharedAds

bothVars == <<part, phoneVars, viewedVars>>

Init ==
  /\ part \in {"phone", "cards", "subscriptions"}
  /\ PhoneInit /\ (part # "phone" => transport = "adb" /\ tiny = "off")
  /\ IF part = "subscriptions" THEN Subscribed!ViewedInit
     ELSE Cards!ViewedInit /\ (part # "cards" => viewed = {})

Next ==
  \/ part = "phone" /\ PhoneNext /\ UNCHANGED <<part, viewedVars>>
  \/ part = "cards" /\ Cards!ViewedNext /\ UNCHANGED <<part, phoneVars>>
  \/ part = "subscriptions" /\ Subscribed!ViewedNext /\ UNCHANGED <<part, phoneVars>>

Spec == Init /\ [][Next]_bothVars /\ PhoneFairness /\ ViewedFairness
=============================================================================
