---------------------------- MODULE ViewedStore ----------------------------
(***************************************************************************)
(* The viewed ads of SQLiteDBHandler (persistence/ads.py) between those    *)
(* who change them: the scans of the links, which look an ad up and save   *)
(* it later (engine/app.py), the refresher of one card after another, the  *)
(* script refresh_ads.py with a list it read once, and migrate_ads.py,     *)
(* which gives the rows of an old database to links by a list of rowids it *)
(* read once.                                                              *)
(*                                                                         *)
(* viewed holds the rows by their rowid and the columns of their unique    *)
(* index; a key is the subscription.  schedule is ad_refresh_state in the  *)
(* order of last_attempt: the first is the oldest, due says that the       *)
(* interval has passed since.  migration is what is left of the list of    *)
(* migrate_ads.py, and reused, a history, the rowids of it that were given *)
(* to new rows since.  The outbox is the subject of NotificationOutbox.    *)
(***************************************************************************)
EXTENDS Integers, Sequences, FiniteSets, SequencesExt

CONSTANTS Ads, Links, Prices,
          Unassigned,   \* source_key of the rows of an old database
          NoAd,         \* the refresher has no card
          MaxRowid      \* bound: rowids are given up to this one

\* An ad is a number of 64 bits.
ASSUME ViewedAssumption == Unassigned \notin Links /\ NoAd \notin Ads /\ IsFiniteSet(Ads)
                           /\ MaxRowid \in Nat

VARIABLES viewed, schedule, scan, refresher, script, migration, reused

migrating == <<migration, reused>>
viewedVars == <<viewed, schedule, scan, refresher, script, migrating>>

Keys == Links \cup {Unassigned}
Rows == [rowid : 1..MaxRowid, ad : Ads, price : Prices, key : Keys]
\* What a page of the catalog shows: every ad once.
Pages == {found \in SUBSET [ad : Ads, price : Prices] :
            \A f, g \in found : f.ad = g.ad => f = g}

\* The rows of an ad, and the schedule without its entry: ad_id is the primary key.
Of(ad) == {row \in viewed : row.ad = ad}
Rowids == {row.rowid : row \in viewed}
Event(row) == [ad |-> row.ad, price |-> row.price, key |-> row.key]
Scheduled == {schedule[i].ad : i \in DOMAIN schedule}
Without(ad) ==
  IF ad \in Scheduled
  THEN RemoveAt(schedule, CHOOSE i \in DOMAIN schedule : schedule[i].ad = ad)
  ELSE schedule

ViewedTypeOK ==
  /\ viewed \subseteq Rows
  /\ schedule \in Seq([ad : Ads, due : BOOLEAN])
  /\ scan \in [Links -> Pages]
  /\ refresher \in Ads \cup {NoAd}
  /\ script \in SUBSET Ads
  /\ migration \subseteq 1..MaxRowid /\ reused \subseteq 1..MaxRowid

\* The rows that events become by a rowid each.
Rowed(events, number) ==
  {[rowid |-> number[e], ad |-> e.ad, price |-> e.price, key |-> e.key] : e \in events}

\* _migrate has dated every ad of an old database by its scanned_at.
ViewedInit ==
  /\ \E old \in SUBSET [ad : Ads, price : Prices, key : {Unassigned}] :
       \E number \in [old -> 1..MaxRowid] :
         IsInjective(number) /\ viewed = Rowed(old, number)
  /\ schedule = SetToSeq({[ad |-> row.ad, due |-> FALSE] : row \in viewed})
  /\ scan = [link \in Links |-> {}]
  /\ refresher = NoAd
  /\ script = {}
  /\ migration = {} /\ reused = {}

---------------------------------------------------------------------------
(* A scan: record_exists while it filters, add_record_from_page after the  *)
(* full texts were loaded.                                                 *)

Filter(link, found) ==
  /\ scan[link] = {}
  /\ \A f \in found : ~\E row \in viewed :
       row.ad = f.ad /\ row.price = f.price /\ row.key = link
  /\ scan' = [scan EXCEPT ![link] = found]
  /\ UNCHANGED <<viewed, schedule, refresher, script, migrating>>

\* The events of the page that are not known: the INSERT ignores the others.
Unknown(link) ==
  {[ad |-> f.ad, price |-> f.price, key |-> link] : f \in scan[link]}
    \ {Event(row) : row \in viewed}

\* The rowids of new rows: a table without AUTOINCREMENT goes on after the largest it has.
Numberings(events) ==
  {number \in [events -> 1..MaxRowid] :
     /\ IsInjective(number)
     /\ \A e \in events :
          /\ \A known \in Rowids : number[e] > known
          /\ number[e] - 1 \in {0} \cup Rowids \cup {number[other] : other \in events}}

\* Mutant: the entry of an ad that is known already is inserted once more.
NewEntriesTwice(ads) == SetToSeq({[ad |-> a, due |-> FALSE] : a \in ads})

NewEntries(ads) == SetToSeq({[ad |-> a, due |-> FALSE] : a \in ads \ Scheduled})

\* INSERT OR IGNORE in one transaction.
Save(link) ==
  /\ scan[link] # {}
  /\ \E number \in Numberings(Unknown(link)) :
       /\ viewed' = viewed \cup Rowed(Unknown(link), number)
       /\ reused' = reused \cup (migration \cap {number[e] : e \in Unknown(link)})
  /\ schedule' = schedule \o NewEntries({f.ad : f \in scan[link]})
  /\ scan' = [scan EXCEPT ![link] = {}]
  /\ UNCHANGED <<refresher, script, migration>>

\* A cancelled scan saves nothing of its page.
Cancel(link) ==
  /\ scan[link] # {}
  /\ scan' = [scan EXCEPT ![link] = {}]
  /\ UNCHANGED <<viewed, schedule, refresher, script, migrating>>

---------------------------------------------------------------------------
(* The cards. *)

\* Mutant: a unique index without the subscription.
SurvivorsOfAd(ad) == {{row} : row \in Of(ad)}

\* Of the rows that come to the same key and price one is left; which, the order decides
\* in which SQLite visits them.
Survivors(ad) ==
  {stay \in SUBSET Of(ad) :
     /\ \A row \in Of(ad) : \E left \in stay : left.key = row.key
     /\ \A left, other \in stay : left.key = other.key => left = other}

\* UPDATE OR REPLACE of all rows of the ad.
Reprice(ad, price) ==
  \E stay \in Survivors(ad) :
    viewed' = (viewed \ Of(ad)) \cup {[row EXCEPT !.price = price] : row \in stay}

\* Mutant: update_ad without mark_refreshed.
UpdateAdUnmarked(ad) ==
  /\ (\E price \in Prices : Reprice(ad, price)) \/ UNCHANGED viewed
  /\ UNCHANGED schedule

\* update_ad with mark_refreshed: an answer without a price leaves it alone.
UpdateAd(ad) ==
  /\ \/ \E price \in Prices : Reprice(ad, price)
     \/ UNCHANGED viewed
  /\ schedule' = IF Of(ad) # {} /\ ad \in Scheduled
                 THEN Append(Without(ad), [ad |-> ad, due |-> FALSE]) ELSE schedule

\* delete_ad, with the messages of the ad that were not sent.
DeleteAd(ad) ==
  /\ viewed' = viewed \ Of(ad)
  /\ schedule' = Without(ad)

\* next_ad_for_refresh: the oldest attempt that is due and has rows.
NextAd(ad) ==
  \E i \in DOMAIN schedule :
    /\ schedule[i] = [ad |-> ad, due |-> TRUE] /\ Of(ad) # {}
    /\ \A j \in 1..(i - 1) : ~schedule[j].due \/ Of(schedule[j].ad) = {}

Pick(ad) ==
  /\ refresher = NoAd /\ NextAd(ad)
  /\ refresher' = ad
  /\ UNCHANGED <<viewed, schedule, scan, script, migrating>>

\* _refresh_ad: the card was parsed and the ad is there, or is removed.
Refreshed ==
  /\ refresher # NoAd
  /\ UpdateAd(refresher) \/ DeleteAd(refresher)
  /\ refresher' = NoAd
  /\ UNCHANGED <<scan, script, migrating>>

\* Any error leaves last_attempt where it was.
RefreshFails ==
  /\ refresher # NoAd
  /\ refresher' = NoAd
  /\ UNCHANGED <<viewed, schedule, scan, script, migrating>>

\* refresh_ads.py: list_ads_for_refresh once, then one ad at a time.
ScriptStarts ==
  /\ script = {}
  /\ script' = {row.ad : row \in viewed}
  /\ UNCHANGED <<viewed, schedule, scan, refresher, migrating>>

ScriptTakes(ad) ==
  /\ ad \in script
  /\ script' = script \ {ad}
  /\ \/ UpdateAd(ad) \/ DeleteAd(ad)
     \/ UNCHANGED <<viewed, schedule>>
  /\ UNCHANGED <<scan, refresher, migrating>>

\* unassigned_rows of migrate_ads.py, which may have been stopped before its end.
MigrationStarts ==
  /\ migration' = {row.rowid : row \in {r \in viewed : r.key = Unassigned}}
  /\ reused' = {}
  /\ UNCHANGED <<viewed, schedule, scan, refresher, script>>

\* assign_row: UPDATE OR REPLACE with source_key = url of the row that has the rowid now.
Assign(rowid, link) ==
  LET moved == {[row EXCEPT !.key = link] : row \in {r \in viewed : r.rowid = rowid}}
  IN  viewed' = {row \in viewed : /\ row.rowid # rowid
                                  /\ \A new \in moved : Event(new) # Event(row)} \cup moved

\* Its next rowid: --url takes it for the one link, --auto for a link whose words the
\* description has, if there is any.
MigrationTakes(rowid) ==
  /\ rowid \in migration
  /\ migration' = migration \ {rowid}
  /\ (\E link \in Links : Assign(rowid, link)) \/ UNCHANGED viewed
  /\ UNCHANGED <<schedule, scan, refresher, script, reused>>

\* The interval of the oldest entry that is not due has passed.
ComeDue ==
  \E i \in DOMAIN schedule :
    /\ ~schedule[i].due /\ \A j \in 1..(i - 1) : schedule[j].due
    /\ schedule' = [schedule EXCEPT ![i] = [ad |-> schedule[i].ad, due |-> TRUE]]
    /\ UNCHANGED <<viewed, scan, refresher, script, migrating>>

ViewedNext ==
  \/ \E link \in Links :
       \/ Save(link) \/ Cancel(link)
       \/ \E found \in Pages \ {{}} : Filter(link, found)
  \/ \E ad \in Ads : Pick(ad) \/ ScriptTakes(ad)
  \/ Refreshed \/ RefreshFails \/ ScriptStarts \/ ComeDue
  \/ MigrationStarts \/ \E rowid \in migration : MigrationTakes(rowid)

ViewedSpec == ViewedInit /\ [][ViewedNext]_viewedVars

\* Time passes, the refresher takes the next card whenever it has the queue,
\* and no card fails for ever.
ViewedFairness ==
  /\ WF_viewedVars(ComeDue)
  /\ \A ad \in Ads : WF_viewedVars(Pick(ad))
  /\ \A ad \in Ads : SF_viewedVars(refresher = ad /\ Refreshed)

---------------------------------------------------------------------------
(* Properties. *)

\* No change of prices and no merge of rows takes an ad away from a subscription, which would
\* be told of it anew: only its deletion does, or the migration.  That takes rows of no
\* subscription, unless the rowid was given to another row after the list was read.
SubscriptionsKept ==
  [][\A ad \in Ads, key \in Keys :
       (\E row \in Of(ad) : row.key = key) =>
         \/ \E row \in Of(ad)' : row.key = key
         \/ Of(ad)' = {}
         \/ \E row \in Of(ad) :
              /\ row.key = key /\ row.rowid \in migration \ migration'
              /\ key = Unassigned \/ row.rowid \in reused]_viewedVars

\* Every ad with rows has its place in the order of the refreshes, once: no
\* order of saves, deletions and updates loses it or doubles it.
EveryAdScheduled ==
  /\ {row.ad : row \in viewed} \subseteq Scheduled
  /\ \A i, j \in DOMAIN schedule : schedule[i].ad = schedule[j].ad => i = j

\* A card that is due is refreshed or deleted at last.
RefreshReaches ==
  \A ad \in Ads :
    (\E i \in DOMAIN schedule : schedule[i] = [ad |-> ad, due |-> TRUE]) ~>
      ~(\E i \in DOMAIN schedule : schedule[i] = [ad |-> ad, due |-> TRUE])
=============================================================================
