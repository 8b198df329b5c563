---------------------------- MODULE EventualCache ----------------------------
(***************************************************************************)
(* What a cache fed by events promises about the table it copies, whatever *)
(* its keys and the way of its events are.  The auto-response service's    *)
(* trigger cache (TriggerCache) and the worker's settings cache            *)
(* (GuildSettings) both implement it.                                      *)
(*                                                                         *)
(* An entry may be behind the table, and for ever if a change was lost.    *)
(* But it falls behind only when its own key changes or something fails,   *)
(* and what is not behind is right: no handler that was late, was          *)
(* overtaken or worked on old data undoes it.                              *)
(***************************************************************************)
EXTENDS Naturals

CONSTANTS Keys, Values

VARIABLES
    table,   \* what the API has saved under each key
    cache,   \* what the service reads
    behind,  \* the keys whose entry need not be right
    up,      \* whether the service listens to the events
    faults   \* how many failures there may still be

vars == <<table, cache, behind, up, faults>>

UpToDate == \A k \in Keys \ behind : cache[k] = table[k]

\* Only entries that were behind are written.
OthersKept == \A k \in Keys \ behind : cache'[k] = cache[k]

Init ==
    /\ table \in [Keys -> Values]
    /\ cache \in [Keys -> Values]
    /\ behind \in SUBSET Keys
    /\ UpToDate
    /\ up = FALSE
    /\ faults \in Nat

\* The API changes a key, and the cache is yet to hear of it.
Change(k) ==
    /\ \E v \in Values : table' = [table EXCEPT ![k] = v]
    /\ behind' = behind \cup {k}
    /\ UNCHANGED <<cache, up, faults>>

\* The service writes entries that are behind; the ones it catches up with
\* are then right, and no entry is left behind that was not before.
Follow ==
    /\ cache' \in [Keys -> Values]
    /\ behind' \subseteq behind
    /\ OthersKept
    /\ \A k \in behind \ behind' : cache'[k] = table[k]
    /\ UNCHANGED <<table, up, faults>>

\* Before it listens it may clear the cache to fill it anew.
Rebuild ==
    /\ ~up
    /\ cache' \in [Keys -> Values]
    /\ behind' \in SUBSET Keys
    /\ \A k \in Keys \ behind' : cache'[k] = table[k]
    /\ UNCHANGED <<table, up, faults>>

Listen ==
    /\ ~up
    /\ up' = TRUE
    /\ UNCHANGED <<table, cache, behind, faults>>

\* A failure loses changes or entries, and may stop the service.
Fault ==
    /\ faults > 0 /\ faults' = faults - 1
    /\ cache' \in [Keys -> Values]
    /\ behind' \in SUBSET Keys /\ behind \subseteq behind'
    /\ \A k \in Keys \ behind' : cache'[k] = cache[k]
    /\ up' \in {up, FALSE}
    /\ UNCHANGED table

Next == (\E k \in Keys : Change(k)) \/ Follow \/ Rebuild \/ Listen \/ Fault

Spec == Init /\ [][Next]_vars
==============================================================================
