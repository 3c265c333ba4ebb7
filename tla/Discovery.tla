------------------------------ MODULE Discovery ------------------------------
(***************************************************************************)
(* Discovery: a client process reads the keys of a method once and then    *)
(* follows a watch (src/src/rpcaddresscache.cc, with WatchPrefixBlocking   *)
(* and parseWatchLine of src/src/etcdclient.cc), while the providers of    *)
(* Registration come and go.                                               *)
(*                                                                         *)
(* A watch frame carries every event up to the revision in its header.     *)
(***************************************************************************)
EXTENDS Registration, Functions

CONSTANTS
    MaxPicks,    \* bound: addresses handed out per method
    MayCompact   \* may etcd discard old revisions?

ASSUME DiscoveryAssumption == MaxPicks \in Nat /\ MayCompact \in BOOLEAN

VARIABLES
    compacted,     \* etcd's revisions up to this one are discarded
    g_etcdOk,      \* "unset" before call_once, then whether Start succeeded
    g_entries,     \* methods that have a MethodEntry
    instances, rr, \* MethodEntry
    watch,         \* where WatchPrefixBlocking is
    resumeRev, lastRevision,
    pos, hdr       \* last revision delivered; header of the frame at hand, or 0

cacheVars == <<g_etcdOk, g_entries, instances, rr>>
watchVars == <<watch, resumeRev, lastRevision, pos, hdr>>
vars == <<regVars, compacted, cacheVars, watchVars>>

Init ==
    /\ RegInit
    /\ compacted = 0 /\ g_etcdOk = "unset" /\ g_entries = {}
    /\ instances = [m \in Methods |-> << >>] /\ rr = [m \in Methods |-> 0]
    /\ watch = [m \in Methods |-> "none"]
    /\ resumeRev = [m \in Methods |-> 0] /\ lastRevision = [m \in Methods |-> 0]
    /\ pos = [m \in Methods |-> 0] /\ hdr = [m \in Methods |-> 0]

Compact ==
    /\ MayCompact
    /\ \E r \in compacted + 1 .. Len(log) : compacted' = r
    /\ UNCHANGED <<regVars, cacheVars, watchVars>>

-----------------------------------------------------------------------------
(* The client process: ensureEtcd and GetRpcAddress. *)

(* call_once: Start succeeds or not, once and for all.  The lease of its *)
(* probe holds no key, so that no list ever shows it.                    *)
ensureEtcd ==
    /\ g_etcdOk = "unset"
    /\ g_etcdOk' \in {"yes", "no"}
    /\ UNCHANGED <<regVars, compacted, g_entries, instances, rr, watchVars>>

(* The first request for a method: RangePrefix, then the watch thread. *)
RangePrefix(m) ==
    /\ g_etcdOk = "yes" /\ m \notin g_entries
    /\ \E s \in [1 .. Cardinality(Listed(m)) -> Listed(m)] :
         /\ Range(s) = Listed(m)
         /\ instances' = [instances EXCEPT ![m] = s]
    /\ g_entries' = g_entries \cup {m}
    /\ watch' = [watch EXCEPT ![m] = "down"]
    /\ resumeRev' = [resumeRev EXCEPT ![m] = Len(log) + 1]
    /\ lastRevision' = [lastRevision EXCEPT ![m] = Len(log)]
    /\ pos' = [pos EXCEPT ![m] = Len(log)]
    /\ UNCHANGED <<regVars, compacted, g_etcdOk, rr, hdr>>

(* An address is handed out, round robin. *)
GetRpcAddress(m) ==
    /\ m \in g_entries /\ instances[m] # << >> /\ rr[m] < MaxPicks
    /\ rr' = [rr EXCEPT ![m] = @ + 1]
    /\ UNCHANGED <<regVars, compacted, g_etcdOk, g_entries, instances, watchVars>>

(* No address: etcd was not reachable at the start, RangePrefix fails (no *)
(* entry is made), or nobody is listed.                                   *)
GetRpcAddressFails(m) ==
    /\ g_etcdOk # "unset"
    /\ g_etcdOk = "no" \/ m \notin g_entries \/ instances[m] = << >>
    /\ UNCHANGED vars

-----------------------------------------------------------------------------
(* WatchPrefixBlocking and parseWatchLine. *)

(* A new stream from resumeRev on; etcd cancels one that is compacted. *)
WatchConnects(m) ==
    /\ watch[m] = "down"
    /\ watch' = [watch EXCEPT ![m] = IF resumeRev[m] <= compacted
                                     THEN "cancelled" ELSE "up"]
    /\ pos' = [pos EXCEPT ![m] = resumeRev[m] - 1]
    /\ lastRevision' = [lastRevision EXCEPT ![m] = resumeRev[m] - 1]
    /\ UNCHANGED <<regVars, compacted, cacheVars, resumeRev, hdr>>

Touches(i, m) == \E p \in Providers : <<m, p>> \in log[i].keys

(* A line with events arrives whole. *)
WatchFrame(m) ==
    /\ watch[m] = "up" /\ hdr[m] = 0
    /\ \E h \in pos[m] + 1 .. Len(log) :
         /\ \E i \in pos[m] + 1 .. h : Touches(i, m)
         /\ hdr' = [hdr EXCEPT ![m] = h]
    /\ UNCHANGED <<regVars, compacted, cacheVars, watch, resumeRev, lastRevision, pos>>

(* erase of remove: what is not addr stays, in its order. *)
Erased(vec, addr) ==
    LET keep == {i \in DOMAIN vec : vec[i] # addr}
        nth(k) == CHOOSE i \in keep : Cardinality({j \in keep : j <= i}) = k
    IN  [k \in 1 .. Cardinality(keep) |-> vec[nth(k)]]

(* Mutant: an event without a type, as protojson writes a Put, is skipped. *)
Applied_SkipPut(vec, type, addr) ==
    IF type = "Delete" THEN Erased(vec, addr) ELSE vec

(* The callback on one event: idempotent by address. *)
Applied(vec, type, addr) ==
    IF type = "Delete" THEN Erased(vec, addr)
    ELSE IF addr \in Range(vec) THEN vec ELSE Append(vec, addr)

WatchEvent(m) ==
    LET i == pos[m] + 1 IN
    /\ hdr[m] # 0 /\ pos[m] < hdr[m]
    /\ IF Touches(i, m)
       THEN \E p \in Providers :
              /\ <<m, p>> \in log[i].keys
              /\ instances' = [instances EXCEPT ![m] = Applied(@, log[i].type, p)]
       ELSE UNCHANGED instances
    /\ pos' = [pos EXCEPT ![m] = i]
    /\ UNCHANGED <<regVars, compacted, g_etcdOk, g_entries, rr, watch, resumeRev,
                   lastRevision, hdr>>

(* Mutant: the revision of the frame is not remembered. *)
FrameDone_Forget(m) ==
    /\ hdr[m] # 0 /\ pos[m] = hdr[m]
    /\ hdr' = [hdr EXCEPT ![m] = 0]
    /\ UNCHANGED <<regVars, compacted, cacheVars, watch, resumeRev, lastRevision, pos>>

(* After the last event of the frame lastRevision moves to its header's. *)
FrameDone(m) ==
    /\ hdr[m] # 0 /\ pos[m] = hdr[m]
    /\ hdr' = [hdr EXCEPT ![m] = 0]
    /\ lastRevision' = [lastRevision EXCEPT ![m] = IF hdr[m] > @ THEN hdr[m] ELSE @]
    /\ UNCHANGED <<regVars, compacted, cacheVars, watch, resumeRev, pos>>

(* etcd cancels a stream that lags behind what is compacted. *)
WatchCancelled(m) ==
    /\ watch[m] = "up" /\ hdr[m] = 0
    /\ \E i \in pos[m] + 1 .. compacted : Touches(i, m)
    /\ watch' = [watch EXCEPT ![m] = "cancelled"]
    /\ UNCHANGED <<regVars, compacted, cacheVars, resumeRev, lastRevision, pos, hdr>>

(* The stream ends; the next one resumes behind what was processed. *)
StreamBreaks(m) ==
    /\ watch[m] \in {"up", "cancelled"} /\ hdr[m] = 0
    /\ watch' = [watch EXCEPT ![m] = "down"]
    /\ resumeRev' = [resumeRev EXCEPT ![m] =
                        IF lastRevision[m] >= @ THEN lastRevision[m] + 1 ELSE @]
    /\ UNCHANGED <<regVars, compacted, cacheVars, lastRevision, pos, hdr>>

-----------------------------------------------------------------------------
Watcher(m) == WatchConnects(m) \/ WatchFrame(m) \/ WatchEvent(m) \/ FrameDone(m)

Client(m) ==
    \/ RangePrefix(m) \/ GetRpcAddress(m) \/ GetRpcAddressFails(m)
    \/ Watcher(m) \/ WatchCancelled(m) \/ StreamBreaks(m)

Next ==
    \/ RegNext /\ UNCHANGED <<compacted, cacheVars, watchVars>>
    \/ Compact \/ ensureEtcd
    \/ \E m \in Methods : Client(m)

Spec == Init /\ [][Next]_vars

(***************************************************************************)
(* Fairness: the watch thread runs, a stream that is opened again and      *)
(* again delivers a frame in the end, and a cancelled stream is dropped.   *)
(***************************************************************************)
Fairness ==
    \A m \in Methods :
        /\ WF_vars(WatchConnects(m) \/ WatchEvent(m) \/ FrameDone(m))
        /\ SF_vars(WatchFrame(m))
        /\ WF_vars(watch[m] = "cancelled" /\ StreamBreaks(m))

FairSpec == Spec /\ RegFairness /\ Fairness
=============================================================================
