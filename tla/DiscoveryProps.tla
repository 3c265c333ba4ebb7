--------------------------- MODULE DiscoveryProps ---------------------------
(***************************************************************************)
(* What clients may rely on in the discovery of providers.                 *)
(***************************************************************************)
EXTENDS Discovery

(* Every variable has a value of its kind, and an instance is listed once. *)
TypeOK ==
    /\ compacted \in 0 .. Len(log) /\ pos \in [Methods -> 0 .. Len(log)]
    /\ g_etcdOk \in {"unset", "yes", "no"} /\ g_entries \subseteq Methods
    /\ rr \in [Methods -> 0 .. MaxPicks]
    /\ watch \in [Methods -> {"none", "down", "up", "cancelled"}]
    /\ resumeRev \in [Methods -> 0 .. Len(log) + 1]
    /\ lastRevision \in [Methods -> 0 .. Len(log)] /\ hdr \in [Methods -> 0 .. Len(log)]
    /\ instances \in [Methods -> Seq(Providers)]
    /\ \A m \in Methods : Len(instances[m]) = Cardinality(Range(instances[m]))

(* The providers etcd listed for m at revision r, read off its history. *)
ListedAt(m, r) ==
    {p \in Providers :
        \E i \in 1 .. r :
            /\ log[i].type = "Put" /\ <<m, p>> \in log[i].keys
            /\ \A j \in i + 1 .. r : <<m, p>> \notin log[j].keys}

(* What MethodEntry holds is what etcd listed at one revision, the one the *)
(* watch has reached: over all reconnects no event is lost and none is     *)
(* applied again over a later one (resumeRev, lastRevision), so that no    *)
(* instance is missing, wrong or there twice.                              *)
ViewIsSnapshot ==
    /\ TypeOK
    /\ \A m \in g_entries : Range(instances[m]) = ListedAt(m, pos[m])

-----------------------------------------------------------------------------
(***************************************************************************)
(* DiscoveryInv, the inductive invariant behind ViewIsSnapshot; it stands  *)
(* on RegInv of the providers' side.                                       *)
(***************************************************************************)

(* A lease's keys are of one provider, so an event list names at most one  *)
(* provider of a method; the log ends at what etcd holds.                  *)
LogInv ==
    /\ \A m, n \in Methods, p, q \in Providers :
         kv[<<m, p>>] # 0 /\ kv[<<m, p>>] = kv[<<n, q>>] => p = q
    /\ \A i \in 1 .. Len(log), m \in Methods, p, q \in Providers :
         <<m, p>> \in log[i].keys /\ <<m, q>> \in log[i].keys => p = q
    /\ \A m \in Methods : ListedAt(m, Len(log)) = Listed(m)

(* Between frames everything delivered is processed and remembered, and a  *)
(* stream that has to be opened is asked for behind it.                    *)
WatchInv ==
    \A m \in g_entries :
        /\ watch[m] \in {"down", "cancelled"} => hdr[m] = 0
        /\ hdr[m] = 0 => lastRevision[m] = pos[m]
        /\ hdr[m] # 0 => pos[m] <= hdr[m] /\ lastRevision[m] < hdr[m]
        /\ watch[m] # "none" /\ resumeRev[m] \in 1 .. lastRevision[m] + 1
        /\ watch[m] = "down" => resumeRev[m] = pos[m] + 1

(* No watch before the first request for a method, no instance twice. *)
EntryInv ==
    /\ \A m \in Methods \ g_entries : watch[m] = "none" /\ hdr[m] = 0
    /\ \A m \in Methods : IsInjective(instances[m])

DiscoveryInv ==
    /\ TypeOK /\ LogInv /\ WatchInv /\ EntryInv
    /\ \A m \in g_entries : Range(instances[m]) = ListedAt(m, pos[m])

-----------------------------------------------------------------------------
(* The next stream has to resume at a revision that etcd has discarded:    *)
(* parseWatchLine ignores the cancellation, and the same one is asked for. *)
Stranded(m) == watch[m] \in {"down", "cancelled"} /\ resumeRev[m] <= compacted

(* When the registrations no longer change, every client's list is right   *)
(* from some point on (WatchPrefixBlocking reconnects for ever).           *)
ViewConverges ==
    \A m \in Methods : <>[](m \in g_entries => Range(instances[m]) = Listed(m))

(* The same as far as the code goes: over all broken streams a client's    *)
(* list becomes right and stays so, unless compaction overtook the watch;  *)
(* nothing else keeps a client out of date.                                *)
ConvergesUnlessStranded ==
    \A m \in Methods :
        \/ <>[](m \in g_entries => Range(instances[m]) = Listed(m))
        \/ <>[]Stranded(m)

(* A provider that is down leaves the lists of all clients that are not    *)
(* stranded: its lease expires and the watch brings the deletion.          *)
DeadLeave ==
    \A p \in Providers, m \in Methods :
        (prov[p] = "off" /\ p \in Range(instances[m]))
            ~> (prov[p] # "off" \/ p \notin Range(instances[m]) \/ Stranded(m))

=============================================================================
