------------------------------ MODULE RpcCalls ------------------------------
(***************************************************************************)
(* What a channel promises its callers, whatever the transport: CallMethod *)
(* may be called, and the done closure of every call made runs exactly     *)
(* once, with a response or with a failure recorded in the controller      *)
(* (src/src/include/channel.h: "guarantees that done fires exactly once"). *)
(***************************************************************************)
EXTENDS Naturals

CONSTANT Calls

VARIABLES
    made,    \* calls whose CallMethod has begun
    nDone,   \* nDone[c] = how often done has run
    result   \* result[c] = "none", or what done found

callVars == <<made, nDone, result>>

CallsInit ==
    /\ made = {}
    /\ nDone = [c \in Calls |-> 0]
    /\ result = [c \in Calls |-> "none"]

Make(c) ==
    /\ c \notin made
    /\ made' = made \cup {c}
    /\ UNCHANGED <<nDone, result>>

(* done runs, and may itself make a call d (d = c: it makes none); a call *)
(* may fail in the very step that makes it.                               *)
Settle(c, r) ==
    /\ nDone[c] = 0
    /\ \E d \in Calls : made' = made \cup {c, d}
    /\ nDone' = [nDone EXCEPT ![c] = 1]
    /\ result' = [result EXCEPT ![c] = r]

CallsNext == \E c \in Calls : Make(c) \/ Settle(c, "ok") \/ Settle(c, "fail")

(* Safety alone: no done runs twice. *)
CallsSpec == CallsInit /\ [][CallsNext]_callVars

Settled(c) == c \in made /\ (Settle(c, "ok") \/ Settle(c, "fail"))

(* And no caller waits for ever. *)
CallsFairSpec == CallsSpec /\ \A c \in Calls : WF_callVars(Settled(c))
=============================================================================
