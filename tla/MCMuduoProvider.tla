---------------------------- MODULE MCMuduoProvider ----------------------------
(* TLC instance of the muduo server. *)
EXTENDS MuduoProviderProps

F(k, a) == [kind |-> k, args |-> a]

\* Frames behind each kind of bad one and behind a good one, and connections
\* that share a thread.
MCStreams == {<<F("unknown", 0), F("badArgs", 1)>>, <<F("badArgs", 1), F("ok", 0)>>,
              <<F("badHeader", 0), F("ok", 1)>>, <<F("ok", 0), F("ok", 1)>>,
              <<>>, <<F("ok", 1)>>, <<F("badArgs", 0)>>}

MCLogThreads == IoThreads \cup Workers \cup {"main"}
=============================================================================
