----------------------------- MODULE HotReload -----------------------------
(***************************************************************************)
(* The program of client1.0.cpp: main adds the old servers, starts the io  *)
(* threads, and some time later reloads with the new servers, none of      *)
(* which is an old one.                                                    *)
(***************************************************************************)
EXTENDS ClientManager

CONSTANTS
    OldKey, NewKey  \* keys added by main, and by the reload

ASSUME KeysAssumption == OldKey \cap NewKey = {} /\ OldKey \cup NewKey = Key

\* The calls of main, for the connections it adds and the parameters it then
\* reloads.
Main(olds, news) ==
    olds \o <<[op |-> "run"], [op |-> "reload", params |-> news]>>

\* What a caller's calls have to be for its program to be this one: each of the
\* new servers is in the new parameters once.
NewParams(ps) ==
    /\ \A i \in DOMAIN ps : ps[i].key \in NewKey
    /\ \A i, j \in DOMAIN ps : ps[i].key = ps[j].key => i = j

RunsMain ==
    \A s \in Scripts :
        LET n == Len(s) IN
            /\ n >= 2 /\ s[n].op = "reload" /\ NewParams(s[n].params)
            /\ s[n - 1].op = "run"
            /\ \A i \in 1 .. n - 2 : s[i].op = "add" /\ s[i].key \in OldKey

OfKeys(ks) == {l \in Lineage : lkey[l] \in ks}

\* What the reload builds is not disturbed by the end of what it replaces:
\* the callbacks of the old connections, which erase by key, and the clearing
\* of conn_infos_ leave the new connections registered and described.
NewTracked == \A l \in OfKeys(NewKey) : Tracked(l)

\* The end of the program is always the work of an old lineage that survived
\* the reload: adding, losing and retrying the new servers never aborts.
OnlyOrphansAbort ==
    [][aborted' /\ ~aborted =>
         \E l \in OfKeys(OldKey) : phase[l] = "backoff" /\ phase'[l] = "done"]_vars

\* A connection that the reload asks to close is never replaced by another one,
\* even if an error comes before the request and asks for a retry, and whether
\* the retry is decided before the parameters are cleared or after.
NotReplaced ==
    \A l \in Lineage :
        []((\E i \in DOMAIN strand[l] : strand[l][i] = "close")
             => [](phase[l] # "connecting"))

\* It is closed in the end: its lineage ends, or, if an error comes before the
\* request, the program does, since the retry finds the parameters cleared.
OldClosed ==
    \A l \in Lineage :
        (\E i \in DOMAIN strand[l] : strand[l][i] = "close")
            ~> (phase[l] = "done" \/ aborted)

\* What the comment of reload_connections says, "close all old connections,
\* rebuild with the new parameters": when it has returned, no old server is
\* connected to again.
NoneComesBack ==
    [][script = <<>> => \A l \in OfKeys(OldKey) :
                      phase'[l] = "open" => phase[l] = "open"]_vars
=============================================================================
