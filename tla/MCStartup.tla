----------------------------- MODULE MCStartup -----------------------------
(* Values of the constants of Startup for TLC. *)
EXTENDS Startup

MCContents ==
    {[kind |-> k, limit |-> Unset] : k \in {"missing", "broken"}}
        \cup {[kind |-> "underscores", limit |-> l] : l \in {2, 3}}
        \cup {[kind |-> "hyphens", limit |-> 1]}

\* As the service runs it; files in both orders; an option over a file.
MCCommandLines ==
    [limit : {Unset}, conf : {<< >>, <<"etc", "user">>, <<"user", "etc">>}]
        \cup [limit : {1}, conf : {<<"user">>}]
=============================================================================
