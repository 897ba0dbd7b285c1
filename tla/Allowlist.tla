----------------------------- MODULE Allowlist ------------------------------
(***************************************************************************)
(* Which URLs may be ingested, and which strategy extracts them:           *)
(* app/core/security.py and app/services/extractors/strategies/registry.py *)
(* as pure operators.                                                      *)
(*                                                                         *)
(* A URL, or a configured prefix, is what urlsplit makes of it: a record   *)
(* of scheme, host, port and path.  Scheme and host are in lower case, a   *)
(* part that is missing is "", and a path is the sequence of its           *)
(* characters: empty, or beginning with a slash.                           *)
(***************************************************************************)
EXTENDS Integers, Sequences, FiniteSetsExt, SequencesExt

\* str.rstrip("/")
WithoutSlashes(path) ==
    SubSeq(path, 1, Max({0} \cup {i \in DOMAIN path : path[i] # "/"}))

\* Mutant: the slash after the allowed path is forgotten.
MatchesAnyPrefix(url, prefix) ==
    /\ prefix.scheme # "" /\ prefix.host # ""
    /\ url.scheme = prefix.scheme /\ url.host = prefix.host /\ url.port = prefix.port
    /\ IsPrefix(WithoutSlashes(prefix.path), url.path)

\* _matches_domain
MatchesDomain(url, prefix) ==
    LET path == WithoutSlashes(prefix.path)
    IN /\ prefix.scheme # "" /\ prefix.host # ""
       /\ url.scheme = prefix.scheme /\ url.host = prefix.host /\ url.port = prefix.port
       /\ \/ path = <<>>
          \/ url.path = path
          \/ IsPrefix(Append(path, "/"), url.path)

\* is_allowed_url: without any allowed prefix nothing is allowed.
IsAllowed(url, allowed) ==
    /\ url.scheme \in {"http", "https"} /\ url.host # ""
    /\ \E prefix \in allowed : MatchesDomain(url, prefix)

\* Scheme, host and port of two URLs are the same.
SameSite(p, q) == p.scheme = q.scheme /\ p.host = q.host /\ p.port = q.port

\* Two prefixes are the same but for slashes at the end.  The code compares their strings:
\* prefixes are written in lower case here, as the one it registers is.
SamePrefix(p, q) == SameSite(p, q) /\ WithoutSlashes(p.path) = WithoutSlashes(q.path)

\* The strategies of another prefix, in their order.
Others(strategies, prefix) ==
    FoldLeft(LAMBDA kept, s : IF SamePrefix(s.prefix, prefix) THEN kept ELSE Append(kept, s),
             <<>>, strategies)

\* ExtractionStrategyRegistry.register: a strategy of the same prefix is dropped.
Register(strategies, strategy) == Append(Others(strategies, strategy.prefix), strategy)

\* find_strategy: the places of the strategies that match; the first of them is taken.
Matching(strategies, url) ==
    {i \in DOMAIN strategies : url.scheme # "" /\ url.host # ""
                               /\ MatchesDomain(url, strategies[i].prefix)}
=============================================================================
