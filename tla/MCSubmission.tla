---------------------------- MODULE MCSubmission ----------------------------
(* An instance of Submission for TLC: URLs of one site and one other, next  *)
(* to an allowed path, below it, at it, and beside it with the same first   *)
(* letters; docset names that are the same when cleaned.                    *)
EXTENDS Submission, TLC

CONSTANTS c1, c2

Url(host, port, path) == [scheme |-> "https", host |-> host, port |-> port, path |-> path]
Wiki(path) == Url("en", "none", path)
At == Wiki(<<"/", "w">>)
Below == Wiki(<<"/", "w", "/", "x">>)
Beside == Wiki(<<"/", "w", "x">>)
OtherPort == Url("en", "8080", <<"/", "w">>)
OtherHost == Url("fr", "none", <<"/", "w">>)

MCAllowedDomains == {Wiki(<<"/", "w", "/">>), Wiki(<<"/", "x">>), Url("", "none", <<>>)}
MCRegistrations ==
    << [name |-> "old", prefix |-> Wiki(<<"/", "w", "/", "x">>)],
       [name |-> "other", prefix |-> Url("fr", "none", <<>>)],
       [name |-> "new", prefix |-> Wiki(<<"/", "w", "/", "x", "/">>)] >>

MCCleaned == "wiki" :> "wiki" @@ " Wiki" :> "wiki" @@ "Default" :> "default" @@ "a b" :> Malformed

Batch(docset, items) == [docset |-> docset, items |-> items]
MCRequests ==
    c1 :> { Batch("wiki", <<Below, At>>),
            Batch(Unscoped, <<Beside, OtherPort>>),
            Batch("Default", <<At>>),
            Batch("a b", <<At>>),
            Batch(Unscoped, <<At, Below, At>>) } @@
    c2 :> { Batch(" Wiki", <<Below, Below>>),
            Batch(Unscoped, <<OtherHost, Below>>) }

MCMaxSends == c1 :> 2 @@ c2 :> 1
=============================================================================
