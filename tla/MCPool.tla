------------------------------- MODULE MCPool -------------------------------
EXTENDS ProfilePool, TLC

CONSTANTS p1, p2, p3

Job(op, alias) ==
  [op |-> op, alias |-> alias, tab |-> "own", key |-> None, ttl |-> 2, timeout |-> 0,
   of |-> None, yes |-> FALSE]

Shared == [Job("acquire", "a") EXCEPT !.tab = "shared", !.key = "k"]

MCJobs ==
  p1 :> {Shared}
  @@ p2 :> {[Shared EXCEPT !.ttl = 1], [Job("acquire", "a") EXCEPT !.timeout = 1], Job("list", "a")}
  @@ p3 :> {Job("acquire", "b"), [Job("reclaim", "a") EXCEPT !.yes = TRUE],
            [Job("renew", "a") EXCEPT !.of = p1, !.ttl = 1], [Job("release", "a") EXCEPT !.of = p1]}

MCConfigs == {"a" :> "P" @@ "b" :> "Q", "a" :> "P" @@ "b" :> "P"}
=============================================================================
