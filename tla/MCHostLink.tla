----------------------------- MODULE MCHostLink -----------------------------
EXTENDS HostLink, TLC

CONSTANTS a1, a2, h1, k1

\* How many of each kind are asked, at most.
Work(code, claim, connect, rename, remove, signout) ==
  [k \in Kinds |-> CASE k = "code" -> code [] k = "claim" -> claim [] k = "connect" -> connect
                     [] k = "rename" -> rename [] k = "remove" -> remove
                     [] k = "signout" -> signout [] OTHER -> 0]

Overlapping == {Work(0, 0, 1, 1, 1, 0), Work(0, 0, 1, 1, 0, 1), Work(1, 1, 1, 0, 1, 1),
                [Work(0, 0, 1, 0, 1, 0) EXCEPT !["retry"] = 1],
                Work(0, 0, 1, 0, 2, 0), Work(1, 1, 0, 0, 2, 0)}
=============================================================================
