---------------------------- MODULE MigrationsInv ----------------------------
(* What every step of Migrations keeps. *)
EXTENDS Migrations

DroppedBy(script, n) == UNION {Drops(script[i]) : i \in 1..n}
CreatedBy(script, n) == UNION {Creates(script[i]) : i \in 1..n}

\* The catalog after c.at statements of the script that leaves revision c.rev.
Reached(c) == (Built(c.rev) \ DroppedBy(Script(c), c.at)) \cup CreatedBy(Script(c), c.at)

\* A command is between its two revisions and within a script; only the idle
\* one goes nowhere.
Underway(c) ==
  /\ IF c.from <= c.to THEN c.from <= c.rev /\ c.rev <= c.to ELSE c.to <= c.rev /\ c.rev <= c.from
  /\ IF c.rev = c.to THEN c.at = 0 ELSE c.at <= Len(Script(c))
  /\ c = Idle \/ c.from # c.to

\* What it has done to the catalog it found is what its revisions say.
OnTrack(c) == (Built(c.from) \ c.removed) \cup c.added = Reached(c)

\* Two commands never touch the same object, nor the same row of the versions.
LocksExclude == \A m, n \in Migrators : m # n =>
  run[m].locks \cap run[n].locks = {} /\ Stamped(run[m]) \cap Stamped(run[n]) = {}

\* A row besides that of the version is of the first revision, which is empty.
OneStray == heads \subseteq {1, version}

\* What a command up to the first revision, or from it to base, may have stamped
\* while the database is further: nothing that matters, and it gets no further
\* than the table users, which is there.
Astray(c) == /\ version >= 2
             /\ (c.from = 0 /\ c.rev = 1 /\ c.at <= 6) \/ (c.from = 1 /\ c.rev = 0)

\* Any other command that has stamped a revision keeps the others from stamping:
\* the version is still the one it started from.
KnowsVersion(c) ==
  /\ c.rev # c.from => c.from \in heads \cup {0} /\ (version = c.from \/ Astray(c))
  /\ c.from >= 2 /\ c.rev <= 1 => 1 \notin heads

\* The first two upgrades only create, and nobody creates users twice.
UsersOnce(c) ==
  /\ c.from <= 1 /\ c.rev <= 1 => c.removed = {}
  /\ "users" \in c.added => "users" \in c.locks /\ "users" \notin objects

\* Rows satisfy the unique indexes that are there, and the ones an open
\* transaction has built over a locked table.
RowsSatisfyIndexes ==
  /\ "users" \notin objects => accounts = {}
  /\ \A i \in objects \cap IndexesOn("users") : Satisfied(i, accounts)
  /\ \A m \in Migrators : \A i \in run[m].added \cap IndexesOn("users") :
       Satisfied(i, accounts) /\ "users" \in run[m].locks

Inv ==
  /\ TypeOK
  /\ \A m \in Migrators : Underway(run[m]) /\ OnTrack(run[m]) /\ KnowsVersion(run[m])
                           /\ UsersOnce(run[m])
  /\ LocksExclude
  /\ OneStray
  /\ CatalogMatchesVersion
  /\ RowsSatisfyIndexes
===============================================================================
