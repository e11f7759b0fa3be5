---------------------------- MODULE ServiceTable ----------------------------
(***************************************************************************)
(* The `services` table (orbitkb/db/repositories/services.py): which row a *)
(* command means by a name, a root path and a repository, and what         *)
(* ensure_service does to the table.  Pure operators over a table value    *)
(* that maps a rowid to a row, or to None.  Stack, descriptions and        *)
(* timestamps are left out: no lookup reads them.                          *)
(***************************************************************************)
EXTENDS Naturals, FiniteSets

CONSTANTS
    Names,    \* service names
    Roots,    \* absolute root paths
    Repos,    \* repository ids
    NoRepo,   \* SQL NULL in services.repository_id, and Python's None
    Ids,      \* rowids the instance may use
    None      \* no row, no process, no value

Row == [name : Names, root : Roots, repo : Repos \cup {NoRepo}]

ASSUME TableAssumption ==
    /\ NoRepo \notin Repos
    /\ Ids \subseteq Nat \ {0}
    /\ None \notin Ids \cup Row

Tables == [Ids -> Row \cup {None}]

EmptyTable == [i \in Ids |-> None]

RowIds(tbl) == {i \in Ids : tbl[i] # None}

\* The rows get_service_by_name selects: scoped by repository when there is one.
NamedRows(tbl, name, repo) ==
    {i \in RowIds(tbl) : tbl[i].name = name /\ (repo # NoRepo => tbl[i].repo = repo)}

\* get_service_by_root_path: `repository_id IS NULL` when no repository is given.
RootedRows(tbl, root, repo) ==
    {i \in RowIds(tbl) : tbl[i].root = root /\ tbl[i].repo = repo}

\* The rows ensure_service considers: by name and, only inside a repository
\* and only when no name matches, by root path.
EnsureCandidates(tbl, name, root, repo) ==
    IF repo = NoRepo \/ NamedRows(tbl, name, repo) # {}
    THEN NamedRows(tbl, name, repo)
    ELSE RootedRows(tbl, root, repo)

\* SQLite's rowid for INTEGER PRIMARY KEY without AUTOINCREMENT: one more than
\* the largest in use, so the id of a deleted last row is given out again.
IsNextRowid(tbl, i) ==
    /\ \A j \in RowIds(tbl) : j < i
    /\ i = 1 \/ (i - 1) \in RowIds(tbl)

\* What the UPDATE of ensure_service leaves in the row: COALESCE keeps the
\* repository of a row reached without one.
Refreshed(row, name, root, repo) ==
    [name |-> name, root |-> root, repo |-> IF repo = NoRepo THEN row.repo ELSE repo]

\* ensure_service: the one matching row i is refreshed, or a new row i is
\* inserted; an ambiguous name raises ValueError, and no i satisfies this.
EnsuresRow(tbl, name, root, repo, i, new) ==
    LET found == EnsureCandidates(tbl, name, root, repo) IN
    \/ /\ i \in found
       /\ repo = NoRepo => found = {i}
       /\ new = [tbl EXCEPT ![i] = Refreshed(tbl[i], name, root, repo)]
    \/ /\ found = {}
       /\ IsNextRowid(tbl, i)
       /\ new = [tbl EXCEPT ![i] = [name |-> name, root |-> root, repo |-> repo]]

\* UNIQUE(repository_id, name): NULL repositories never collide.
UniqueNames(tbl) ==
    \A i, j \in RowIds(tbl) :
        tbl[i].name = tbl[j].name /\ tbl[i].repo = tbl[j].repo /\ tbl[i].repo # NoRepo
            => i = j
=============================================================================
