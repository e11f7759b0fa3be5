--------------------------- MODULE MCTrendBaseline ---------------------------
(***************************************************************************)
(* The commands of MCArchitectureRuns with a ghost that remembers the view *)
(* before the last command, as long as commands run one after the other.   *)
(***************************************************************************)
EXTENDS MCArchitectureRuns

VARIABLE since \* the newest run when the last command was launched, or 0

AnyRunning == \E c \in Commands : Running(c)

TrendInit == ViewInit /\ since = 0

TrendNext ==
    \/ \E c \in Commands : Launch(c) /\ since' = IF AnyRunning THEN 0 ELSE Len(runs)
    \/ (\E c \in Commands : Step(c) \/ Abort(c)) /\ UNCHANGED since

TrendSpec == TrendInit /\ [][TrendNext]_<<viewVars, since>>

\* What the description of get_architecture_smells says of its trend: the new
\* findings appeared since the last index or update, so they are those of the
\* newest run that the view before the last command did not have.
TrendSinceLastCommand ==
    ~AnyRunning /\ (\A c \in Commands : stage[c] # "aborted") /\ since > 0 =>
        Identities(runs[Len(runs)]) \ Identities(runs[since])
            \subseteq DiffArchitectureRuns(runs[Len(runs) - 1], runs[Len(runs)]).new

=============================================================================
