------------------------------- MODULE MCTrust -------------------------------
\* An instance of Trust: one caller; a seed or the owner says nothing special of
\* the operation, or that it needs a shell and confirmation, with the upgrade on
\* or off.
EXTENDS Trust

CONSTANT p1

Clean == [Identity EXCEPT !.grade = "none"]
Stamped == [Identity EXCEPT !.shell = TRUE, !.requires_confirmation = TRUE,
                            !.grade = "assumed"]
DeclaredEffects == {Clean, Stamped}
DeclaredTrusts ==
    {[allow_shell |-> TRUE, allow_network |-> FALSE, auto_upgrade |-> FALSE],
     NetworkTrust}
\* A command that is stated to need no shell is explored no further: it runs
\* like one of which nothing is stated and that needs none.
ShellUnstated == profile.kind = "cli" => profile.shell # "no"
=============================================================================
